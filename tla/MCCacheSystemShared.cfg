SPECIFICATION SystemSpec
CONSTANTS
  Block <- MCBlock5
  Configs <- MCSharing
  block_num <- MCSets2
  assoc = 2
  mshr_entry_num <- MCMshrs
  latency <- MCLatency
  latency_each <- MCEach
  depth = 1
  ipc = 1
  MaxOutstanding = 3
INVARIANT AssertionsHold
