SPECIFICATION SystemSpec
CONSTANTS
  Block <- MCBlock
  Configs <- MCConfigs
  block_num <- MCSets
  assoc = 2
  mshr_entry_num <- MCMshrs
  latency <- MCLatency
  latency_each <- MCEach
  depth = 1
  ipc = 1
  MaxOutstanding = 3
INVARIANTS AssertionsHold MSHRsMatchLockedLines NothingForgotten DirtyKept
