SPECIFICATION FairSpec
CONSTANTS
  Bank = {"bank0", "bank1"}
  Row = {0, 1}
  Closed = Closed
  timing <- MCTiming
  Core = {0, 1}
  Addr <- MCAddr
  bankOf <- MCBankOf
  rowOf <- MCRowOf
  Workload <- MCWorkload
  Policies <- AllPolicies
  QueueMax = 2
  HighMark = 1
  LowMark = 1
  nREFI = 7
  read_latency = 2
  cap = 1
  THRESHOLD = 1
  MaxReads <- MCMaxReads
INVARIANTS RowTableAgrees ServingExact ReadsSeeWrites RefreshesKeepUp
PROPERTIES Served
