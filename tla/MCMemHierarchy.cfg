SPECIFICATION Spec
CONSTANTS
  Pointer <- MCPointer
  Malloc <- MCMalloc
  NULL = NULL
  Tag <- MCTag3
  L1Ways <- MCL1Ways
  L1Sets <- MCL1Sets
  L2Ways = 2
  L2Sets = 1
  L2_MSHR_SIZE = 2
  L2ToL1 = 2
  L2ToMem = 1
  MemToL2 = 1
  NumBanks = 2
  RowBlocks = 2
  TCmd = 1
  TBank = 2
  TData = 1
INVARIANTS TypeOK Ownership MSHRsMatchRequests CountExact SetsWellFormed
PROPERTIES DataArrives FetchResumes MemoryUsedAsSpecified
