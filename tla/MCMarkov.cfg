SPECIFICATION MarkovSpec
CONSTANTS
  PageOffsets = 2
  DELTA_NUM_WAYS = 2
  PAGE_NUM_SETS = 1
  PAGE_NUM_WAYS = 3
  TagSpan = 3
  PageAddress <- MCPage
  MaxDegree = 2
  Degree <- MCDegree
  MaxRecorded = 4
INVARIANTS CountedOnce PagesTracked ChainsOnly
