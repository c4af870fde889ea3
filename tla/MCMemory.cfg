SPECIFICATION Spec
CONSTANTS
  Cache_Block = {b1, b2, b3, b4}
  Tag <- MCTag
  NumBanks = 2
  RowBlocks = 4
  TCmd = 1
  TBank = 4
  TData = 2
INVARIANTS TypeOK NoConflict
PROPERTIES RowOrder Served
