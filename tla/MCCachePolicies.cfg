SPECIFICATION OrderSpec
CONSTANTS
  NumWays = 2
  IntMin <- MCIntMin
  IntMax = 5
  Tag <- MCTag
  NumSets = 2
  Policies <- MCPolicies
INVARIANT SameBlocks
PROPERTY DisabledWaits
