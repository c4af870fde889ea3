SPECIFICATION LruSpec
CONSTANTS
  NumWays = 3
  IntMin <- MCIntMin
  IntMax = 7
  Tag <- MCTag
  NumSets = 2
PROPERTY ImplementsLru
