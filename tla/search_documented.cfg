CONSTANTS
  MaxCnt = 5
  MaxKey = 3
  IntMax = 7
SPECIFICATION SearchSpec
INVARIANT FoundAsDocumented
