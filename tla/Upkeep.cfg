INIT MCInit
NEXT Upkeep
CONSTANTS
  Flags = {"sticky", "vehicle", "m1"}
  Pairs <- MCPairs
  MaxRef = 8
  Actors = {1, 2, 3, 4, 5, 6, 7, 8}
  MaxOps = 2
  MaxEdits = 2
  EditValues <- MCEditValues
  Depth <- MCDepth
  Damaged = {2, 4}
INVARIANTS WorldIsSound FreeListExact RepairsSettle SanityPasses
CHECK_DEADLOCK FALSE
PROPERTIES MortalReach
