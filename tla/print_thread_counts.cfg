SPECIFICATION PrintSpec
CONSTANTS
  Algorithm = "Basic"
  MaxLoopLength = 100
  BlockStart = {enter}
  BlockEnd = {leave}
  Singleton = {send}
  MaxDepth = 3
  MaxEvents = 7
  MaxShown = 7
  MaxCallstackDepth = 100
INVARIANTS
  OccurencesInOrder
CHECK_DEADLOCK FALSE
