SPECIFICATION FairPrintSpec
CONSTANTS
  Algorithm = "Basic"
  MaxLoopLength = 100
  BlockStart = {enter}
  BlockEnd = {leave}
  Singleton = {send}
  MaxDepth = 3
  MaxEvents = 7
  MaxShown = 0
  MaxCallstackDepth = 100
PROPERTIES
  PrintsTheTrace
CHECK_DEADLOCK FALSE
