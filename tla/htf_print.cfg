SPECIFICATION FairPrintSpec
CONSTANTS
  Algorithm = "Basic"
  MaxLoopLength = 100
  BlockStart = {enter}
  BlockEnd = {leave}
  Singleton = {send}
  MaxDepth = 3
  MaxEvents = 9
  MaxShown = 8
  MaxCallstackDepth = 4
INVARIANTS
  StoredThreadsAreWellFormed
  ReaderTypeOK
  CallstackIsPath
  CallstackDescends
  OverrunsOnlyDeepThreads
  AbortsOnlyOnUnevenLoops
  DoneWithAllEvents
  NeverAborts
PROPERTIES
  PrintsAllOfEvenTraces
  DisplaysAllOfTheTrace
CHECK_DEADLOCK FALSE
