SPECIFICATION MCTimedSpec
CONSTANTS
  Algorithm = "Basic"
  MaxLoopLength = 100
  BlockStart = {enter}
  BlockEnd = {leave}
  Singleton = {send}
  MaxDepth = 3
  Ticks = {0, 2}
  Start = 7
  NbEventDefault = 3
  NbLoopDefault = 2
  MaxEvents = 9
  MaxStandstills = 0
INVARIANTS
  SequenceDurationsExact
CHECK_DEADLOCK FALSE
