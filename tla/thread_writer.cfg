SPECIFICATION MCFairSpec
CONSTANTS
  Algorithm = "BasicTruncated"
  MaxLoopLength = 3
  BlockStart = {enter}
  BlockEnd = {leave}
  Singleton = {a, b}
  MaxDepth = 3
  MaxEvents = 8
INVARIANTS
  TypeOK
  ReferencesGoDown
  EveryBlockHasOneToken
  LoopsRespectBlocks
  CountersMatchUnfolding
  OneLoopAtATime
  NoIterationLeftBehind
  NoRepeatLeftBehind
  LoopsRepeat
PROPERTIES
  ClosingEnds
  TraceIsLossless
  HistoryIsFinal
CHECK_DEADLOCK FALSE
