SPECIFICATION FilterSpec
CONSTANTS
  Algorithm = "Filter"
  MaxLoopLength = 100
  BlockStart = {}
  BlockEnd = {}
  a = a
  b = b
  c = c
  Singleton = {a, b, c}
  MaxDepth = 1
  MaxEvents = 22
INVARIANTS
  CountersMatchUnfolding
CHECK_DEADLOCK FALSE
