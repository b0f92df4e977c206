SPECIFICATION MCSpec
CONSTANTS
  Process = {p, q}
  Location = {0, 2, 4}
  IdLimit = 4
  Group = 3
  MaxCalls = 3
INVARIANTS
  CallersGetTheirWriter
CHECK_DEADLOCK FALSE
