SPECIFICATION Spec
CONSTANTS
  Thread = {o, q}
  NbWriters = 2
  MaxRecorded = 3
  MaxTime = 3
  TimestampLimit = 5
SYMMETRY ThreadSymmetry
INVARIANTS
  MergedSinceStart
CHECK_DEADLOCK FALSE
