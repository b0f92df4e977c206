SPECIFICATION Spec
CONSTANTS
  Thread = {o, q}
  NbWriters = 2
  MaxRecorded = 2
  MaxTime = 3
  TimestampLimit = 5
SYMMETRY ThreadSymmetry
INVARIANTS
  PrintedInOrder
CHECK_DEADLOCK FALSE
