SPECIFICATION MCFairSpec
CONSTANTS
  Process = {p, q}
  Location = {0, 2, 4}
  IdLimit = 4
  Group = 3
  MaxCalls = 3
INVARIANTS
  ArchiveTypeOK
  MutualExclusion
  OneThreadPerLocation
  NeverAnothersWriter
  ThreadsFindTheirArchive
  AbortsOnlyOnMisuse
PROPERTIES
  CallsReturn
CHECK_DEADLOCK FALSE
