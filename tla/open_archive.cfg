SPECIFICATION FairSpec
CONSTANTS
  SubVectorSize = 2
  WordBytes = 3
  ByteBase = 4
  Main = Main
  Missing = Missing
  Layout <- MCLayout
  Duration = {0, 1, 6, 21}
INVARIANTS
  DurationsAreRead
  AttributesAreFound
  EveryThreadOnce
  ArchivesAreListedOnce
PROPERTIES
  OpeningEnds
CHECK_DEADLOCK FALSE
