SPECIFICATION FairSpec
CONSTANTS
  MaxSize = 3
  DriftLimit = 1
  Burst = 2
  Failures = {FALSE, TRUE}
  MaxSetbacks = 1
  MaxLines = 5
  MaxFiles = 4
  MaxTime = 2
INVARIANTS
  TypeOK
  AcceptedLinesKept
  LogsBounded
  ArchivesOrdered
PROPERTIES
  Recovers
CHECK_DEADLOCK FALSE
