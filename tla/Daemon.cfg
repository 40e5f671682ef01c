SPECIFICATION FairSpec
CONSTANTS
  Interval = 1
  Stale = 4
  WriteFails = FALSE
  MaxRuns = 2
  MaxTime = 7
INVARIANTS
  TypeOK
  OrderlyStopIsSeen
  AliveIsSeen
PROPERTIES
  LastStopIsLast
  ShutdownCompletes
CHECK_DEADLOCK FALSE
