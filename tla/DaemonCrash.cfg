SPECIFICATION Spec
CONSTANTS
  Interval = 1
  Stale = 2
  WriteFails = FALSE
  MaxRuns = 2
  MaxTime = 6
INVARIANTS
  CrashIsSeen
CHECK_DEADLOCK FALSE
