SPECIFICATION Spec
CONSTANTS
  MaxSize = 3
  DriftLimit = 1
  Burst = 1
  Failures = {TRUE}
  MaxSetbacks = 0
  MaxLines = 5
  MaxFiles = 5
  MaxTime = 3
INVARIANTS
  RotationKeepsLines
CHECK_DEADLOCK FALSE
