SPECIFICATION FairSpec
CONSTANTS
  c1 = c1
  c2 = c2
  s1 = s1
  s2 = s2
  Conn = {c1, c2}
  Chan = {s1, s2}
  MaxConnections = 1
INVARIANTS
  TypeOK
  NeverOrphaned
  StoppedIsQuiet
PROPERTIES
  NoAddFromZeroAfterWait
  StopEndsEverything
CHECK_DEADLOCK FALSE
