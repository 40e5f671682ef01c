SPECIFICATION Spec
CONSTANTS
  c1 = c1
  c2 = c2
  c3 = c3
  Client = {c1, c2, c3}
  Providers <- MCProviders
  MaxConnections = 1
  MaxTotal = 2
SYMMETRY Symmetry
INVARIANTS
  ConnectionLimit
  CountersBalance
  TotalWasTrue
  ActiveIsInTotal
CHECK_DEADLOCK FALSE
