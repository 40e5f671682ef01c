SPECIFICATION Spec
CONSTANTS
  d1 = d1
  d2 = d2
  x = x
  f1 = f1
  f2 = f2
  Name = {d1, d2, x}
  Path <- MCPath
  File = {f1, f2}
SYMMETRY Symmetry
INVARIANTS
  TypeOK
  ChangesAreGranted
  WritersWereGranted
  WriteIntentIsKept
  FailuresAreContained
