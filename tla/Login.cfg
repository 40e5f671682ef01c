SPECIFICATION Spec
CONSTANTS
  s1 = s1
  h1 = h1
  h2 = h2
  k1 = k1
  k2 = k2
  Session = {s1}
  Hash = {h1, h2}
  Key = {k1, k2}
  MaxKeyLines = 2
  MaxAuthTries = 2
SYMMETRY Symmetry
INVARIANTS
  KeysFollowTheCharacter
  GoodKeysAreAccepted
PROPERTIES
  PasswordsJudgedByOneMoment
CHECK_DEADLOCK FALSE
