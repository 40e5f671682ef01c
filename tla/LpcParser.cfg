SPECIFICATION Spec
CONSTANTS
  MaxDigits = 2
  MaxEdits = 2
  Seeds <- MCSeeds
  Alphabet <- MCAlphabet
  Files <- MCFiles
INVARIANTS
  ParsesTheFormat
  TornReadsAreNotNew
CHECK_DEADLOCK FALSE
