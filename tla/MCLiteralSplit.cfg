\* Every string of up to five characters; size_t has eight values.
SPECIFICATION Spec
CONSTANTS
  Chars = {a, comma, nul}
  NUL = nul
  N = 5
  Counts <- UpToFour
  SizeT = 8
INVARIANTS
  FieldsAreRight
  ReadsInside
  CountSuffices
CHECK_DEADLOCK FALSE
