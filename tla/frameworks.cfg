SPECIFICATION Spec
CONSTANTS
  a = a
  b = b
  d = d
  None = None
  Calls = {a, b, d}
  Kinds <- Everything
  Solo <- Holders
  Dropped <- Harmless
INVARIANTS
  TypeOK
  CheckedOnce
  OneRowEach
  QuietIsClean
CHECK_DEADLOCK FALSE
SYMMETRY Alike
