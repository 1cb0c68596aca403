SPECIFICATION Spec
CONSTANTS
  a = a
  b = b
  d = d
  None = None
  Calls = {a, b, d}
  Kinds <- LiteAndPlain
  Solo <- Nothing
  Dropped <- Harmless
INVARIANTS
  CheckedOnce
CHECK_DEADLOCK FALSE
SYMMETRY Alike
