SPECIFICATION Spec
CONSTANTS
  a = a
  b = b
  d = d
  None = None
  Calls = {a, b}
  Kinds <- PlainOnly
  Failing <- Nothing
  Orderly = FALSE
INVARIANTS
  QuietIsReleased
CHECK_DEADLOCK FALSE
SYMMETRY Alike
