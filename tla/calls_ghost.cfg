SPECIFICATION Spec
CONSTANTS
  a = a
  b = b
  d = d
  None = None
  Calls = {a, b}
  Kinds <- PlainOnly
  Failing <- PlainOnly
  Orderly = TRUE
INVARIANTS
  QuietIsFlushed
CHECK_DEADLOCK FALSE
SYMMETRY Alike
