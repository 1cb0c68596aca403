SPECIFICATION Spec
CONSTANTS
  a = a
  b = b
  d = d
  None = None
  Calls = {a, b, d}
  Kinds <- Everything
  Failing <- Everything
  Orderly = FALSE
INVARIANTS
  TypeOK
  SpanShippedOnce
  AuditIsOwn
CHECK_DEADLOCK FALSE
SYMMETRY Alike
