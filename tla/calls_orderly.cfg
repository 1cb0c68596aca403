SPECIFICATION Spec
CONSTANTS
  a = a
  b = b
  d = d
  None = None
  Calls = {a, b, d}
  Kinds <- Everything
  Failing <- LangChainOnly
  Orderly = TRUE
INVARIANTS
  QuietIsReleased
  QuietIsFlushed
  ReplyReachesRow
CHECK_DEADLOCK FALSE
SYMMETRY Alike
