SPECIFICATION Spec
CONSTANTS
  a = a
  b = b
  d = d
  None = None
  Calls = {a, b, d}
  Kinds <- LlamaAndPlain
  Solo <- Nothing
  Dropped <- Harmless
INVARIANTS
  OneRowEach
CHECK_DEADLOCK FALSE
SYMMETRY Alike
