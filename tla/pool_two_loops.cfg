SPECIFICATION FairSpec
CONSTANTS
  main = main
  side = side
  co = co
  far = far
  L = L
  K = K
  a = a
  b = b
  c = c
  None = None
  Procs = {co, far}
  Loops = {L, K}
  Rows = {a, b}
  Workers = 1
  LoopOf <- TwoLoops
  Closers = {}
INVARIANT FlushNeverRaises
CHECK_DEADLOCK FALSE
