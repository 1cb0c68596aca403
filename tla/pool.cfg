SPECIFICATION FairSpec
CONSTANTS
  main = main
  side = side
  co = co
  far = far
  L = L
  K = K
  a = a
  b = b
  c = c
  None = None
  Procs = {main, side, co}
  Loops = {L}
  Rows = {a, b}
  Workers = 1
  LoopOf <- Mixed
  Closers = {main, co}
INVARIANTS
  TypeOK
  AcceptedIsPosted
PROPERTIES
  FlushDrainsOwn
  EndsItsOperation
CHECK_DEADLOCK FALSE
