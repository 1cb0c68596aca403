SPECIFICATION Spec
CONSTANTS
  t1 = t1
  t2 = t2
  s1 = s1
  s2 = s2
  s3 = s3
  s4 = s4
  None = None
  Tasks = {t1, t2}
  Main = t1
  Spans = {s1, s2, s3, s4}
  Programs <- Mixes
  Names <- TwoTools
  Replies <- SomeAsked
  Cap = 3
  Hops = 1
INVARIANTS
  TypeOK
  OrderIsOwn
PROPERTIES
  HangsUnderNearest
  IdIsOwn
CHECK_DEADLOCK FALSE
SYMMETRY Alike
