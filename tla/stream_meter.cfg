SPECIFICATION Spec
CONSTANTS
  None = None
  Providers <- Wires
  Slots <- Reply
  KindOf <- TextFirst
  Size <- Lengths
INVARIANTS
  TypeOK
  ReplyAsStreamed
  InjectionIsHarmless
  RowTellsUsage
CHECK_DEADLOCK FALSE
