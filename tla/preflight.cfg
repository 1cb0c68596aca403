SPECIFICATION Spec
CONSTANTS
  c1 = c1
  c2 = c2
  m1 = m1
  m2 = m2
  Calls = {c1, c2}
  Models = {m1, m2}
  Task <- TwoTasks
  Asked <- MCAsked
  None = None
  ShapesOf <- MCShapesOf
  Policies <- MCPolicies
  MaxEdits = 1
  MaxRows = 2
  Cap = 1
INVARIANTS
  TypeOK
  BlockStands
  RowsTellTheWire
  EvidenceOnce
  PreviewMissesNothing
PROPERTY
  UnverifiedAllowIsTrue
CHECK_DEADLOCK FALSE
