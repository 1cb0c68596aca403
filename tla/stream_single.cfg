SPECIFICATION Spec
CONSTANTS
  c1 = c1
  c2 = c2
  t1 = t1
  t2 = t2
  None = None
  Clients = {c1}
  Tenants = {t1}
  TenantOf <- OneTenant
  MaxVersion = 3
  LadderTop = 2
  Faults <- AllFaults
  HasTtl = TRUE
INVARIANTS
  TypeOK
  PackIsPublished
  CursorBacked
  LinkTellsStream
PROPERTIES
  StaleClockNotRefreshed
  ImplementsRuleCache
CHECK_DEADLOCK FALSE
