SPECIFICATION FairSpec
CONSTANTS
  c1 = c1
  c2 = c2
  t1 = t1
  t2 = t2
  None = None
  Clients = {c1}
  Tenants = {t1}
  TenantOf <- OneTenant
  MaxVersion = 1
  LadderTop = 1
  Faults <- NoFaults
  HasTtl = TRUE
PROPERTIES
  CacheHeals
CHECK_DEADLOCK FALSE
