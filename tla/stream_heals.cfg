SPECIFICATION FairSpec
CONSTANTS
  c1 = c1
  c2 = c2
  t1 = t1
  t2 = t2
  None = None
  Clients = {c1}
  Tenants = {t1}
  TenantOf <- OneTenant
  MaxVersion = 2
  LadderTop = 2
  Faults <- GapOnly
  HasTtl = FALSE
PROPERTIES
  CacheHeals
  ReaderWindsDown
CHECK_DEADLOCK FALSE
