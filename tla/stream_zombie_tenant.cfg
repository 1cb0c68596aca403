SPECIFICATION Spec
CONSTANTS
  c1 = c1
  c2 = c2
  t1 = t1
  t2 = t2
  None = None
  Clients = {c1, c2}
  Tenants = {t1, t2}
  TenantOf <- TwoTenants
  MaxVersion = 1
  LadderTop = 1
  Faults <- NoFaults
  HasTtl = FALSE
INVARIANTS
  RulesOfInstalledTenant
CHECK_DEADLOCK FALSE
