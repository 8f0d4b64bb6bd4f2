\* Two workers, two tenants, the windows and three rows of the address book, one failure.
CONSTANTS
  t1 = t1  t2 = t2  p1 = p1  p2 = p2
  Workers = {w1, w2}
  Tenants = {t1, t2}
  Products = {p1, p2}
  TenantOf <- Sellers
  Jobs <- Work
  Limit = 1
  MaxCount = 2
  MaxAddresses = 3
  MaxFaults = 1
  None = None
SPECIFICATION FairSpec
INVARIANTS
  TypeOK
  TouchesOwnTenant
  AdmittedWithinLimit
PROPERTIES
  DefaultKept
  WindowReopens
