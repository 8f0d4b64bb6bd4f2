\* The carts of two users compete for two products under two keys.
CONSTANTS
  c1 = c1  c2 = c2  a1 = a1  a2 = a2  m1 = m1  m2 = m2  p1 = p1  p2 = p2  q1 = q1  q2 = q2
  k1 = k1  k2 = k2  u1 = u1  u2 = u2  unknown = unknown
  Requests = {r1, r2, r3}
  Carts = {c1, c2}
  Addresses = {a1, a2}
  PaymentMethods = {m1, m2}
  Products = {p1, p2}
  Coupons = {q1, q2}
  CouponSets <- OneCoupon
  Keys = {k1, k2}
  Inputs <- CrossInputs
  UserOf <- Owner
  Fillings <- CrossFillings
  InitialStock <- TwoEach
  None = None
  EarlyExpiry = TRUE
  MaxFaults = 0
  MaxEdits = 0
SPECIFICATION Spec
SYMMETRY RequestSymmetry
INVARIANTS
  TypeOK
  OneOrderPerCart
  OrdersMatchRecords
  StockConserved
  AnswersAreTruthful
PROPERTIES
  LockFreedByItsHolder
