\* Checkout implements AtomicCheckout: every id a client may get wrong, an edit, a failure.
CONSTANTS
  c1 = c1  c2 = c2  a1 = a1  a2 = a2  m1 = m1  m2 = m2  p1 = p1  p2 = p2  q1 = q1  q2 = q2
  k1 = k1  k2 = k2  u1 = u1  u2 = u2  unknown = unknown
  Requests = {r1, r2}
  Carts = {c1, c2}
  Addresses = {a1, a2}
  PaymentMethods = {m1, m2}
  Products = {p1, p2}
  Coupons = {q1, q2}
  CouponSets <- OneOrNone
  Keys = {k1, k2}
  Inputs <- AtomicInputs
  UserOf <- Owner
  Fillings <- MaybeEmpty
  InitialStock <- OneEach
  None = None
  EarlyExpiry = TRUE
  MaxFaults = 1
  MaxEdits = 1
SPECIFICATION Spec
SYMMETRY RequestSymmetry
INVARIANTS
  StaleVersionImpossible
  CheckedOutIffOrdered
PROPERTIES
  ImplementsAtomicCheckout
