\* Three carts and one coupon that may be used twice.
CONSTANTS
  u1 = u1  u2 = u2  f1 = f1  k1 = k1  k2 = k2
  Workers = {w1, w2}
  Carts = {k1, k2, k3}
  Coupons = {u1}
  LimitOf <- CappedAtTwo
  TypeOf <- Types
  Policy = "one_per_discount_type"
  Offers <- Everything
  None = None
SPECIFICATION Spec
INVARIANTS
  NoOveruse
