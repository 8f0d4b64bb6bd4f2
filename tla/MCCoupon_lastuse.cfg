\* One cart and one coupon with a single use.
CONSTANTS
  u1 = u1  u2 = u2  f1 = f1  k1 = k1  k2 = k2
  Workers = {w1}
  Carts = {k1}
  Coupons = {u1}
  LimitOf <- CappedAtOne
  TypeOf <- Types
  Policy = "one_per_discount_type"
  Offers <- Everything
  None = None
SPECIFICATION Spec
INVARIANTS
  OnlyDriftRefuses
