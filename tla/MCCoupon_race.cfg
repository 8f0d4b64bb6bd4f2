\* Two workers, two carts, three coupons, one with a single use.
CONSTANTS
  u1 = u1  u2 = u2  f1 = f1  k1 = k1  k2 = k2
  Workers = {w1, w2}
  Carts = {k1, k2}
  Coupons = {u1, u2, f1}
  LimitOf <- CappedApart
  TypeOf <- Types
  Policy = "one_per_discount_type"
  Offers <- EachItsOwn
  None = None
SPECIFICATION FairSpec
INVARIANTS
  TypeOK
  UsesCounted
  WithinLimit
  StackingHolds
PROPERTIES
  NoDeactivatedCouponRedeemed
  EveryRequestEnds
