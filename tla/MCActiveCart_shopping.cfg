\* One customer, two workers: five requests besides reads from no cart, three from a filled one.
CONSTANTS
  p1 = p1  p2 = p2  other = other  tenth = tenth  voucher = voucher  card = card
  sa = sa  acme = acme  k1 = k1  k2 = k2
  Workers = {w1, w2}
  Products = {p1, p2}
  PriceAt <- Dearer
  Coupons = {tenth, voucher}
  CouponOf <- Rows
  Gateways = {card}
  Keys = {k1, k2}
  Bodies <- Requests
  Openings <- FirstRequests
  Basket = {p1, p2}
  Home = sa
  MaxCarts = 3
  MaxRequests = 5
  MaxTime = 1
  MaxFaults = 1
  None = None
SPECIFICATION Spec
SYMMETRY WorkerSymmetry
INVARIANTS
  TypeOK
  OrdersAddUp
PROPERTIES
  LateEditsOverlap
  RetriesReplay
  LoserFindsWinner
