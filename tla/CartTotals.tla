----------------------------- MODULE CartTotals -----------------------------
(***************************************************************************)
(* The arithmetic of a cart: the denormalised totals (recalculate_cart in  *)
(* apps/cart/services.py), what a coupon takes off at the moment it is     *)
(* applied (_compute_discount in apps/coupon/services.py) and whether it   *)
(* may be applied at all (apps/coupon/validators.py).  Amounts are cents;  *)
(* a percentage is in hundredths of a percent, as its two-decimal column.  *)
(* The usage cap and is_active are shared state: module Coupon has them.   *)
(***************************************************************************)
EXTENDS Integers, Functions

CONSTANT None

(* Sum of quantity * price_snapshot over the cart's items. *)
Subtotal(lines) == SumFunction([p \in DOMAIN lines |-> lines[p].quantity * lines[p].price])

(* What the customer pays: discounts beyond the subtotal are forfeited.    *)
Payable(subtotal, discount) == IF discount > subtotal THEN 0 ELSE subtotal - discount

(* recalculate_cart: the three denormalised columns follow from the rows.  *)
Recalculated(cart) ==
  LET subtotal == Subtotal(cart.lines)
      discount == SumFunction(cart.coupons)
  IN  [cart EXCEPT !.subtotal = subtotal, !.discount = discount,
                   !.total = Payable(subtotal, discount)]

-----------------------------------------------------------------------------
(* quantize(0.01, ROUND_HALF_UP) of a non-negative n / d cents. *)
RoundHalfUp(n, d) == (2 * n + d) \div (2 * d)

PercentageDiscount(subtotal, value) == RoundHalfUp(subtotal * value, 10000)

(* At most what the coupons already on the cart leave of the subtotal. *)
FixedDiscount(subtotal, value, already) ==
  LET remaining == subtotal - already IN
  IF remaining <= 0 THEN 0 ELSE IF value < remaining THEN value ELSE remaining

(* The snapshot a CartCoupon row carries from now on. *)
Discount(coupon, cart) ==
  IF coupon.type = "PERCENTAGE"
    THEN PercentageDiscount(cart.subtotal, coupon.value)
    ELSE FixedDiscount(cart.subtotal, coupon.value, SumFunction(cart.coupons))

-----------------------------------------------------------------------------
(* Both ends of the validity window are optional, and inside it. *)
InWindow(coupon, now) ==
  /\ coupon.starts # None => now >= coupon.starts
  /\ coupon.ends # None => now <= coupon.ends

(* One key of the coupon's JSON constraints other than usage_limit, which  *)
(* is the LimitOf of module Coupon.  None stands for a value its handler   *)
(* cannot read: like a key without a handler, it refuses.                  *)
RuleHolds(key, value, subtotal, country) ==
  \/ key = "min_total" /\ value # None /\ subtotal >= value
  \/ key = "allowed_countries" /\ value # None /\ country # None /\ country \in value

(* CouponValidator.validate without its usage rule. *)
Valid(coupon, subtotal, country, now) ==
  /\ InWindow(coupon, now)
  /\ \A key \in DOMAIN coupon.rules :
       RuleHolds(key, coupon.rules[key], subtotal, country)
=============================================================================
