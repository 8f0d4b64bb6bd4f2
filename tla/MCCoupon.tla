------------------------------ MODULE MCCoupon ------------------------------
(***************************************************************************)
(* Instances of Coupon for TLC: u1 and u2 are percentage coupons with a    *)
(* cap, f1 is an uncapped fixed one.                                       *)
(***************************************************************************)
EXTENDS Coupon, TLC

CONSTANTS u1, u2, f1, k1, k2

Types == [c \in Coupons |-> IF c = f1 THEN "FIXED" ELSE "PERCENTAGE"]

CappedAtOne == [c \in Coupons |-> IF c = f1 THEN None ELSE 1]
CappedApart == [c \in Coupons |-> CASE c = u1 -> 1 [] c = u2 -> 2 [] OTHER -> None]
CappedAtTwo == [c \in Coupons |-> IF c = f1 THEN None ELSE 2]

(* Two coupons that exclude each other on k1, two that do not on k2, and   *)
(* one both carts want.                                                    *)
EachItsOwn == (k1 :> {u1, u2}) @@ (k2 :> {u1, f1})
Everything == [k \in Carts |-> Coupons]
=============================================================================
