----------------------------- MODULE MCCheckout -----------------------------
(***************************************************************************)
(* Instances of Checkout for TLC.  Two users: u1 owns cart c1 and address  *)
(* a1, u2 owns cart c2 and address a2 (a user has one ACTIVE cart, by the  *)
(* index uq_cart_one_active_per_tenant_user of apps/cart/models.py).       *)
(***************************************************************************)
EXTENDS CheckoutRefinement, TLC

CONSTANTS c1, c2, a1, a2, m1, m2, p1, p2, q1, q2, k1, k2, u1, u2, unknown

RequestSymmetry == Permutations(Requests)

Input(c, a, m, k) == [cart |-> c, address |-> a, method |-> m, key |-> k]

(* Two carts and two keys: a shared cart, a shared key, a shared payment   *)
(* method, and two carts that share nothing but their products.            *)
CrossInputs == {Input(c1, a1, m1, k1), Input(c2, a2, m1, k1), Input(c2, a2, m2, k2)}

(* Every id a client may get wrong, against one it gets right. *)
RefusedInputs ==
  {Input(c1, a1, m1, k1), Input(unknown, a1, m1, k1), Input(c1, a2, m1, k1),
   Input(c1, unknown, m1, k2), Input(c1, a1, unknown, k2)}

Owner == (c1 :> u1) @@ (c2 :> u2) @@ (a1 :> u1) @@ (a2 :> u2)

Fill(x, y) == (p1 :> x) @@ (p2 :> y)

AtomicInputs == RefusedInputs \cup {Input(c2, a2, m1, k1), Input(c1, a1, m1, k2)}

BothProducts == {Fill(1, 1)}
CrossFillings == {Fill(1, 1), Fill(2, 1)}
MaybeEmpty   == {Fill(0, 0), Fill(1, 0)}

OneOrNone   == {{}, {q1}}
OneCoupon   == {{q1}}
BothCoupons == {{q1, q2}}

TwoEach == Fill(2, 2)
OneEach == Fill(1, 1)
=============================================================================
