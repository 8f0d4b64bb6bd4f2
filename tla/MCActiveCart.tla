---------------------------- MODULE MCActiveCart ----------------------------
(***************************************************************************)
(* An instance of ActiveCart for TLC: two products of which one line is    *)
(* below the minimum of "tenth" and two are not; a percentage that has to  *)
(* be rounded; a voucher worth more than a cart, for one country only and  *)
(* for a while.                                                            *)
(***************************************************************************)
EXTENDS ActiveCart, TLC

CONSTANTS p1, p2, other, tenth, voucher, card, sa, acme, k1, k2

WorkerSymmetry == Permutations(Workers)

Rows ==
  (tenth :> [type |-> "PERCENTAGE", value |-> 1050, starts |-> None, ends |-> None,
             rules |-> [min_total |-> 70]]) @@
  (voucher :> [type |-> "FIXED", value |-> 90, starts |-> None, ends |-> 0,
               rules |-> [allowed_countries |-> {sa}]])

(* The first product gets dearer. *)
Dearer == [t \in 0..MaxTime |-> (p1 :> 45 + 15 * t) @@ (p2 :> 45)]

Request(kind, arg) == [kind |-> kind, arg |-> arg, quantity |-> 1, is_default |-> TRUE]

Requests ==
  {Request("read", None), Request("set_business_details", acme)}
    \cup {Request("add_product", p) : p \in {p1, other}}
    \cup {Request("remove_product", p2)}
    \cup {Request("add_coupon", c) : c \in {tenth, voucher}}
    \cup {Request("remove_coupon", tenth), Request("add_address", sa)}
    \cup {Request("add_payment_method", g) : g \in {card, other}}
    \cup {Request("checkout", k) : k \in Keys}

FirstRequests ==
  <<{Request("add_product", p1), Request("add_coupon", tenth), Request("checkout", k1)},
    {Request("add_address", sa)}>>
=============================================================================
