------------------------- MODULE CheckoutRefinement -------------------------
(***************************************************************************)
(* Checkout implements AtomicCheckout.  The abstract answer is what the    *)
(* client has received, so it changes when the request is done and not     *)
(* when the worker decides on it; an order's lines are those its request   *)
(* read, from the COMMIT on.                                               *)
(***************************************************************************)
EXTENDS Checkout

ReceivedAnswer == [r \in Requests |-> IF pc[r] = "done" THEN reply[r] ELSE Pending]
LinesSold == [r \in Requests |-> IF r \in orders THEN lines[r] ELSE NoLines]
ClosedCarts == {c \in Carts : cartStatus[c] = "CHECKED_OUT"}

Abstract == INSTANCE AtomicCheckout WITH
  answer <- ReceivedAnswer, ledger <- record, sold <- LinesSold, closed <- ClosedCarts

(* Every behaviour of the code's locks, sentinels, transactions, failures  *)
(* and expiries looks to the clients like a sequence of indivisible        *)
(* checkouts: an order appears whole or not at all, its answer names it,   *)
(* and a 4xx answer has changed nothing.                                   *)
ImplementsAtomicCheckout == Abstract!Spec
=============================================================================
