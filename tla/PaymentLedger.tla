--------------------------- MODULE PaymentLedger ---------------------------
(***************************************************************************)
(* What the payment service promises about the rows of a payment and its   *)
(* order, with no task, retry or gateway call in sight: the payment moves  *)
(* along its state machine (docs of apps/payment/models.py), and its order *)
(* is settled in the same step as the payment, once and for all.           *)
(***************************************************************************)
CONSTANT Orders

VARIABLES payment, orderStatus

vars == <<payment, orderStatus>>

Init ==
  /\ payment = [o \in Orders |-> "REQUIRES_CONFIRMATION"]
  /\ orderStatus = [o \in Orders |-> "PENDING_PAYMENT"]

Move(o, from, to) ==
  /\ payment[o] = from
  /\ payment' = [payment EXCEPT ![o] = to]

Settle(o, to, status) ==
  /\ orderStatus[o] = "PENDING_PAYMENT"
  /\ Move(o, "REQUIRES_CONFIRMATION", to)
  /\ orderStatus' = [orderStatus EXCEPT ![o] = status]

Authorize(o) == Settle(o, "AUTHORIZED", "PAID")
Decline(o) == Settle(o, "FAILED", "FAILED")

(* A payment nobody can process fails without its order hearing of it. *)
Refuse(o) == Move(o, "REQUIRES_CONFIRMATION", "FAILED") /\ UNCHANGED orderStatus

Capture(o) == Move(o, "AUTHORIZED", "CAPTURED") /\ UNCHANGED orderStatus
CaptureFails(o) == Move(o, "AUTHORIZED", "FAILED") /\ UNCHANGED orderStatus
Void(o) == Move(o, "AUTHORIZED", "CANCELLED") /\ UNCHANGED orderStatus
Refund(o) == Move(o, "CAPTURED", "REFUNDED") /\ UNCHANGED orderStatus

Next ==
  \E o \in Orders :
    Authorize(o) \/ Decline(o) \/ Refuse(o)
      \/ Capture(o) \/ CaptureFails(o) \/ Void(o) \/ Refund(o)

Spec == Init /\ [][Next]_vars
=============================================================================
