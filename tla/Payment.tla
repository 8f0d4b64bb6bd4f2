------------------------------ MODULE Payment ------------------------------
(***************************************************************************)
(* Payments: PaymentService (apps/payment/services.py) and the Celery      *)
(* tasks that drive it (apps/payment/tasks.py).  Every order has one       *)
(* payment.  Workers run authorize tasks taken from an at-least-once       *)
(* queue: a task is acknowledged when it ends (acks_late), so a worker     *)
(* that goes down gives it back, and the broker may hand it out again      *)
(* while a worker still has it.  A pool process that is killed alone is a  *)
(* task that ended in failure, and acknowledged.  Clerks call capture, void and refund directly.    *)
(* The gateway is asked outside any transaction, between a read of the     *)
(* payment and a guarded UPDATE of it.                                     *)
(***************************************************************************)
EXTENDS Naturals

CONSTANTS
  Orders,      \* orders placed by checkout, one payment each
  Workers,     \* Celery workers of the payments queue
  Clerks,      \* callers of capture_payment, void_payment, refund_payment
  Registered,  \* orders whose gateway is in the registry all workers load
  MaxRetries,  \* max_retries of the tasks
  MaxFaults,   \* bound: crashes, repeated deliveries, Postgres and broker failures
  None

ASSUME NoneAssumption == None \notin Orders

ASSUME PaymentAssumption ==
  Registered \subseteq Orders /\ MaxRetries \in Nat /\ MaxFaults \in Nat

VARIABLES
  payment,       \* Payment.status
  orderStatus,   \* Order.status
  queue,         \* copies of each order's task that wait, by retries so far
  pc, job,       \* what a worker or a clerk executes, and for which order
  approvals,     \* authorisations the gateway has granted
  givenUp,       \* orders with a task that ended in failure
  invoiceTasks,  \* generate_invoice tasks sent, by order
  unsent,        \* orders that had an on_commit hook lost
  faults

vars == <<payment, orderStatus, queue, pc, job, approvals, givenUp, invoiceTasks, unsent, faults>>
rows == <<payment, orderStatus>>

Actors == Workers \cup Clerks
Phases == {"idle", "check", "load", "gateway", "approved", "declined", "unsupported",
           "enqueue", "capture", "void", "refund", "captured", "uncaptured", "voided",
           "refunded"}
PaymentStates == {"REQUIRES_CONFIRMATION", "AUTHORIZED", "CAPTURED", "FAILED",
                  "CANCELLED", "REFUNDED"}
OrderStates == {"PENDING_PAYMENT", "PAID", "FAILED"}

Open(o) == payment[o] = "REQUIRES_CONFIRMATION"
NoJob == [order |-> None, tries |-> 0]

(* Checkout has committed every order and sent its task. *)
Init ==
  /\ payment = [o \in Orders |-> "REQUIRES_CONFIRMATION"]
  /\ orderStatus = [o \in Orders |-> "PENDING_PAYMENT"]
  /\ queue = [o \in Orders |-> [n \in 0..MaxRetries |-> IF n = 0 THEN 1 ELSE 0]]
  /\ pc = [a \in Actors |-> "idle"]
  /\ job = [a \in Actors |-> NoJob]
  /\ approvals = [o \in Orders |-> 0]
  /\ givenUp = {}
  /\ invoiceTasks = [o \in Orders |-> 0]
  /\ unsent = {}
  /\ faults = 0

-----------------------------------------------------------------------------
Goto(a, phase) == pc' = [pc EXCEPT ![a] = phase] /\ UNCHANGED job
Rest(a) == pc' = [pc EXCEPT ![a] = "idle"] /\ job' = [job EXCEPT ![a] = NoJob]

Send(o, tries) == queue' = [queue EXCEPT ![o][tries] = @ + 1]

(* A worker takes a task. *)
Deliver(w) ==
  /\ pc[w] = "idle"
  /\ \E o \in Orders, n \in 0..MaxRetries :
       /\ queue[o][n] > 0
       /\ queue' = [queue EXCEPT ![o][n] = @ - 1]
       /\ job' = [job EXCEPT ![w] = [order |-> o, tries |-> n]]
  /\ pc' = [pc EXCEPT ![w] = "check"]
  /\ UNCHANGED <<rows, approvals, givenUp, invoiceTasks, unsent, faults>>

(* The task's own idempotency check. *)
CheckStatus(w) ==
  /\ pc[w] = "check"
  /\ IF Open(job[w].order) THEN Goto(w, "load") ELSE Rest(w)
  /\ UNCHANGED <<rows, queue, approvals, givenUp, invoiceTasks, unsent, faults>>

(* authorize_payment reads the payment again and looks up the gateway. *)
Load(w) ==
  /\ pc[w] = "load"
  /\ \/ ~Open(job[w].order) /\ Rest(w)
     \/ Open(job[w].order) /\ job[w].order \in Registered /\ Goto(w, "gateway")
     \/ Open(job[w].order) /\ job[w].order \notin Registered /\ Goto(w, "unsupported")
  /\ UNCHANGED <<rows, queue, approvals, givenUp, invoiceTasks, unsent, faults>>

(* Mutation: result.success is not looked at. *)
AskGatewayUnchecked(w) ==
  /\ pc[w] = "gateway"
  /\ Goto(w, "approved")
  /\ \/ approvals' = [approvals EXCEPT ![job[w].order] = @ + 1]
     \/ UNCHANGED approvals
  /\ UNCHANGED <<rows, queue, givenUp, invoiceTasks, unsent, faults>>

(* The gateway answers. *)
AskGateway(w) ==
  /\ pc[w] = "gateway"
  /\ \/ /\ Goto(w, "approved")
        /\ approvals' = [approvals EXCEPT ![job[w].order] = @ + 1]
     \/ /\ Goto(w, "declined")
        /\ UNCHANGED approvals
  /\ UNCHANGED <<rows, queue, givenUp, invoiceTasks, unsent, faults>>

(* A call of the gateway that is cut short may have been granted. *)
MaybeGranted(w) ==
  \/ UNCHANGED approvals
  \/ /\ pc[w] = "gateway"
     /\ approvals' = [approvals EXCEPT ![job[w].order] = @ + 1]

(* Mutation: the task returns when the gateway times out. *)
TimeoutSwallowed(w) ==
  /\ pc[w] = "gateway"
  /\ MaybeGranted(w)
  /\ Rest(w)
  /\ UNCHANGED <<rows, queue, givenUp, invoiceTasks, unsent, faults>>

(* GatewayTimeout or GatewayUnavailable: the task is sent again,           *)
(* max_retries times.                                                      *)
GatewayTimesOut(w) ==
  LET o == job[w].order
      n == job[w].tries
  IN
  /\ pc[w] = "gateway"
  /\ MaybeGranted(w)
  /\ \/ n < MaxRetries /\ Send(o, n + 1) /\ UNCHANGED givenUp
     \/ n = MaxRetries /\ givenUp' = givenUp \cup {o} /\ UNCHANGED queue
  /\ Rest(w)
  /\ UNCHANGED <<rows, invoiceTasks, unsent, faults>>

(* UPDATE payment SET status = to WHERE status = from. *)
MovePayment(o, from, to) ==
  payment' = IF payment[o] = from THEN [payment EXCEPT ![o] = to] ELSE payment

(* UPDATE order SET status = to WHERE status = PENDING_PAYMENT. *)
SettleOrder(o, to) ==
  orderStatus' = IF orderStatus[o] = "PENDING_PAYMENT"
                   THEN [orderStatus EXCEPT ![o] = to]
                   ELSE orderStatus

(* Mutation: each row gets the other's status. *)
RecordApprovalSwapped(w) ==
  /\ pc[w] = "approved"
  /\ MovePayment(job[w].order, "REQUIRES_CONFIRMATION", "PAID")
  /\ SettleOrder(job[w].order, "AUTHORIZED")
  /\ Goto(w, "enqueue")
  /\ UNCHANGED <<queue, approvals, givenUp, invoiceTasks, unsent, faults>>

(* Both guarded UPDATEs in one transaction.  When the first matches no row *)
(* that is logged, and the second is sent all the same.                    *)
RecordApproval(w) ==
  /\ pc[w] = "approved"
  /\ MovePayment(job[w].order, "REQUIRES_CONFIRMATION", "AUTHORIZED")
  /\ SettleOrder(job[w].order, "PAID")
  /\ Goto(w, "enqueue")
  /\ UNCHANGED <<queue, approvals, givenUp, invoiceTasks, unsent, faults>>

(* The on_commit hook; then the task is acknowledged. *)
EnqueueInvoice(w) ==
  /\ pc[w] = "enqueue"
  /\ invoiceTasks' = [invoiceTasks EXCEPT ![job[w].order] = @ + 1]
  /\ Rest(w)
  /\ UNCHANGED <<rows, queue, approvals, givenUp, unsent, faults>>

(* Mutation: the order's UPDATE has no WHERE status. *)
RecordDeclineUnguarded(w) ==
  /\ pc[w] = "declined"
  /\ MovePayment(job[w].order, "REQUIRES_CONFIRMATION", "FAILED")
  /\ orderStatus' = [orderStatus EXCEPT ![job[w].order] = "FAILED"]
  /\ Rest(w)
  /\ UNCHANGED <<queue, approvals, givenUp, invoiceTasks, unsent, faults>>

RecordDecline(w) ==
  /\ pc[w] = "declined"
  /\ MovePayment(job[w].order, "REQUIRES_CONFIRMATION", "FAILED")
  /\ SettleOrder(job[w].order, "FAILED")
  /\ Rest(w)
  /\ UNCHANGED <<queue, approvals, givenUp, invoiceTasks, unsent, faults>>

(* UnsupportedGateway: the task fails the payment, its order stays open. *)
RecordUnsupported(w) ==
  /\ pc[w] = "unsupported"
  /\ MovePayment(job[w].order, "REQUIRES_CONFIRMATION", "FAILED")
  /\ Rest(w)
  /\ UNCHANGED <<orderStatus, queue, approvals, givenUp, invoiceTasks, unsent, faults>>

-----------------------------------------------------------------------------
(* capture_payment, void_payment, refund_payment *)

(* The status is read; any status but the right one ends the call. *)
Start(c) ==
  /\ pc[c] = "idle"
  /\ \E o \in Orders :
       /\ job' = [job EXCEPT ![c] = [order |-> o, tries |-> 0]]
       /\ \/ payment[o] = "AUTHORIZED" /\ pc' = [pc EXCEPT ![c] = "capture"]
          \/ payment[o] = "AUTHORIZED" /\ pc' = [pc EXCEPT ![c] = "void"]
          \/ payment[o] = "CAPTURED" /\ pc' = [pc EXCEPT ![c] = "refund"]
  /\ UNCHANGED <<rows, queue, approvals, givenUp, invoiceTasks, unsent, faults>>

(* The gateway's answer; a declined void or refund changes nothing. *)
AskClerksGateway(c) ==
  /\ \/ pc[c] = "capture" /\ (Goto(c, "captured") \/ Goto(c, "uncaptured"))
     \/ pc[c] = "void" /\ (Goto(c, "voided") \/ Rest(c))
     \/ pc[c] = "refund" /\ (Goto(c, "refunded") \/ Rest(c))
  /\ UNCHANGED <<rows, queue, approvals, givenUp, invoiceTasks, unsent, faults>>

(* Mutation: the UPDATEs name no source status. *)
RecordAnswerUnguarded(c) ==
  LET o == job[c].order IN
  /\ \/ pc[c] = "captured" /\ MovePayment(o, payment[o], "CAPTURED")
     \/ pc[c] = "uncaptured" /\ MovePayment(o, payment[o], "FAILED")
     \/ pc[c] = "voided" /\ MovePayment(o, payment[o], "CANCELLED")
     \/ pc[c] = "refunded" /\ MovePayment(o, payment[o], "REFUNDED")
  /\ Rest(c)
  /\ UNCHANGED <<orderStatus, queue, approvals, givenUp, invoiceTasks, unsent, faults>>

RecordAnswer(c) ==
  LET o == job[c].order IN
  /\ \/ pc[c] = "captured" /\ MovePayment(o, "AUTHORIZED", "CAPTURED")
     \/ pc[c] = "uncaptured" /\ MovePayment(o, "AUTHORIZED", "FAILED")
     \/ pc[c] = "voided" /\ MovePayment(o, "AUTHORIZED", "CANCELLED")
     \/ pc[c] = "refunded" /\ MovePayment(o, "CAPTURED", "REFUNDED")
  /\ Rest(c)
  /\ UNCHANGED <<orderStatus, queue, approvals, givenUp, invoiceTasks, unsent, faults>>

-----------------------------------------------------------------------------
(* The environment *)

Fault == faults < MaxFaults /\ faults' = faults + 1

(* The hook of a committed approval goes with the task that ran it. *)
LoseHook(w) ==
  unsent' = IF pc[w] = "enqueue" THEN unsent \cup {job[w].order} ELSE unsent

(* A run is cut short, and its transaction with it. *)
CutShort(w) ==
  /\ Fault
  /\ pc[w] # "idle"
  /\ MaybeGranted(w)
  /\ LoseHook(w)
  /\ Rest(w)
  /\ UNCHANGED <<rows, invoiceTasks>>

(* The whole worker goes down: the broker gives its task to another.       *)
Crash(w) ==
  /\ CutShort(w)
  /\ Send(job[w].order, job[w].tries)
  /\ UNCHANGED givenUp

(* The message is acknowledged, and nothing sent again: one process of the *)
(* worker's pool is killed (WorkerLostError: there is acks_late, but no    *)
(* task_reject_on_worker_lost), something raises that is no timeout, or    *)
(* the broker refuses the retry.                                           *)
TaskFails(w) ==
  /\ CutShort(w)
  /\ givenUp' = givenUp \cup {job[w].order}
  /\ UNCHANGED queue

(* The broker's visibility timeout: a second copy while the first is run. *)
Redeliver(w) ==
  /\ Fault
  /\ pc[w] # "idle"
  /\ Send(job[w].order, job[w].tries)
  /\ UNCHANGED <<rows, pc, job, approvals, givenUp, invoiceTasks, unsent>>

-----------------------------------------------------------------------------
WorkerStep(w) ==
  \/ Deliver(w) \/ CheckStatus(w) \/ Load(w) \/ AskGateway(w) \/ GatewayTimesOut(w)
  \/ RecordApproval(w) \/ EnqueueInvoice(w) \/ RecordDecline(w) \/ RecordUnsupported(w)

ClerkStep(c) == Start(c) \/ AskClerksGateway(c) \/ RecordAnswer(c)

Failure(w) == Crash(w) \/ Redeliver(w) \/ TaskFails(w)

Next ==
  \/ \E w \in Workers : WorkerStep(w) \/ Failure(w)
  \/ \E c \in Clerks : ClerkStep(c)

Spec == Init /\ [][Next]_vars

(* A running worker goes on; the gateway may time out for ever. *)
FairSpec == Spec /\ \A w \in Workers : WF_vars(WorkerStep(w))

-----------------------------------------------------------------------------
(* Properties *)

TypeOK ==
  /\ payment \in [Orders -> PaymentStates]
  /\ orderStatus \in [Orders -> OrderStates]
  /\ queue \in [Orders -> [0..MaxRetries -> Nat]]
  /\ pc \in [Actors -> Phases]
  /\ job \in [Actors -> [order : Orders \cup {None}, tries : 0..MaxRetries]]
  /\ approvals \in [Orders -> Nat]
  /\ givenUp \subseteq Orders
  /\ invoiceTasks \in [Orders -> Nat]
  /\ unsent \subseteq Orders
  /\ faults \in 0..MaxFaults

Ledger == INSTANCE PaymentLedger

(* However often a task is delivered and whatever the clerks race for, the *)
(* rows of a payment and its order move as in the ledger.                  *)
ImplementsLedger == Ledger!Spec

(* An order is PAID only when the gateway granted an authorisation, even   *)
(* when different deliveries get different answers.                        *)
PaidWasApproved == \A o \in Orders : orderStatus[o] = "PAID" => approvals[o] > 0

(* At-least-once delivery: a payment is settled unless one of its tasks    *)
(* has failed for good, its retries used up, its process killed or the     *)
(* error another one; timeouts, a worker that goes down and tasks handed   *)
(* out twice leave it to nobody.                                           *)
SettledOrGivenUp == \A o \in Orders : <>(~Open(o) \/ o \in givenUp)
=============================================================================
