--------------------------- MODULE PaymentProofs ---------------------------
(* Proofs about Payment and about its composition with Invoice, for any     *)
(* orders, workers, clerks, retries and failures.                           *)
EXTENDS Fulfilment, TLAPS

(* What an actor in a phase knows of the payment it works on. *)
JobsInv ==
  \A a \in Actors :
    /\ pc[a] # "idle" => job[a].order \in Orders
    /\ pc[a] \in {"gateway", "approved", "declined"} => job[a].order \in Registered
    /\ pc[a] = "unsupported" => job[a].order \notin Registered
    /\ pc[a] = "approved" => approvals[job[a].order] > 0

(* An order is settled together with its payment, but for one that has no  *)
(* gateway: such a payment fails alone.                                    *)
SettledTogether ==
  /\ \A o \in Orders : Open(o) => orderStatus[o] = "PENDING_PAYMENT"
  /\ \A o \in Registered : ~Open(o) => orderStatus[o] # "PENDING_PAYMENT"

IInv == TypeOK /\ JobsInv /\ SettledTogether /\ PaidWasApproved

-----------------------------------------------------------------------------
(* Steps that actions share. *)

LEMMA GotoType ==
  ASSUME TypeOK, NEW a \in Actors, NEW phase \in Phases, Goto(a, phase)
  PROVE  pc' \in [Actors -> Phases] /\ job' \in [Actors -> [order : Orders \cup {None}, tries : 0..MaxRetries]]
BY DEF TypeOK, Goto

LEMMA RestType ==
  ASSUME TypeOK, NEW a \in Actors, Rest(a)
  PROVE  pc' \in [Actors -> Phases] /\ job' \in [Actors -> [order : Orders \cup {None}, tries : 0..MaxRetries]]
<1>1. NoJob \in [order : Orders \cup {None}, tries : 0..MaxRetries]
  BY PaymentAssumption DEF NoJob
<1> QED BY <1>1 DEF TypeOK, Rest, Phases

LEMMA SendType ==
  ASSUME TypeOK, NEW o \in Orders, NEW n \in 0..MaxRetries, Send(o, n)
  PROVE  queue' \in [Orders -> [0..MaxRetries -> Nat]]
<1>0. queue \in [Orders -> [0..MaxRetries -> Nat]]
  BY DEF TypeOK
<1>a. queue[o] \in [0..MaxRetries -> Nat]
  BY <1>0
<1>1. queue[o][n] \in Nat
  BY <1>a
<1>2. [queue[o] EXCEPT ![n] = queue[o][n] + 1] \in [0..MaxRetries -> Nat]
  BY <1>a, <1>1
<1>3. queue' = [queue EXCEPT ![o] = [queue[o] EXCEPT ![n] = queue[o][n] + 1]]
  BY DEF Send
<1> QED BY <1>0, <1>2, <1>3

LEMMA GrantType ==
  ASSUME TypeOK, NEW o \in Orders, approvals' = [approvals EXCEPT ![o] = @ + 1]
  PROVE  /\ approvals' \in [Orders -> Nat]
         /\ approvals'[o] > 0
         /\ \A q \in Orders : approvals[q] > 0 => approvals'[q] > 0
<1>1. approvals \in [Orders -> Nat]
  BY DEF TypeOK
<1>2. approvals' \in [Orders -> Nat]
  BY <1>1
<1>3. approvals'[o] > 0
  BY <1>1
<1>4. ASSUME NEW q \in Orders, approvals[q] > 0 PROVE approvals'[q] > 0
  BY <1>1, <1>4
<1> QED BY <1>2, <1>3, <1>4

LEMMA MaybeGrantedType ==
  ASSUME TypeOK, NEW w \in Actors, job[w].order \in Orders, MaybeGranted(w)
  PROVE  /\ approvals' \in [Orders -> Nat]
         /\ \A q \in Orders : approvals[q] > 0 => approvals'[q] > 0
<1>1. CASE UNCHANGED approvals
  BY <1>1 DEF TypeOK
<1>2. CASE approvals' = [approvals EXCEPT ![job[w].order] = @ + 1]
  BY <1>2, GrantType
<1> QED BY <1>1, <1>2 DEF MaybeGranted

(* An actor that rests owes nothing. *)
LEMMA RestJobs ==
  ASSUME TypeOK, JobsInv, NEW a \in Actors, Rest(a),
         \A q \in Orders : approvals[q] > 0 => approvals'[q] > 0
  PROVE  JobsInv'
<1> SUFFICES ASSUME NEW b \in Actors
             PROVE  /\ pc'[b] # "idle" => job'[b].order \in Orders
                    /\ pc'[b] \in {"gateway", "approved", "declined"} => job'[b].order \in Registered
                    /\ pc'[b] = "unsupported" => job'[b].order \notin Registered
                    /\ pc'[b] = "approved" => approvals'[job'[b].order] > 0
  BY DEF JobsInv
<1>1. CASE b = a
  BY <1>1 DEF Rest, TypeOK
<1>2. CASE b # a
  <2>1. pc'[b] = pc[b] /\ job'[b] = job[b]
    BY <1>2 DEF Rest, TypeOK
  <2> QED BY <2>1 DEF JobsInv
<1> QED BY <1>1, <1>2

LEMMA GotoJobs ==
  ASSUME TypeOK, JobsInv, NEW a \in Actors, NEW phase \in Phases, Goto(a, phase),
         job[a].order \in Orders,
         \A q \in Orders : approvals[q] > 0 => approvals'[q] > 0,
         phase \in {"gateway", "approved", "declined"} => job[a].order \in Registered,
         phase = "unsupported" => job[a].order \notin Registered,
         phase = "approved" => approvals'[job[a].order] > 0
  PROVE  JobsInv'
<1> SUFFICES ASSUME NEW b \in Actors
             PROVE  /\ pc'[b] # "idle" => job'[b].order \in Orders
                    /\ pc'[b] \in {"gateway", "approved", "declined"} => job'[b].order \in Registered
                    /\ pc'[b] = "unsupported" => job'[b].order \notin Registered
                    /\ pc'[b] = "approved" => approvals'[job'[b].order] > 0
  BY DEF JobsInv
<1>0. job'[b] = job[b]
  BY DEF Goto
<1>1. CASE b = a
  <2>1. pc'[b] = phase
    BY <1>1 DEF Goto, TypeOK
  <2> QED BY <2>1, <1>0, <1>1
<1>2. CASE b # a
  <2>1. pc'[b] = pc[b]
    BY <1>2 DEF Goto, TypeOK
  <2> QED BY <2>1, <1>0 DEF JobsInv
<1> QED BY <1>1, <1>2

(* The two guarded UPDATEs. *)
LEMMA UpdateType ==
  ASSUME TypeOK, NEW o \in Orders, NEW from \in PaymentStates, NEW to \in PaymentStates,
         MovePayment(o, from, to)
  PROVE  payment' \in [Orders -> PaymentStates]
BY DEF TypeOK, MovePayment

LEMMA SettleType ==
  ASSUME TypeOK, NEW o \in Orders, NEW to \in OrderStates, SettleOrder(o, to)
  PROVE  orderStatus' \in [Orders -> OrderStates]
BY DEF TypeOK, SettleOrder

-----------------------------------------------------------------------------
LEMMA InitIInv == Init => IInv
<1> SUFFICES ASSUME Init PROVE IInv
  OBVIOUS
<1> USE PaymentAssumption, NoneAssumption DEF Init
<1>1. payment \in [Orders -> PaymentStates] /\ orderStatus \in [Orders -> OrderStates]
  BY DEF PaymentStates, OrderStates
<1>2. queue \in [Orders -> [0..MaxRetries -> Nat]]
  OBVIOUS
<1>3. pc \in [Actors -> Phases]
  BY DEF Phases
<1>4. job \in [Actors -> [order : Orders \cup {None}, tries : 0..MaxRetries]]
  <2>1. NoJob \in [order : Orders \cup {None}, tries : 0..MaxRetries]
    BY DEF NoJob
  <2> QED BY <2>1
<1>5. TypeOK
  BY <1>1, <1>2, <1>3, <1>4 DEF TypeOK
<1>6. JobsInv
  BY DEF JobsInv
<1>7. SettledTogether /\ PaidWasApproved
  BY DEF SettledTogether, PaidWasApproved, Open
<1> QED BY <1>5, <1>6, <1>7 DEF IInv

-----------------------------------------------------------------------------
(* Types. *)
LEMMA TypeStep ==
  ASSUME IInv, [Next]_vars
  PROVE  TypeOK'
<1> USE DEF IInv
<1>1. ASSUME NEW w \in Workers, Deliver(w) PROVE TypeOK'
  <2> w \in Actors
    BY DEF Actors
  <2>1. PICK o \in Orders, n \in 0..MaxRetries :
          /\ queue[o][n] > 0
          /\ queue' = [queue EXCEPT ![o][n] = @ - 1]
          /\ job' = [job EXCEPT ![w] = [order |-> o, tries |-> n]]
    BY <1>1 DEF Deliver
  <2>2. queue \in [Orders -> [0..MaxRetries -> Nat]]
    BY DEF TypeOK
  <2>3. queue[o] \in [0..MaxRetries -> Nat]
    BY <2>2
  <2>4. queue[o][n] \in Nat
    BY <2>3
  <2>5. queue[o][n] - 1 \in Nat
    BY <2>1, <2>4
  <2>6. [queue[o] EXCEPT ![n] = queue[o][n] - 1] \in [0..MaxRetries -> Nat]
    BY <2>3, <2>5
  <2>7. queue' \in [Orders -> [0..MaxRetries -> Nat]]
    BY <2>1, <2>2, <2>6
  <2>8. job' \in [Actors -> [order : Orders \cup {None}, tries : 0..MaxRetries]]
    BY <2>1 DEF TypeOK
  <2>9. pc' \in [Actors -> Phases]
    BY <1>1 DEF TypeOK, Deliver, Phases
  <2> QED BY <1>1, <2>7, <2>8, <2>9 DEF TypeOK, Deliver, rows
<1>2. ASSUME NEW w \in Workers, CheckStatus(w) \/ Load(w) PROVE TypeOK'
  <2>1. w \in Actors /\ {"load", "gateway", "unsupported"} \subseteq Phases
    BY DEF Actors, Phases
  <2>2. Rest(w) \/ \E phase \in Phases : Goto(w, phase)
    BY <1>2, <2>1 DEF CheckStatus, Load
  <2> QED BY <1>2, <2>1, <2>2, GotoType, RestType DEF TypeOK, CheckStatus, Load, rows
<1>3. ASSUME NEW w \in Workers, AskGateway(w) PROVE TypeOK'
  <2>1. w \in Actors /\ {"approved", "declined"} \subseteq Phases
    BY DEF Actors, Phases
  <2>2. \E phase \in Phases : Goto(w, phase)
    BY <1>3, <2>1 DEF AskGateway
  <2>3. job[w].order \in Orders
    BY <1>3, <2>1 DEF JobsInv, AskGateway
  <2>4. approvals' \in [Orders -> Nat]
    BY <1>3, <2>3, GrantType DEF AskGateway, TypeOK
  <2> QED BY <1>3, <2>1, <2>2, <2>4, GotoType DEF TypeOK, AskGateway, rows
<1>4. ASSUME NEW w \in Workers, GatewayTimesOut(w) PROVE TypeOK'
  <2>1. w \in Actors
    BY DEF Actors
  <2>2. job[w].order \in Orders /\ job[w].tries \in 0..MaxRetries
    BY <1>4, <2>1 DEF JobsInv, GatewayTimesOut, TypeOK
  <2>3. approvals' \in [Orders -> Nat]
    BY <1>4, <2>1, <2>2, MaybeGrantedType DEF GatewayTimesOut
  <2>4. job[w].tries < MaxRetries => job[w].tries + 1 \in 0..MaxRetries
    BY <2>2, PaymentAssumption
  <2>5. queue' \in [Orders -> [0..MaxRetries -> Nat]]
    BY <1>4, <2>2, <2>4, SendType DEF GatewayTimesOut, TypeOK
  <2>6. givenUp' \subseteq Orders
    BY <1>4, <2>2 DEF GatewayTimesOut, TypeOK
  <2> QED BY <1>4, <2>1, <2>3, <2>5, <2>6, RestType DEF TypeOK, GatewayTimesOut, rows
<1>5. ASSUME NEW w \in Workers, RecordApproval(w) PROVE TypeOK'
  <2>1. w \in Actors /\ "enqueue" \in Phases
    BY DEF Actors, Phases
  <2>2. job[w].order \in Orders
    BY <1>5, <2>1 DEF JobsInv, RecordApproval
  <2>3. payment' \in [Orders -> PaymentStates]
    BY <1>5, <2>2, UpdateType DEF RecordApproval, PaymentStates
  <2>4. orderStatus' \in [Orders -> OrderStates]
    BY <1>5, <2>2, SettleType DEF RecordApproval, OrderStates
  <2> QED BY <1>5, <2>1, <2>3, <2>4, GotoType DEF TypeOK, RecordApproval
<1>6. ASSUME NEW w \in Workers, EnqueueInvoice(w) PROVE TypeOK'
  <2>1. w \in Actors
    BY DEF Actors
  <2>2. job[w].order \in Orders
    BY <1>6, <2>1 DEF JobsInv, EnqueueInvoice
  <2>3. invoiceTasks' \in [Orders -> Nat]
    BY <1>6, <2>2 DEF EnqueueInvoice, TypeOK
  <2> QED BY <1>6, <2>1, <2>3, RestType DEF TypeOK, EnqueueInvoice, rows
<1>7. ASSUME NEW w \in Workers, RecordDecline(w) \/ RecordUnsupported(w) PROVE TypeOK'
  <2>1. w \in Actors
    BY DEF Actors
  <2>2. job[w].order \in Orders
    BY <1>7, <2>1 DEF JobsInv, RecordDecline, RecordUnsupported
  <2>3. payment' \in [Orders -> PaymentStates]
    BY <1>7, <2>2, UpdateType DEF RecordDecline, RecordUnsupported, PaymentStates
  <2>4. orderStatus' \in [Orders -> OrderStates]
    BY <1>7, <2>2, SettleType DEF RecordDecline, RecordUnsupported, OrderStates, TypeOK
  <2> QED BY <1>7, <2>1, <2>3, <2>4, RestType DEF TypeOK, RecordDecline, RecordUnsupported
<1>8. ASSUME NEW c \in Clerks, Start(c) PROVE TypeOK'
  <2>1. c \in Actors
    BY DEF Actors
  <2>2. PICK o \in Orders :
          /\ job' = [job EXCEPT ![c] = [order |-> o, tries |-> 0]]
          /\ \E phase \in {"capture", "void", "refund"} : pc' = [pc EXCEPT ![c] = phase]
    BY <1>8 DEF Start
  <2>3. pc' \in [Actors -> Phases]
    BY <2>2 DEF TypeOK, Phases
  <2>4. [order |-> o, tries |-> 0] \in [order : Orders \cup {None}, tries : 0..MaxRetries]
    BY PaymentAssumption
  <2>5. job' \in [Actors -> [order : Orders \cup {None}, tries : 0..MaxRetries]]
    BY <2>2, <2>4 DEF TypeOK
  <2> QED BY <1>8, <2>3, <2>5 DEF TypeOK, Start, rows
<1>9. ASSUME NEW c \in Clerks, AskClerksGateway(c) PROVE TypeOK'
  <2>1. c \in Actors /\ {"captured", "uncaptured", "voided", "refunded"} \subseteq Phases
    BY DEF Actors, Phases
  <2>2. Rest(c) \/ \E phase \in Phases : Goto(c, phase)
    BY <1>9, <2>1 DEF AskClerksGateway
  <2> QED BY <1>9, <2>1, <2>2, GotoType, RestType DEF TypeOK, AskClerksGateway, rows
<1>10. ASSUME NEW c \in Clerks, RecordAnswer(c) PROVE TypeOK'
  <2>1. c \in Actors
    BY DEF Actors
  <2>2. job[c].order \in Orders
    BY <1>10, <2>1 DEF JobsInv, RecordAnswer
  <2>3. payment' \in [Orders -> PaymentStates]
    BY <1>10, <2>2, UpdateType DEF RecordAnswer, PaymentStates
  <2> QED BY <1>10, <2>1, <2>3, RestType DEF TypeOK, RecordAnswer
<1>11. ASSUME NEW w \in Workers, Failure(w) PROVE TypeOK'
  <2>1. w \in Actors
    BY DEF Actors
  <2>2. job[w].order \in Orders /\ job[w].tries \in 0..MaxRetries
    BY <1>11, <2>1 DEF JobsInv, Failure, Crash, TaskFails, Redeliver, CutShort, TypeOK
  <2>3. queue' \in [Orders -> [0..MaxRetries -> Nat]]
    BY <1>11, <2>2, SendType DEF Failure, Crash, TaskFails, Redeliver, TypeOK
  <2>4. faults' \in 0..MaxFaults
    BY <1>11, PaymentAssumption DEF Failure, Crash, TaskFails, Redeliver, CutShort, Fault, TypeOK
  <2>5. givenUp' \subseteq Orders
    BY <1>11, <2>2 DEF Failure, Crash, TaskFails, Redeliver, TypeOK
  <2>6. CASE CutShort(w)
    <3>1. approvals' \in [Orders -> Nat]
      BY <2>1, <2>2, <2>6, MaybeGrantedType DEF CutShort
    <3>2. unsent' \subseteq Orders
      BY <2>2, <2>6 DEF CutShort, LoseHook, TypeOK
    <3> QED BY <2>1, <2>3, <2>4, <2>5, <2>6, <3>1, <3>2, RestType DEF TypeOK, CutShort, rows
  <2>7. CASE Redeliver(w)
    BY <2>3, <2>4, <2>7 DEF TypeOK, Redeliver, rows
  <2> QED BY <1>11, <2>6, <2>7 DEF Failure, Crash, TaskFails
<1>12. CASE UNCHANGED vars
  BY <1>12 DEF TypeOK, vars
<1> QED
  BY <1>1, <1>2, <1>3, <1>4, <1>5, <1>6, <1>7, <1>8, <1>9, <1>10, <1>11, <1>12
     DEF Next, WorkerStep, ClerkStep

-----------------------------------------------------------------------------
(* What actors know of their payments stays true: nothing but their own    *)
(* steps writes job, Registered is constant, and approvals only grow.      *)
LEMMA JobsStep ==
  ASSUME IInv, [Next]_vars
  PROVE  JobsInv'
<1> USE DEF IInv
<1>1. ASSUME NEW w \in Workers, Deliver(w) PROVE JobsInv'
  <2>1. PICK o \in Orders, n \in 0..MaxRetries : job' = [job EXCEPT ![w] = [order |-> o, tries |-> n]]
    BY <1>1 DEF Deliver
  <2>2. pc' = [pc EXCEPT ![w] = "check"] /\ UNCHANGED approvals
    BY <1>1 DEF Deliver
  <2> SUFFICES ASSUME NEW b \in Actors
               PROVE  /\ pc'[b] # "idle" => job'[b].order \in Orders
                      /\ pc'[b] \in {"gateway", "approved", "declined"} => job'[b].order \in Registered
                      /\ pc'[b] = "unsupported" => job'[b].order \notin Registered
                      /\ pc'[b] = "approved" => approvals'[job'[b].order] > 0
    BY DEF JobsInv
  <2>3. CASE b = w
    BY <2>1, <2>2, <2>3 DEF TypeOK
  <2>4. CASE b # w
    <3>1. pc'[b] = pc[b] /\ job'[b] = job[b]
      BY <2>1, <2>2, <2>4 DEF TypeOK
    <3> QED BY <3>1, <2>2 DEF JobsInv
  <2> QED BY <2>3, <2>4
<1>2. ASSUME NEW w \in Workers, CheckStatus(w) \/ Load(w) PROVE JobsInv'
  <2>1. w \in Actors /\ {"load", "gateway", "unsupported"} \subseteq Phases
    BY DEF Actors, Phases
  <2>2. job[w].order \in Orders /\ UNCHANGED approvals
    BY <1>2, <2>1 DEF JobsInv, CheckStatus, Load
  <2>3. \/ Rest(w)
        \/ Goto(w, "load")
        \/ Goto(w, "gateway") /\ job[w].order \in Registered
        \/ Goto(w, "unsupported") /\ job[w].order \notin Registered
    BY <1>2 DEF CheckStatus, Load
  <2> QED BY <2>1, <2>2, <2>3, RestJobs, GotoJobs
<1>3. ASSUME NEW w \in Workers, AskGateway(w) PROVE JobsInv'
  <2>1. w \in Actors /\ {"approved", "declined"} \subseteq Phases
    BY DEF Actors, Phases
  <2>2. job[w].order \in Orders /\ job[w].order \in Registered
    BY <1>3, <2>1 DEF JobsInv, AskGateway
  <2>3. CASE /\ Goto(w, "approved")
             /\ approvals' = [approvals EXCEPT ![job[w].order] = @ + 1]
    <3>1. /\ approvals'[job[w].order] > 0
          /\ \A q \in Orders : approvals[q] > 0 => approvals'[q] > 0
      BY <2>2, <2>3, GrantType
    <3> QED BY <2>1, <2>2, <2>3, <3>1, GotoJobs
  <2>4. CASE Goto(w, "declined") /\ UNCHANGED approvals
    BY <2>1, <2>2, <2>4, GotoJobs
  <2> QED BY <1>3, <2>3, <2>4 DEF AskGateway
<1>4. ASSUME NEW w \in Workers, GatewayTimesOut(w) PROVE JobsInv'
  <2>1. w \in Actors /\ job[w].order \in Orders
    BY <1>4 DEF JobsInv, GatewayTimesOut, Actors
  <2>2. \A q \in Orders : approvals[q] > 0 => approvals'[q] > 0
    BY <1>4, <2>1, MaybeGrantedType DEF GatewayTimesOut
  <2> QED BY <1>4, <2>1, <2>2, RestJobs DEF GatewayTimesOut
<1>5. ASSUME NEW w \in Workers, RecordApproval(w) PROVE JobsInv'
  <2>1. w \in Actors /\ "enqueue" \in Phases
    BY DEF Actors, Phases
  <2>2. job[w].order \in Orders /\ UNCHANGED approvals /\ Goto(w, "enqueue")
    BY <1>5, <2>1 DEF JobsInv, RecordApproval
  <2> QED BY <2>1, <2>2, GotoJobs
<1>6. ASSUME NEW w \in Workers,
             EnqueueInvoice(w) \/ RecordDecline(w) \/ RecordUnsupported(w)
      PROVE  JobsInv'
  <2>1. w \in Actors
    BY DEF Actors
  <2>2. Rest(w) /\ UNCHANGED approvals
    BY <1>6 DEF EnqueueInvoice, RecordDecline, RecordUnsupported
  <2> QED BY <2>1, <2>2, RestJobs
<1>7. ASSUME NEW w \in Workers, Redeliver(w) PROVE JobsInv'
  BY <1>7 DEF Redeliver, JobsInv
<1>8. ASSUME NEW c \in Clerks, Start(c) PROVE JobsInv'
  <2>1. PICK o \in Orders :
          /\ job' = [job EXCEPT ![c] = [order |-> o, tries |-> 0]]
          /\ \E phase \in {"capture", "void", "refund"} : pc' = [pc EXCEPT ![c] = phase]
    BY <1>8 DEF Start
  <2>2. UNCHANGED approvals
    BY <1>8 DEF Start
  <2> SUFFICES ASSUME NEW b \in Actors
               PROVE  /\ pc'[b] # "idle" => job'[b].order \in Orders
                      /\ pc'[b] \in {"gateway", "approved", "declined"} => job'[b].order \in Registered
                      /\ pc'[b] = "unsupported" => job'[b].order \notin Registered
                      /\ pc'[b] = "approved" => approvals'[job'[b].order] > 0
    BY DEF JobsInv
  <2>3. CASE b = c
    BY <2>1, <2>2, <2>3 DEF TypeOK
  <2>4. CASE b # c
    <3>1. pc'[b] = pc[b] /\ job'[b] = job[b]
      BY <2>1, <2>4 DEF TypeOK
    <3> QED BY <3>1, <2>2 DEF JobsInv
  <2> QED BY <2>3, <2>4
<1>9. ASSUME NEW c \in Clerks, AskClerksGateway(c) PROVE JobsInv'
  <2>1. c \in Actors /\ {"captured", "uncaptured", "voided", "refunded"} \subseteq Phases
    BY DEF Actors, Phases
  <2>2. job[c].order \in Orders /\ UNCHANGED approvals
    BY <1>9, <2>1 DEF JobsInv, AskClerksGateway
  <2>3. Rest(c) \/ \E phase \in {"captured", "uncaptured", "voided", "refunded"} : Goto(c, phase)
    BY <1>9 DEF AskClerksGateway
  <2> QED BY <2>1, <2>2, <2>3, RestJobs, GotoJobs
<1>10. ASSUME NEW c \in Clerks, RecordAnswer(c) PROVE JobsInv'
  <2>1. c \in Actors /\ Rest(c) /\ UNCHANGED approvals
    BY <1>10 DEF Actors, RecordAnswer
  <2> QED BY <2>1, RestJobs
<1>11. ASSUME NEW w \in Workers, Crash(w) \/ TaskFails(w) PROVE JobsInv'
  <2>1. w \in Actors /\ CutShort(w)
    BY <1>11 DEF Actors, Crash, TaskFails
  <2>2. job[w].order \in Orders
    BY <2>1 DEF JobsInv, CutShort
  <2> QED BY <2>1, <2>2, MaybeGrantedType, RestJobs DEF CutShort
<1>12. CASE UNCHANGED vars
  BY <1>12 DEF JobsInv, vars
<1> QED
  BY <1>1, <1>2, <1>3, <1>4, <1>5, <1>6, <1>7, <1>8, <1>9, <1>10, <1>11, <1>12
     DEF Next, WorkerStep, ClerkStep, Failure

-----------------------------------------------------------------------------
(* The rows.  Four actions write them; the others only add approvals.      *)
LEMMA RowsWriters ==
  ASSUME IInv, [Next]_vars
  PROVE  \/ \E w \in Workers : RecordApproval(w) \/ RecordDecline(w) \/ RecordUnsupported(w)
         \/ \E c \in Clerks : RecordAnswer(c)
         \/ /\ UNCHANGED rows
            /\ \A q \in Orders : approvals[q] > 0 => approvals'[q] > 0
<1> USE DEF IInv
<1>1. ASSUME NEW w \in Workers, AskGateway(w) \/ GatewayTimesOut(w) \/ CutShort(w)
      PROVE  UNCHANGED rows /\ \A q \in Orders : approvals[q] > 0 => approvals'[q] > 0
  <2>1. w \in Actors /\ job[w].order \in Orders
    BY <1>1 DEF JobsInv, AskGateway, GatewayTimesOut, CutShort, Actors
  <2>2. \/ approvals' = [approvals EXCEPT ![job[w].order] = @ + 1]
        \/ UNCHANGED approvals
    BY <1>1 DEF AskGateway, GatewayTimesOut, CutShort, MaybeGranted
  <2>3. \A q \in Orders : approvals[q] > 0 => approvals'[q] > 0
    BY <2>1, <2>2, GrantType
  <2> QED BY <1>1, <2>3 DEF AskGateway, GatewayTimesOut, CutShort
<1>2. ASSUME NEW w \in Workers,
             \/ Deliver(w) \/ CheckStatus(w) \/ Load(w) \/ EnqueueInvoice(w) \/ Redeliver(w)
      PROVE  UNCHANGED rows /\ UNCHANGED approvals
  BY <1>2 DEF Deliver, CheckStatus, Load, EnqueueInvoice, Redeliver
<1>3. ASSUME NEW c \in Clerks, Start(c) \/ AskClerksGateway(c)
      PROVE  UNCHANGED rows /\ UNCHANGED approvals
  BY <1>3 DEF Start, AskClerksGateway
<1>4. CASE UNCHANGED vars
  BY <1>4 DEF vars, rows
<1> QED BY <1>1, <1>2, <1>3, <1>4 DEF Next, WorkerStep, ClerkStep, Failure, Crash, TaskFails

(* A recorded authorisation moves both rows or neither: the worker's own   *)
(* answer is what makes the order's PAID true.                             *)
LEMMA ApprovalRows ==
  ASSUME IInv, NEW w \in Workers, RecordApproval(w)
  PROVE  /\ SettledTogether' /\ PaidWasApproved'
         /\ UNCHANGED rows \/ \E o \in Orders : Ledger!Authorize(o)
<1> DEFINE o == job[w].order
<1>1. o \in Orders /\ o \in Registered /\ approvals[o] > 0 /\ UNCHANGED approvals
  BY PaymentAssumption DEF IInv, JobsInv, RecordApproval, Actors
<1>2. /\ payment \in [Orders -> PaymentStates] /\ orderStatus \in [Orders -> OrderStates]
      /\ SettledTogether /\ PaidWasApproved
  BY DEF IInv, TypeOK
<1>3. /\ MovePayment(o, "REQUIRES_CONFIRMATION", "AUTHORIZED")
      /\ SettleOrder(o, "PAID")
  BY DEF RecordApproval
<1> HIDE DEF o
<1>4. CASE Open(o)
  <2>1. orderStatus[o] = "PENDING_PAYMENT"
    BY <1>1, <1>2, <1>4 DEF SettledTogether
  <2>2. /\ payment' = [payment EXCEPT ![o] = "AUTHORIZED"]
        /\ orderStatus' = [orderStatus EXCEPT ![o] = "PAID"]
    BY <1>3, <1>4, <2>1 DEF MovePayment, SettleOrder, Open
  <2>3. Ledger!Authorize(o)
    BY <1>4, <2>1, <2>2 DEF Ledger!Authorize, Ledger!Settle, Ledger!Move, Open
  <2>4. SettledTogether' /\ PaidWasApproved'
    BY <1>1, <1>2, <2>2 DEF SettledTogether, PaidWasApproved, Open
  <2> QED BY <1>1, <2>3, <2>4
<1>5. CASE ~Open(o)
  <2>1. UNCHANGED rows
    BY <1>1, <1>2, <1>3, <1>5 DEF MovePayment, SettleOrder, Open, SettledTogether, rows
  <2> QED BY <1>1, <1>2, <2>1 DEF SettledTogether, PaidWasApproved, Open, rows
<1> QED BY <1>4, <1>5

LEMMA DeclineRows ==
  ASSUME IInv, NEW w \in Workers, RecordDecline(w)
  PROVE  /\ SettledTogether' /\ PaidWasApproved'
         /\ UNCHANGED rows \/ \E o \in Orders : Ledger!Decline(o)
<1> DEFINE o == job[w].order
<1>1. o \in Orders /\ o \in Registered /\ UNCHANGED approvals
  BY PaymentAssumption DEF IInv, JobsInv, RecordDecline, Actors
<1>2. /\ payment \in [Orders -> PaymentStates] /\ orderStatus \in [Orders -> OrderStates]
      /\ SettledTogether /\ PaidWasApproved
  BY DEF IInv, TypeOK
<1>3. /\ MovePayment(o, "REQUIRES_CONFIRMATION", "FAILED")
      /\ SettleOrder(o, "FAILED")
  BY DEF RecordDecline
<1> HIDE DEF o
<1>4. CASE Open(o)
  <2>1. orderStatus[o] = "PENDING_PAYMENT"
    BY <1>1, <1>2, <1>4 DEF SettledTogether
  <2>2. /\ payment' = [payment EXCEPT ![o] = "FAILED"]
        /\ orderStatus' = [orderStatus EXCEPT ![o] = "FAILED"]
    BY <1>3, <1>4, <2>1 DEF MovePayment, SettleOrder, Open
  <2>3. Ledger!Decline(o)
    BY <1>4, <2>1, <2>2 DEF Ledger!Decline, Ledger!Settle, Ledger!Move, Open
  <2>4. SettledTogether' /\ PaidWasApproved'
    BY <1>1, <1>2, <2>2 DEF SettledTogether, PaidWasApproved, Open
  <2> QED BY <1>1, <2>3, <2>4
<1>5. CASE ~Open(o)
  <2>1. UNCHANGED rows
    BY <1>1, <1>2, <1>3, <1>5 DEF MovePayment, SettleOrder, Open, SettledTogether, rows
  <2> QED BY <1>1, <1>2, <2>1 DEF SettledTogether, PaidWasApproved, Open, rows
<1> QED BY <1>4, <1>5

(* A payment nobody can process closes alone, and SettledTogether asks     *)
(* nothing of its order.                                                   *)
LEMMA UnsupportedRows ==
  ASSUME IInv, NEW w \in Workers, RecordUnsupported(w)
  PROVE  /\ SettledTogether' /\ PaidWasApproved'
         /\ UNCHANGED rows \/ \E o \in Orders : Ledger!Refuse(o)
<1> DEFINE o == job[w].order
<1>1. o \in Orders /\ o \notin Registered /\ UNCHANGED <<approvals, orderStatus>>
  BY DEF IInv, JobsInv, RecordUnsupported, Actors
<1>2. /\ payment \in [Orders -> PaymentStates] /\ orderStatus \in [Orders -> OrderStates]
      /\ SettledTogether /\ PaidWasApproved
  BY DEF IInv, TypeOK
<1>3. MovePayment(o, "REQUIRES_CONFIRMATION", "FAILED")
  BY DEF RecordUnsupported
<1> HIDE DEF o
<1>4. PaidWasApproved'
  BY <1>1, <1>2 DEF PaidWasApproved
<1>5. CASE Open(o)
  <2>1. payment' = [payment EXCEPT ![o] = "FAILED"]
    BY <1>3, <1>5 DEF MovePayment, Open
  <2>2. Ledger!Refuse(o)
    BY <1>1, <1>5, <2>1 DEF Ledger!Refuse, Ledger!Move, Open
  <2>3. SettledTogether'
    BY <1>1, <1>2, <2>1, PaymentAssumption DEF SettledTogether, Open
  <2> QED BY <1>1, <1>4, <2>2, <2>3
<1>6. CASE ~Open(o)
  <2>1. UNCHANGED rows
    BY <1>1, <1>3, <1>6 DEF MovePayment, Open, rows
  <2> QED BY <1>2, <1>4, <2>1 DEF SettledTogether, Open, rows
<1> QED BY <1>5, <1>6

(* What a clerk records moves a payment that was closed before.            *)
LEMMA AnswerRows ==
  ASSUME IInv, NEW c \in Clerks, RecordAnswer(c)
  PROVE  /\ SettledTogether' /\ PaidWasApproved'
         /\ \/ UNCHANGED rows
            \/ \E o \in Orders :
                 Ledger!Capture(o) \/ Ledger!CaptureFails(o) \/ Ledger!Void(o) \/ Ledger!Refund(o)
<1> DEFINE o == job[c].order
<1>1. o \in Orders /\ UNCHANGED <<approvals, orderStatus>>
  BY DEF IInv, JobsInv, RecordAnswer, Actors
<1>2. /\ payment \in [Orders -> PaymentStates] /\ orderStatus \in [Orders -> OrderStates]
      /\ SettledTogether /\ PaidWasApproved
  BY DEF IInv, TypeOK
<1>3. \/ MovePayment(o, "AUTHORIZED", "CAPTURED")
      \/ MovePayment(o, "AUTHORIZED", "FAILED")
      \/ MovePayment(o, "AUTHORIZED", "CANCELLED")
      \/ MovePayment(o, "CAPTURED", "REFUNDED")
  BY DEF RecordAnswer
<1> HIDE DEF o
<1>4. PaidWasApproved'
  BY <1>1, <1>2 DEF PaidWasApproved
<1>5. \A q \in Orders : Open(q)' <=> Open(q)
  BY <1>1, <1>2, <1>3 DEF MovePayment, Open
<1>6. SettledTogether'
  BY <1>1, <1>2, <1>5, PaymentAssumption DEF SettledTogether
<1>7. \/ UNCHANGED payment
      \/ Ledger!Capture(o) \/ Ledger!CaptureFails(o) \/ Ledger!Void(o) \/ Ledger!Refund(o)
  BY <1>1, <1>3
     DEF MovePayment, Ledger!Capture, Ledger!CaptureFails, Ledger!Void, Ledger!Refund, Ledger!Move
<1> QED BY <1>1, <1>4, <1>6, <1>7 DEF rows

LEMMA RowsStep ==
  ASSUME IInv, [Next]_vars
  PROVE  /\ SettledTogether' /\ PaidWasApproved'
         /\ [Ledger!Next]_(Ledger!vars)
<1>1. ASSUME NEW w \in Workers, RecordApproval(w) \/ RecordDecline(w) \/ RecordUnsupported(w)
      PROVE  SettledTogether' /\ PaidWasApproved' /\ [Ledger!Next]_(Ledger!vars)
  BY <1>1, ApprovalRows, DeclineRows, UnsupportedRows DEF Ledger!Next, Ledger!vars, rows
<1>2. ASSUME NEW c \in Clerks, RecordAnswer(c)
      PROVE  SettledTogether' /\ PaidWasApproved' /\ [Ledger!Next]_(Ledger!vars)
  BY <1>2, AnswerRows DEF Ledger!Next, Ledger!vars, rows
<1>3. ASSUME UNCHANGED rows, \A q \in Orders : approvals[q] > 0 => approvals'[q] > 0
      PROVE  SettledTogether' /\ PaidWasApproved' /\ [Ledger!Next]_(Ledger!vars)
  BY <1>3 DEF IInv, SettledTogether, PaidWasApproved, Open, rows, Ledger!vars
<1> QED BY <1>1, <1>2, <1>3, RowsWriters

LEMMA NextIInv == IInv /\ [Next]_vars => IInv'
BY TypeStep, JobsStep, RowsStep DEF IInv

LEMMA Inductive == Spec => []IInv
<1> QED BY InitIInv, NextIInv, PTL DEF Spec

-----------------------------------------------------------------------------
(* Every variable keeps its type, the queue its counts of copies.          *)
THEOREM TypeCorrect == Spec => []TypeOK
<1>1. IInv => TypeOK
  BY DEF IInv
<1> QED BY <1>1, Inductive, PTL

(* However often the authorize task of an order is delivered, with whatever *)
(* answers, the order is PAID only if the gateway granted an authorisation. *)
THEOREM PaidMeansApproved == Spec => []PaidWasApproved
<1>1. IInv => PaidWasApproved
  BY DEF IInv
<1> QED BY <1>1, Inductive, PTL

(* The guarded UPDATEs implement the ledger: a payment follows its state   *)
(* machine, and an order is settled once, in the same step as its payment. *)
(* With two UPDATEs of which the second does not look at what the first    *)
(* matched, this needs SettledTogether.                                    *)
THEOREM LedgerImplemented == Spec => ImplementsLedger
<1>1. Init => Ledger!Init
  BY DEF Init, Ledger!Init
<1>2. IInv /\ [Next]_vars => [Ledger!Next]_(Ledger!vars)
  BY RowsStep
<1> QED BY <1>1, <1>2, Inductive, PTL DEF Spec, ImplementsLedger, Ledger!Spec

-----------------------------------------------------------------------------
(* At-least-once delivery                                                  *)

Serving == {"check", "load", "gateway", "approved", "declined", "unsupported"}

Waiting(o) == \E n \in 0..MaxRetries : queue[o][n] > 0
Served(o) == \E w \in Workers : pc[w] \in Serving /\ job[w].order = o

(* Somebody will settle the payment, unless its task failed for good.      *)
Cared(o) == ~Open(o) \/ o \in givenUp \/ Waiting(o) \/ Served(o)

InHands == \A o \in Orders : Cared(o)

LEMMA SendWaits ==
  ASSUME TypeOK, NEW o \in Orders, NEW n \in 0..MaxRetries, Send(o, n)
  PROVE  Waiting(o)' /\ \A p \in Orders : Waiting(p) => Waiting(p)'
<1>1. queue \in [Orders -> [0..MaxRetries -> Nat]]
  BY DEF TypeOK
<1>2. queue[o] \in [0..MaxRetries -> Nat] /\ queue[o][n] \in Nat
  BY <1>1
<1>3. /\ queue'[o] = [queue[o] EXCEPT ![n] = queue[o][n] + 1]
      /\ \A p \in Orders \ {o} : queue'[p] = queue[p]
  BY <1>1 DEF Send
<1>4. /\ queue'[o][n] = queue[o][n] + 1
      /\ \A m \in 0..MaxRetries \ {n} : queue'[o][m] = queue[o][m]
  BY <1>2, <1>3
<1>5. \A m \in 0..MaxRetries : queue[o][m] > 0 => queue'[o][m] > 0
  BY <1>2, <1>4
<1>6. Waiting(o)'
  BY <1>2, <1>4 DEF Waiting
<1> QED BY <1>3, <1>5, <1>6 DEF Waiting

(* The actor a moves; what it had in hand is in somebody's hands again.    *)
LEMMA StepKeepsHands ==
  ASSUME InHands, NEW a \in Actors,
         \A b \in Actors \ {a} : pc'[b] = pc[b] /\ job'[b] = job[b],
         \A o \in Orders : Open(o)' => Open(o),
         givenUp \subseteq givenUp',
         \A o \in Orders : Waiting(o) => Cared(o)',
         \A o \in Orders : pc[a] \in Serving /\ job[a].order = o => Cared(o)'
  PROVE  InHands'
<1> SUFFICES ASSUME NEW o \in Orders PROVE Cared(o)'
  BY DEF InHands
<1>1. CASE ~Open(o) \/ o \in givenUp
  BY <1>1 DEF Cared
<1>2. CASE Waiting(o)
  BY <1>2
<1>3. CASE Served(o)
  <2>1. PICK w \in Workers : pc[w] \in Serving /\ job[w].order = o
    BY <1>3 DEF Served
  <2>2. CASE w = a
    BY <2>1, <2>2
  <2>3. CASE w # a
    BY <2>1, <2>3 DEF Cared, Served, Actors
  <2> QED BY <2>2, <2>3
<1> QED BY <1>1, <1>2, <1>3 DEF InHands, Cared

(* A payment that is not open never is again.                              *)
LEMMA NeverReopened ==
  ASSUME IInv, [Next]_vars, NEW o \in Orders, Open(o)'
  PROVE  Open(o)
<1>1. payment \in [Orders -> PaymentStates]
  BY DEF IInv, TypeOK
<1>2. ASSUME NEW w \in Workers, RecordApproval(w) \/ RecordDecline(w) \/ RecordUnsupported(w)
      PROVE  Open(o)
  BY <1>1, <1>2 DEF RecordApproval, RecordDecline, RecordUnsupported, MovePayment, Open
<1>3. ASSUME NEW c \in Clerks, RecordAnswer(c) PROVE Open(o)
  BY <1>1, <1>3 DEF RecordAnswer, MovePayment, Open
<1>4. CASE UNCHANGED rows
  BY <1>4 DEF rows, Open
<1> QED BY <1>2, <1>3, <1>4, RowsWriters

LEMMA TaskStepKeepsHands ==
  ASSUME IInv, InHands, [Next]_vars, NEW w \in Workers, WorkerStep(w) \/ Failure(w)
  PROVE  InHands'
<1>1. /\ TypeOK /\ w \in Actors
      /\ pc[w] # "idle" => job[w].order \in Orders
      /\ job[w].tries \in 0..MaxRetries
      /\ \A p \in Orders : Open(p)' => Open(p)
  BY NeverReopened DEF IInv, JobsInv, TypeOK, Actors
<1>2. /\ \A b \in Actors \ {w} : pc'[b] = pc[b] /\ job'[b] = job[b]
      /\ givenUp \subseteq givenUp'
  BY <1>1 DEF TypeOK, WorkerStep, Failure, Deliver, CheckStatus, Load, AskGateway, GatewayTimesOut,
     RecordApproval, EnqueueInvoice, RecordDecline, RecordUnsupported, Crash, Redeliver, TaskFails,
     CutShort, Goto, Rest
<1>3. ASSUME \A p \in Orders : Waiting(p) => Cared(p)',
             \A p \in Orders : pc[w] \in Serving /\ job[w].order = p => Cared(p)'
      PROVE  InHands'
  BY <1>1, <1>2, <1>3, StepKeepsHands
<1>4. ASSUME UNCHANGED queue,
             \A p \in Orders : pc[w] \in Serving /\ job[w].order = p => Cared(p)'
      PROVE  InHands'
  BY <1>3, <1>4 DEF Waiting, Cared
<1>5. CASE Deliver(w)
  <2>1. PICK q \in Orders, m \in 0..MaxRetries :
          /\ queue' = [queue EXCEPT ![q][m] = @ - 1]
          /\ job' = [job EXCEPT ![w] = [order |-> q, tries |-> m]]
    BY <1>5 DEF Deliver
  <2>2. Served(q)'
    BY <1>1, <1>5, <2>1 DEF Deliver, Served, Serving, TypeOK
  <2>3. \A p \in Orders \ {q} : queue'[p] = queue[p]
    BY <1>1, <2>1 DEF TypeOK
  <2>4. \A p \in Orders : Waiting(p) => Cared(p)'
    BY <2>2, <2>3 DEF Waiting, Cared
  <2> QED BY <1>3, <1>5, <2>4 DEF Deliver, Serving
<1>6. CASE pc[w] # "idle"
  <2>0. PICK o \in Orders, n \in 0..MaxRetries : job[w].order = o /\ job[w].tries = n
    BY <1>1, <1>6
  <2>1. ASSUME UNCHANGED queue, Cared(o)' PROVE InHands'
    BY <1>4, <2>0, <2>1
  <2>2. ASSUME NEW phase \in Serving, Goto(w, phase), UNCHANGED queue PROVE InHands'
    <3>1. Served(o)'
      BY <1>1, <2>0, <2>2 DEF Served, Goto, TypeOK
    <3> QED BY <2>1, <2>2, <3>1 DEF Cared
  <2>3. ASSUME NEW m \in 0..MaxRetries, Send(o, m) PROVE InHands'
    <3>1. Waiting(o)' /\ \A p \in Orders : Waiting(p) => Waiting(p)'
      BY <1>1, <2>3, SendWaits
    <3> QED BY <1>3, <2>0, <3>1 DEF Cared
  <2>4. ASSUME givenUp' = givenUp \cup {o}, UNCHANGED queue PROVE InHands'
    BY <2>1, <2>4 DEF Cared
  <2>5. CASE CheckStatus(w) \/ Load(w)
    <3>1. CASE Rest(w)
      <4>1. UNCHANGED <<payment, queue>> /\ ~Open(o)
        BY <1>1, <2>0, <2>5, <3>1 DEF CheckStatus, Load, Goto, Rest, rows, TypeOK
      <4> QED BY <2>1, <4>1 DEF Cared, Open
    <3> QED BY <2>2, <2>5, <3>1 DEF CheckStatus, Load, Serving
  <2>6. CASE AskGateway(w)
    BY <2>2, <2>6 DEF AskGateway, Serving
  <2>7. CASE GatewayTimesOut(w)
    BY <2>0, <2>3, <2>4, <2>7, PaymentAssumption DEF GatewayTimesOut
  <2>8. CASE RecordApproval(w) \/ RecordDecline(w) \/ RecordUnsupported(w)
    <3>1. payment \in [Orders -> PaymentStates] /\ UNCHANGED queue
      BY <1>1, <2>8 DEF TypeOK, RecordApproval, RecordDecline, RecordUnsupported
    <3>2. ~Open(o)'
      BY <2>0, <2>8, <3>1 DEF RecordApproval, RecordDecline, RecordUnsupported, MovePayment, Open
    <3> QED BY <2>1, <3>1, <3>2 DEF Cared
  <2>9. CASE EnqueueInvoice(w)
    BY <1>4, <2>9 DEF EnqueueInvoice, Serving
  <2>10. CASE Failure(w)
    BY <2>0, <2>3, <2>4, <2>10 DEF Failure, Crash, Redeliver, TaskFails
  <2> QED BY <1>5, <2>5, <2>6, <2>7, <2>8, <2>9, <2>10 DEF WorkerStep
<1>7. CASE pc[w] = "idle"
  BY <1>5, <1>7 DEF WorkerStep, CheckStatus, Load, AskGateway, GatewayTimesOut, RecordApproval,
     EnqueueInvoice, RecordDecline, RecordUnsupported, Failure, Crash, Redeliver, TaskFails,
     CutShort
<1> QED BY <1>6, <1>7

(* Only a failed task is lost: as long as a payment is open and none of    *)
(* its tasks has failed for good (retries used up, a pool process killed,  *)
(* another error than a timeout), a copy waits in the queue or a worker    *)
(* has it in hand, whatever worker goes down, times out or is handed the   *)
(* task twice.  This is the safety part of SettledOrGivenUp.               *)
THEOREM OnlyFailedTasksAreLost == Spec => []InHands
<1>1. Init => InHands
  <2> SUFFICES ASSUME Init, NEW o \in Orders PROVE Waiting(o)
    BY DEF InHands, Cared
  <2>1. 0 \in 0..MaxRetries /\ queue[o][0] = 1
    BY PaymentAssumption DEF Init
  <2> QED BY <2>1 DEF Waiting
<1>2. IInv /\ InHands /\ [Next]_vars => InHands'
  <2> SUFFICES ASSUME IInv, InHands, [Next]_vars PROVE InHands'
    OBVIOUS
  <2>1. ASSUME NEW c \in Clerks, ClerkStep(c), pc[c] \notin Serving PROVE InHands'
    <3>1. /\ c \in Actors
          /\ \A b \in Actors \ {c} : pc'[b] = pc[b] /\ job'[b] = job[b]
          /\ UNCHANGED <<queue, givenUp>>
      BY <2>1 DEF IInv, TypeOK, Actors, ClerkStep, Start, AskClerksGateway, RecordAnswer, Goto, Rest
    <3>2. \A o \in Orders : Waiting(o) => Cared(o)'
      BY <3>1 DEF Waiting, Cared
    <3> QED BY <2>1, <3>1, <3>2, NeverReopened, StepKeepsHands
  <2>2. ASSUME NEW c \in Clerks, ClerkStep(c) PROVE pc[c] \notin Serving
    BY <2>2 DEF ClerkStep, Start, AskClerksGateway, RecordAnswer, Serving
  <2>3. CASE UNCHANGED vars
    BY <2>3 DEF vars, rows, InHands, Cared, Open, Waiting, Served
  <2> QED BY <2>1, <2>2, <2>3, TaskStepKeepsHands DEF Next
<1> QED BY <1>1, <1>2, Inductive, PTL DEF Spec

-----------------------------------------------------------------------------
(***************************************************************************)
(* The pipeline of Fulfilment: in it the payment service keeps what it     *)
(* keeps alone, and what it never takes back is all the invoice service    *)
(* relies on.                                                              *)
(***************************************************************************)

(* The pipeline restricts the payment service, it adds nothing to it.      *)
LEMMA PaymentAlone == FulfilmentSpec => Spec
<1>1. FulfilmentInit => Init
  BY DEF FulfilmentInit
<1>2. [FulfilmentNext]_allVars => [Next]_vars
  BY DEF FulfilmentNext, PaymentStep, InvoiceStep, allVars
<1> QED BY <1>1, <1>2, PTL DEF FulfilmentSpec, Spec

(* PAID is final: the only UPDATEs of an order ask for PENDING_PAYMENT.    *)
LEMMA PaidIsFinal ==
  ASSUME IInv, [Next]_vars, NEW o \in Orders, orderStatus[o] = "PAID"
  PROVE  orderStatus'[o] = "PAID"
<1>1. orderStatus \in [Orders -> OrderStates]
  BY DEF IInv, TypeOK
<1>2. ASSUME NEW w \in Workers, RecordApproval(w) \/ RecordDecline(w) \/ RecordUnsupported(w)
      PROVE  orderStatus'[o] = "PAID"
  BY <1>1, <1>2 DEF RecordApproval, RecordDecline, RecordUnsupported, SettleOrder
<1>3. ASSUME NEW c \in Clerks, RecordAnswer(c) PROVE orderStatus'[o] = "PAID"
  BY <1>3 DEF RecordAnswer
<1>4. CASE UNCHANGED rows
  BY <1>4 DEF rows
<1> QED BY <1>2, <1>3, <1>4, RowsWriters

-----------------------------------------------------------------------------
Uninvoiced == {"lock_order", "lock_sequence", "insert"}

(* A worker that has seen PAID may insert the invoice much later, and many *)
(* payment steps later: its order is still PAID.                           *)
InvoiceInv ==
  /\ invoicePc = [w \in InvoiceWorkers |-> invoicePc[w]]
  /\ invoiceJob = [w \in InvoiceWorkers |-> invoiceJob[w]]
  /\ number = [o \in Orders |-> number[o]]
  /\ \A w \in InvoiceWorkers :
       /\ invoicePc[w] # "idle" => invoiceJob[w].order \in Orders
       /\ invoicePc[w] \in Uninvoiced => orderStatus[invoiceJob[w].order] = "PAID"
  /\ InvoicedStaysPaid

LEMMA InitInvoiceInv == FulfilmentInit => InvoiceInv
<1> SUFFICES ASSUME I!Init PROVE InvoiceInv
  BY DEF FulfilmentInit
<1> QED BY DEF I!Init, InvoiceInv, InvoicedStaysPaid, Uninvoiced

(* A payment step leaves everything of the invoice service but its queue.  *)
LEMMA PaymentStepKeeps == IInv /\ InvoiceInv /\ PaymentStep => InvoiceInv'
<1> SUFFICES ASSUME IInv, InvoiceInv, PaymentStep PROVE InvoiceInv'
  OBVIOUS
<1>1. \A o \in Orders : orderStatus[o] = "PAID" => orderStatus'[o] = "PAID"
  BY PaidIsFinal DEF PaymentStep
<1>2. UNCHANGED <<invoicePc, invoiceJob, number>>
  BY DEF PaymentStep
<1> QED BY <1>1, <1>2 DEF InvoiceInv, InvoicedStaysPaid, Uninvoiced

(* What an invoice step does to the worker, and to the numbers.            *)
LEMMA InvoiceMoves ==
  ASSUME InvoiceInv, NEW w \in InvoiceWorkers, I!Step(w) \/ I!Failure(w)
  PROVE  /\ \A v \in InvoiceWorkers \ {w} :
              invoicePc'[v] = invoicePc[v] /\ invoiceJob'[v] = invoiceJob[v]
         /\ invoicePc' = [v \in InvoiceWorkers |-> invoicePc'[v]]
         /\ invoiceJob' = [v \in InvoiceWorkers |-> invoiceJob'[v]]
         /\ invoicePc'[w] # "idle" => invoiceJob'[w].order \in Orders
         /\ invoicePc'[w] \in Uninvoiced =>
              orderStatus[invoiceJob'[w].order] = "PAID"
<1> USE DEF InvoiceInv, I!Goto, I!Rest
<1>1. CASE I!Deliver(w)
  <2>1. /\ invoicePc' = [invoicePc EXCEPT ![w] = "load"]
        /\ \E o \in Orders, n \in 0..MaxInvoiceRetries :
             invoiceJob' = [invoiceJob EXCEPT ![w] = [order |-> o, tries |-> n]]
    BY <1>1 DEF I!Deliver
  <2>2. PICK o \in Orders, n \in 0..MaxInvoiceRetries :
          invoiceJob' = [invoiceJob EXCEPT ![w] = [order |-> o, tries |-> n]]
    BY <2>1
  <2>3. invoiceJob'[w].order = o /\ invoicePc'[w] = "load"
    BY <2>1, <2>2
  <2> QED BY <2>1, <2>2, <2>3 DEF Uninvoiced
<1>2. CASE I!LoadOrder(w) \/ I!Find(w)
  BY <1>2 DEF I!LoadOrder, I!Find, Uninvoiced
<1>3. CASE I!CheckPaid(w)
  BY <1>3 DEF I!CheckPaid, I!Retry, Uninvoiced
<1>4. CASE I!LockOrder(w) \/ I!LockSequence(w)
  BY <1>4 DEF I!LockOrder, I!LockSequence, Uninvoiced
<1>5. CASE I!Insert(w)
  BY <1>5 DEF I!Insert, Uninvoiced
<1>6. CASE I!FindAgain(w)
  BY <1>6 DEF I!FindAgain, I!Retry, Uninvoiced
<1>7. CASE I!Render(w) \/ I!StoreUrl(w)
  BY <1>7 DEF I!Render, I!StoreUrl, Uninvoiced
<1>8. CASE I!Failure(w)
  BY <1>8 DEF I!Failure, I!StepFails, I!Crash, I!TaskFails, I!CutShort, I!Redeliver, I!Retry,
       I!book, Uninvoiced
<1> QED BY <1>1, <1>2, <1>3, <1>4, <1>5, <1>6, <1>7, <1>8 DEF I!Step

(* A number is given to an order by the one statement that inserts it.     *)
LEMMA NumbersGiven ==
  ASSUME InvoiceInv, NEW w \in InvoiceWorkers, I!Step(w) \/ I!Failure(w)
  PROVE  \/ UNCHANGED number
         \/ /\ invoicePc[w] = "insert"
            /\ \E n : number' = [number EXCEPT ![invoiceJob[w].order] = n]
<1>1. CASE I!Insert(w)
  BY <1>1 DEF I!Insert
<1>2. CASE ~I!Insert(w)
  BY <1>2 DEF I!Step, I!Failure, I!Deliver, I!LoadOrder, I!Find, I!CheckPaid, I!LockOrder,
       I!LockSequence, I!FindAgain, I!Render, I!StoreUrl, I!StepFails, I!Crash, I!TaskFails,
       I!CutShort, I!Redeliver, I!book
<1> QED BY <1>1, <1>2

LEMMA InvoiceStepKeeps == InvoiceInv /\ InvoiceStep => InvoiceInv'
<1> SUFFICES ASSUME InvoiceInv, UNCHANGED vars,
                    NEW w \in InvoiceWorkers, I!Step(w) \/ I!Failure(w)
             PROVE  InvoiceInv'
  BY DEF InvoiceStep
<1>1. UNCHANGED orderStatus
  BY DEF vars
<1>2. InvoicedStaysPaid' /\ number' = [o \in Orders |-> number'[o]]
  <2>1. CASE UNCHANGED number
    BY <1>1, <2>1 DEF InvoiceInv, InvoicedStaysPaid
  <2>2. ASSUME invoicePc[w] = "insert",
               NEW n, number' = [number EXCEPT ![invoiceJob[w].order] = n]
        PROVE  InvoicedStaysPaid' /\ number' = [o \in Orders |-> number'[o]]
    BY <1>1, <2>2 DEF InvoiceInv, InvoicedStaysPaid, Uninvoiced
  <2> QED BY <2>1, <2>2, NumbersGiven
<1>3. \A v \in InvoiceWorkers :
        /\ invoicePc'[v] # "idle" => invoiceJob'[v].order \in Orders
        /\ invoicePc'[v] \in Uninvoiced => orderStatus'[invoiceJob'[v].order] = "PAID"
  BY <1>1, InvoiceMoves DEF InvoiceInv
<1> QED BY <1>2, <1>3, InvoiceMoves DEF InvoiceInv

LEMMA InvoiceInvHolds == FulfilmentSpec => []InvoiceInv
<1>1. IInv /\ InvoiceInv /\ [FulfilmentNext]_allVars => InvoiceInv'
  <2>1. InvoiceInv /\ UNCHANGED allVars => InvoiceInv'
    BY DEF allVars, vars, I!vars, I!book, InvoiceInv, InvoicedStaysPaid
  <2> QED BY <2>1, PaymentStepKeeps, InvoiceStepKeeps DEF FulfilmentNext
<1> QED BY <1>1, InitInvoiceInv, PaymentAlone, Inductive, PTL DEF FulfilmentSpec

-----------------------------------------------------------------------------
(* Two services share the order's status without a common lock; still no   *)
(* invoice is ever left with an order that is not PAID.                    *)
THEOREM NeverInvoicedUnpaid == FulfilmentSpec => []InvoicedStaysPaid
<1>1. InvoiceInv => InvoicedStaysPaid
  BY DEF InvoiceInv
<1> QED BY <1>1, InvoiceInvHolds, PTL

(* Payments keep to their ledger while invoices are made.                  *)
THEOREM LedgerInThePipeline == FulfilmentSpec => ImplementsLedger
BY PaymentAlone, LedgerImplemented, PTL
-----------------------------------------------------------------------------
(* At-least-once delivery, across both queues                              *)

Queued(o) == \E n \in 0..MaxInvoiceRetries : waiting[o][n] > 0
InWork(o) == \E w \in InvoiceWorkers : invoicePc[w] # "idle" /\ invoiceJob[w].order = o
Followed(o) == o \in pdfUrl \cup invoiceFailed \/ Queued(o) \/ InWork(o)

SentInHands == \A o \in Orders : invoiceTasks[o] > 0 => Followed(o)

QueueInv ==
  /\ waiting \in [Orders -> [0..MaxInvoiceRetries -> Nat]]
  /\ \A w \in InvoiceWorkers :
       invoicePc[w] # "idle" => invoiceJob[w].tries \in 0..MaxInvoiceRetries

(* A payment step sends one invoice task or none.                          *)
LEMMA TasksSent ==
  ASSUME IInv, [Next]_vars, NEW o \in Orders
  PROVE  invoiceTasks'[o] \in {invoiceTasks[o], invoiceTasks[o] + 1}
<1>1. invoiceTasks \in [Orders -> Nat]
  BY DEF IInv, TypeOK
<1>2. ASSUME NEW w \in Workers, EnqueueInvoice(w)
      PROVE  invoiceTasks'[o] \in {invoiceTasks[o], invoiceTasks[o] + 1}
  BY <1>1, <1>2 DEF EnqueueInvoice
<1>3. CASE UNCHANGED invoiceTasks
  BY <1>3
<1> QED BY <1>2, <1>3 DEF Next, WorkerStep, Failure, Deliver, CheckStatus, Load, AskGateway,
   GatewayTimesOut, RecordApproval, RecordDecline, RecordUnsupported, Crash, Redeliver, TaskFails,
   CutShort, ClerkStep, Start, AskClerksGateway, RecordAnswer, vars

LEMMA PaymentStepFollowed ==
  ASSUME IInv, QueueInv, SentInHands, PaymentStep
  PROVE  QueueInv' /\ SentInHands'
<1>1. ASSUME NEW o \in Orders
      PROVE  /\ waiting'[o] \in [0..MaxInvoiceRetries -> Nat]
             /\ Queued(o) => Queued(o)'
             /\ invoiceTasks'[o] # invoiceTasks[o] => Queued(o)'
  <2> DEFINE sent == invoiceTasks'[o] - invoiceTasks[o]
  <2>1. sent \in {0, 1} /\ (invoiceTasks'[o] # invoiceTasks[o] => sent = 1)
    <3>1. invoiceTasks[o] \in Nat
      BY DEF IInv, TypeOK
    <3> QED BY <3>1, TasksSent DEF PaymentStep
  <2>2. waiting'[o] = [waiting[o] EXCEPT ![0] = @ + sent]
    BY DEF PaymentStep
  <2>3. waiting[o] \in [0..MaxInvoiceRetries -> Nat] /\ 0 \in 0..MaxInvoiceRetries
    BY InvoiceRetryAssumption DEF QueueInv
  <2> HIDE DEF sent
  <2>4. waiting[o][0] \in Nat /\ waiting[o][0] + sent \in Nat
    <3>1. waiting[o][0] \in Nat
      BY <2>3
    <3> QED BY <2>1, <3>1
  <2>5. /\ waiting'[o] \in [0..MaxInvoiceRetries -> Nat]
        /\ waiting'[o][0] = waiting[o][0] + sent
        /\ \A n \in (0..MaxInvoiceRetries) \ {0} : waiting'[o][n] = waiting[o][n]
    BY <2>2, <2>3, <2>4
  <2>6. \A n \in 0..MaxInvoiceRetries : waiting[o][n] > 0 => waiting'[o][n] > 0
    BY <2>1, <2>4, <2>5
  <2>7. sent = 1 => waiting'[o][0] > 0
    BY <2>4, <2>5
  <2> QED BY <2>1, <2>3, <2>5, <2>6, <2>7 DEF Queued
<1>2. UNCHANGED <<invoicePc, invoiceJob, pdfUrl, invoiceFailed>>
  BY DEF PaymentStep
<1>3. QueueInv'
  <2>1. waiting' = [o \in Orders |-> waiting'[o]]
    BY DEF PaymentStep
  <2> QED BY <1>1, <1>2, <2>1 DEF QueueInv
<1>4. ASSUME NEW o \in Orders, invoiceTasks'[o] > 0 PROVE Followed(o)'
  <2>1. CASE invoiceTasks'[o] = invoiceTasks[o]
    BY <1>1, <1>2, <1>4, <2>1 DEF SentInHands, Followed, InWork
  <2>2. CASE invoiceTasks'[o] # invoiceTasks[o]
    BY <1>1, <2>2 DEF Followed
  <2> QED BY <2>1, <2>2
<1> QED BY <1>3, <1>4 DEF SentInHands

LEMMA InvoiceSendQueues ==
  ASSUME QueueInv, NEW o \in Orders, NEW n \in 0..MaxInvoiceRetries, I!Send(o, n)
  PROVE  /\ waiting' \in [Orders -> [0..MaxInvoiceRetries -> Nat]]
         /\ Queued(o)' /\ \A p \in Orders : Queued(p) => Queued(p)'
<1>1. waiting \in [Orders -> [0..MaxInvoiceRetries -> Nat]]
  BY DEF QueueInv
<1>2. waiting[o] \in [0..MaxInvoiceRetries -> Nat] /\ waiting[o][n] \in Nat
  BY <1>1
<1>3. waiting' = [waiting EXCEPT ![o] = [waiting[o] EXCEPT ![n] = waiting[o][n] + 1]]
  BY DEF I!Send
<1>4. /\ [waiting[o] EXCEPT ![n] = waiting[o][n] + 1] \in [0..MaxInvoiceRetries -> Nat]
      /\ waiting'[o] = [waiting[o] EXCEPT ![n] = waiting[o][n] + 1]
      /\ \A p \in Orders \ {o} : waiting'[p] = waiting[p]
  BY <1>1, <1>2, <1>3
<1>5. /\ waiting'[o][n] = waiting[o][n] + 1
      /\ \A m \in (0..MaxInvoiceRetries) \ {n} : waiting'[o][m] = waiting[o][m]
  BY <1>2, <1>4
<1>6. \A m \in 0..MaxInvoiceRetries : waiting[o][m] > 0 => waiting'[o][m] > 0
  BY <1>2, <1>5
<1>7. Queued(o)'
  BY <1>2, <1>5 DEF Queued
<1> QED BY <1>1, <1>3, <1>4, <1>6, <1>7 DEF Queued

(* The worker w moves; what it had taken is followed up all the same.      *)
LEMMA InvoiceStepKeepsHands ==
  ASSUME SentInHands, UNCHANGED vars, NEW w \in InvoiceWorkers,
         \A v \in InvoiceWorkers \ {w} :
           invoicePc'[v] = invoicePc[v] /\ invoiceJob'[v] = invoiceJob[v],
         pdfUrl \subseteq pdfUrl', invoiceFailed \subseteq invoiceFailed',
         \A o \in Orders : Queued(o) => Followed(o)',
         \A o \in Orders : invoicePc[w] # "idle" /\ invoiceJob[w].order = o => Followed(o)'
  PROVE  SentInHands'
<1> SUFFICES ASSUME NEW o \in Orders, Followed(o) PROVE Followed(o)'
  BY DEF SentInHands, vars
<1>1. CASE o \in pdfUrl \cup invoiceFailed
  BY <1>1 DEF Followed
<1>2. CASE Queued(o)
  BY <1>2
<1>3. CASE InWork(o)
  <2>1. PICK v \in InvoiceWorkers : invoicePc[v] # "idle" /\ invoiceJob[v].order = o
    BY <1>3 DEF InWork
  <2>2. CASE v = w
    BY <2>1, <2>2
  <2>3. CASE v # w
    BY <2>1, <2>3 DEF Followed, InWork
  <2> QED BY <2>2, <2>3
<1> QED BY <1>1, <1>2, <1>3 DEF Followed

LEMMA InvoiceStepFollowed ==
  ASSUME InvoiceInv, QueueInv, SentInHands, UNCHANGED vars,
         NEW w \in InvoiceWorkers, I!Step(w) \/ I!Failure(w)
  PROVE  QueueInv' /\ SentInHands'
<1>1. /\ \A v \in InvoiceWorkers \ {w} :
           invoicePc'[v] = invoicePc[v] /\ invoiceJob'[v] = invoiceJob[v]
      /\ invoicePc' = [v \in InvoiceWorkers |-> invoicePc'[v]]
      /\ invoicePc = [v \in InvoiceWorkers |-> invoicePc[v]]
      /\ invoiceJob = [v \in InvoiceWorkers |-> invoiceJob[v]]
  BY InvoiceMoves DEF InvoiceInv
<1>2. pdfUrl \subseteq pdfUrl' /\ invoiceFailed \subseteq invoiceFailed'
  BY DEF I!Step, I!Failure, I!Deliver, I!LoadOrder, I!Find, I!CheckPaid, I!LockOrder,
     I!LockSequence, I!Insert, I!FindAgain, I!Render, I!StoreUrl, I!StepFails, I!Crash,
     I!TaskFails, I!CutShort, I!GiveUp, I!Redeliver, I!Retry, I!book
<1>3. ASSUME waiting' \in [Orders -> [0..MaxInvoiceRetries -> Nat]],
             invoicePc'[w] # "idle" => invoiceJob'[w].tries \in 0..MaxInvoiceRetries,
             \A p \in Orders : Queued(p) => Followed(p)',
             \A p \in Orders : invoicePc[w] # "idle" /\ invoiceJob[w].order = p => Followed(p)'
      PROVE  QueueInv' /\ SentInHands'
  <2>1. QueueInv'
    BY <1>1, <1>3 DEF QueueInv
  <2> QED BY <1>1, <1>2, <1>3, <2>1, InvoiceStepKeepsHands
<1>4. CASE I!Deliver(w)
  <2>1. PICK q \in Orders, m \in 0..MaxInvoiceRetries :
          /\ waiting[q][m] > 0
          /\ waiting' = [waiting EXCEPT ![q][m] = @ - 1]
          /\ invoiceJob' = [invoiceJob EXCEPT ![w] = [order |-> q, tries |-> m]]
    BY <1>4 DEF I!Deliver
  <2>2. invoicePc[w] = "idle" /\ invoicePc'[w] = "load" /\ invoiceJob'[w] = [order |-> q, tries |-> m]
    BY <1>1, <1>4, <2>1 DEF I!Deliver
  <2>3. InWork(q)'
    BY <2>2 DEF InWork
  <2>4. waiting[q] \in [0..MaxInvoiceRetries -> Nat] /\ waiting[q][m] - 1 \in Nat
    <3>1. waiting[q] \in [0..MaxInvoiceRetries -> Nat]
      BY DEF QueueInv
    <3>2. waiting[q][m] \in Nat
      BY <3>1
    <3> QED BY <2>1, <3>1, <3>2
  <2>5. /\ waiting' \in [Orders -> [0..MaxInvoiceRetries -> Nat]]
        /\ \A p \in Orders \ {q} : waiting'[p] = waiting[p]
    BY <2>1, <2>4 DEF QueueInv
  <2>6. \A p \in Orders : Queued(p) => Followed(p)'
    BY <2>3, <2>5 DEF Queued, Followed
  <2> QED BY <1>3, <2>2, <2>5, <2>6
<1>5. CASE invoicePc[w] # "idle"
  <2>0. PICK o \in Orders, n \in 0..MaxInvoiceRetries :
          invoiceJob[w].order = o /\ invoiceJob[w].tries = n
    BY <1>5 DEF InvoiceInv, QueueInv
  <2>1. ASSUME UNCHANGED waiting, Followed(o)',
               UNCHANGED invoiceJob \/ invoicePc'[w] = "idle"
        PROVE  QueueInv' /\ SentInHands'
    <3>1. \A p \in Orders : Queued(p) => Followed(p)'
      BY <2>1 DEF Queued, Followed
    <3> QED BY <1>3, <2>0, <2>1, <3>1 DEF QueueInv
  <2>2. ASSUME NEW phase, phase # "idle", I!Goto(w, phase), UNCHANGED waiting
        PROVE  QueueInv' /\ SentInHands'
    <3>1. InWork(o)'
      BY <1>1, <2>0, <2>2 DEF InWork, I!Goto
    <3> QED BY <2>1, <2>2, <3>1 DEF Followed, I!Goto
  <2>3. ASSUME NEW m \in 0..MaxInvoiceRetries, I!Send(o, m),
               I!Rest(w) \/ UNCHANGED <<invoicePc, invoiceJob>>
        PROVE  QueueInv' /\ SentInHands'
    <3>1. /\ waiting' \in [Orders -> [0..MaxInvoiceRetries -> Nat]]
          /\ Queued(o)' /\ \A p \in Orders : Queued(p) => Queued(p)'
      BY <2>3, InvoiceSendQueues
    <3>2. invoicePc'[w] # "idle" => invoiceJob'[w] = invoiceJob[w]
      BY <1>1, <2>3 DEF I!Rest
    <3> QED BY <1>3, <2>0, <3>1, <3>2 DEF Followed
  <2>4. ASSUME I!Rest(w), UNCHANGED waiting, o \in pdfUrl' \cup invoiceFailed'
        PROVE  QueueInv' /\ SentInHands'
    <3>1. invoicePc'[w] = "idle"
      BY <1>1, <2>4 DEF I!Rest
    <3> QED BY <2>1, <2>4, <3>1 DEF Followed
  <2>5. CASE I!Retry(w)
    BY <2>0, <2>3, <2>4, <2>5, InvoiceRetryAssumption DEF I!Retry, I!GiveUp
  <2>6. CASE I!LoadOrder(w) \/ I!Find(w)
    BY <2>0, <2>2, <2>4, <2>6 DEF I!LoadOrder, I!Find, I!book
  <2>7. CASE I!CheckPaid(w)
    BY <2>2, <2>5, <2>7 DEF I!CheckPaid
  <2>8. CASE I!LockOrder(w) \/ I!LockSequence(w) \/ I!Insert(w) \/ I!Render(w)
    BY <2>2, <2>8 DEF I!LockOrder, I!LockSequence, I!Insert, I!Render
  <2>9. CASE I!FindAgain(w)
    BY <2>0, <2>2, <2>4, <2>5, <2>9 DEF I!FindAgain, I!book
  <2>10. CASE I!StoreUrl(w)
    BY <2>0, <2>4, <2>10 DEF I!StoreUrl
  <2>11. CASE I!StepFails(w)
    BY <2>5, <2>11 DEF I!StepFails
  <2>12. CASE I!Crash(w) \/ I!Redeliver(w)
    BY <2>0, <2>3, <2>12 DEF I!Crash, I!CutShort, I!Redeliver
  <2>13. CASE I!TaskFails(w)
    BY <2>0, <2>4, <2>13 DEF I!TaskFails, I!CutShort, I!GiveUp
  <2> QED BY <1>4, <2>6, <2>7, <2>8, <2>9, <2>10, <2>11, <2>12, <2>13 DEF I!Step, I!Failure
<1>6. CASE invoicePc[w] = "idle"
  BY <1>4, <1>6 DEF I!Step, I!Failure, I!LoadOrder, I!Find, I!CheckPaid, I!LockOrder,
     I!LockSequence, I!Insert, I!FindAgain, I!Render, I!StoreUrl, I!StepFails, I!Crash,
     I!TaskFails, I!CutShort, I!Redeliver
<1> QED BY <1>5, <1>6

(* An invoice task that the payment service has sent is waiting, in hand,  *)
(* done, or has failed for good.                                           *)
LEMMA SentIsFollowed == FulfilmentSpec => []SentInHands
<1>1. FulfilmentInit => QueueInv /\ SentInHands
  <2> SUFFICES ASSUME FulfilmentInit PROVE QueueInv /\ SentInHands
    OBVIOUS
  <2>1. QueueInv
    BY InvoiceRetryAssumption DEF FulfilmentInit, I!Init, QueueInv
  <2> QED BY <2>1 DEF FulfilmentInit, Init, SentInHands
<1>2. /\ IInv /\ InvoiceInv /\ QueueInv /\ SentInHands /\ [FulfilmentNext]_allVars
      => QueueInv' /\ SentInHands'
  <2>1. QueueInv /\ SentInHands /\ UNCHANGED allVars => QueueInv' /\ SentInHands'
    BY DEF allVars, vars, I!vars, I!book, QueueInv, SentInHands, Followed, Queued, InWork
  <2> QED BY <2>1, PaymentStepFollowed, InvoiceStepFollowed DEF FulfilmentNext, InvoiceStep
<1> QED BY <1>1, <1>2, PaymentAlone, Inductive, InvoiceInvHolds, PTL DEF FulfilmentSpec

(* Between the COMMIT of PAID and its hook a worker is all that knows.     *)
HookPending(o) == \E w \in Workers : pc[w] = "enqueue" /\ job[w].order = o

HookInv ==
  \A o \in Orders :
    orderStatus[o] = "PAID" => invoiceTasks[o] > 0 \/ o \in unsent \/ HookPending(o)

(* Any other step leaves those that wait for a hook alone.                 *)
LEMMA HooksKept ==
  ASSUME HookInv, NEW a \in Actors, pc[a] # "enqueue",
         \A b \in Actors \ {a} : pc'[b] = pc[b] /\ job'[b] = job[b],
         \A o \in Orders : orderStatus'[o] = "PAID" => orderStatus[o] = "PAID",
         UNCHANGED <<invoiceTasks, unsent>>
  PROVE  HookInv'
<1>1. \A o \in Orders : HookPending(o) => HookPending(o)'
  BY DEF HookPending, Actors
<1> QED BY <1>1 DEF HookInv

LEMMA HooksStep ==
  ASSUME IInv, HookInv, [Next]_vars
  PROVE  HookInv'
<1> USE DEF IInv
<1>1. ASSUME NEW w \in Workers, RecordApproval(w) PROVE HookInv'
  <2>1. /\ orderStatus \in [Orders -> OrderStates] /\ w \in Actors
        /\ pc[w] = "approved" /\ pc' = [pc EXCEPT ![w] = "enqueue"] /\ pc'[w] = "enqueue"
        /\ UNCHANGED <<job, invoiceTasks, unsent>>
    BY <1>1 DEF RecordApproval, Goto, TypeOK, Actors
  <2>2. \A v \in Workers : pc[v] = "enqueue" => pc'[v] = "enqueue"
    BY <2>1 DEF TypeOK, Actors
  <2>3. \A o \in Orders : HookPending(o) => HookPending(o)'
    BY <2>1, <2>2 DEF HookPending
  <2>4. \A o \in Orders : job[w].order = o => HookPending(o)'
    BY <2>1 DEF HookPending
  <2>5. \A o \in Orders : job[w].order # o => orderStatus'[o] = orderStatus[o]
    BY <1>1, <2>1 DEF RecordApproval, SettleOrder
  <2> QED BY <2>1, <2>3, <2>4, <2>5 DEF HookInv
<1>2. ASSUME NEW w \in Workers, EnqueueInvoice(w) \/ CutShort(w) PROVE HookInv'
  <2>1. /\ w \in Actors /\ pc[w] # "idle" /\ job[w].order \in Orders
        /\ invoiceTasks \in [Orders -> Nat] /\ orderStatus' = orderStatus
        /\ \A v \in Workers \ {w} : pc'[v] = pc[v] /\ job'[v] = job[v]
    BY <1>2 DEF EnqueueInvoice, CutShort, Rest, rows, TypeOK, JobsInv, Actors
  <2>2. \A o \in Orders : invoiceTasks[o] > 0 => invoiceTasks'[o] > 0
    BY <1>2, <2>1 DEF EnqueueInvoice, CutShort
  <2>3. unsent \subseteq unsent'
    BY <1>2 DEF EnqueueInvoice, CutShort, LoseHook
  <2>4. pc[w] = "enqueue" => invoiceTasks'[job[w].order] > 0 \/ job[w].order \in unsent'
    BY <1>2, <2>1 DEF EnqueueInvoice, CutShort, LoseHook
  <2>5. \A o \in Orders :
          HookPending(o) => HookPending(o)' \/ (pc[w] = "enqueue" /\ job[w].order = o)
    BY <2>1 DEF HookPending
  <2> QED BY <2>1, <2>2, <2>3, <2>4, <2>5 DEF HookInv
<1>3. ASSUME NEW w \in Workers,
             \/ Deliver(w) \/ CheckStatus(w) \/ Load(w) \/ AskGateway(w) \/ GatewayTimesOut(w)
             \/ RecordDecline(w) \/ RecordUnsupported(w)
      PROVE  HookInv'
  <2>1. /\ w \in Actors /\ pc[w] # "enqueue"
        /\ \A b \in Actors \ {w} : pc'[b] = pc[b] /\ job'[b] = job[b]
        /\ UNCHANGED <<invoiceTasks, unsent>>
    BY <1>3 DEF Deliver, CheckStatus, Load, AskGateway, GatewayTimesOut, RecordDecline,
       RecordUnsupported, Goto, Rest, TypeOK, Actors
  <2>2. \A o \in Orders : orderStatus'[o] = "PAID" => orderStatus[o] = "PAID"
    BY <1>3 DEF Deliver, CheckStatus, Load, AskGateway, GatewayTimesOut, RecordDecline,
       RecordUnsupported, SettleOrder, rows, TypeOK
  <2> QED BY <2>1, <2>2, HooksKept
<1>4. ASSUME NEW w \in Workers, Redeliver(w) PROVE HookInv'
  BY <1>4 DEF Redeliver, HookInv, HookPending, rows
<1>5. ASSUME NEW c \in Clerks, ClerkStep(c) PROVE HookInv'
  <2>1. /\ c \in Actors /\ pc[c] # "enqueue"
        /\ \A b \in Actors \ {c} : pc'[b] = pc[b] /\ job'[b] = job[b]
        /\ UNCHANGED <<invoiceTasks, unsent, orderStatus>>
    BY <1>5 DEF ClerkStep, Start, AskClerksGateway, RecordAnswer, Goto, Rest, rows, TypeOK, Actors
  <2> QED BY <2>1, HooksKept
<1>6. CASE UNCHANGED vars
  BY <1>6 DEF vars, HookInv, HookPending
<1> QED BY <1>1, <1>2, <1>3, <1>4, <1>5, <1>6 DEF Next, WorkerStep, Failure, Crash, TaskFails

(* A paid order has its invoice printed, or its task has failed for good,  *)
(* waits or is in hand; or its hook is still to run, or went with the run  *)
(* that had committed it.  Nothing else leaves a paid order without its    *)
(* invoice, whatever goes down in either service: the safety part of       *)
(* PaidIsPrinted.                                                          *)
PaidInHands ==
  \A o \in Orders :
    orderStatus[o] = "PAID" =>
      Followed(o) \/ HookPending(o) \/ (o \in unsent /\ invoiceTasks[o] = 0)

THEOREM OnlyLostHooksLoseInvoices == FulfilmentSpec => []PaidInHands
<1>1. Init => HookInv
  BY DEF Init, HookInv
<1>2. IInv /\ HookInv /\ [Next]_vars => HookInv'
  BY HooksStep
<1>3. IInv /\ HookInv /\ SentInHands => PaidInHands
  <2> SUFFICES ASSUME IInv, HookInv, SentInHands, NEW o \in Orders, orderStatus[o] = "PAID",
                      invoiceTasks[o] # 0 \/ o \notin unsent
               PROVE  Followed(o) \/ HookPending(o)
    BY DEF PaidInHands
  <2>1. invoiceTasks[o] \in Nat
    BY DEF IInv, TypeOK
  <2> QED BY <2>1 DEF HookInv, SentInHands
<1>4. Spec => []HookInv
  BY <1>1, <1>2, Inductive, PTL DEF Spec
<1> QED BY <1>3, <1>4, PaymentAlone, Inductive, SentIsFollowed, PTL
=============================================================================
