--------------------------- MODULE InvoiceProofs ---------------------------
(***************************************************************************)
(* The numbers of a tenant's invoices have no gap, no invoice is renumbered *)
(* and none is issued for an order that is not PAID, for any orders,        *)
(* workers, retries and failures.                                          *)
(***************************************************************************)
EXTENDS Invoice, SequenceTheorems, TLAPS

InTransaction == {"lock_sequence", "insert"}
Uninvoiced == {"lock_order", "lock_sequence", "insert"}
Completing == {"render", "store"}

(* What a worker's place in generate_invoice_for_order entails: a worker   *)
(* between its UPDATEs owns its rows, and the number it has taken is next. *)
JobInv(w) ==
  /\ (pc[w] = "idle") = (job[w] = NoJob)
  /\ pc[w] # "idle" => job[w].order \in Orders
  /\ pc[w] \in InTransaction => rowOwner[job[w].order] = w
  /\ pc[w] = "insert" => rowOwner[Sequence] = w /\ next[w] = lastNumber + 1
  /\ pc[w] \in Uninvoiced => orderStatus[job[w].order] = "PAID"
  /\ pc[w] \in Completing => number[job[w].order] # 0
  /\ pc[w] = "store" => job[w].order \in files

(* The rows spell a book: every number up to the last has one order, which *)
(* is PAID, and only an invoice has a URL.                                 *)
BookInv ==
  /\ \A n \in 1..lastNumber : \E o \in Orders : number[o] = n
  /\ \A o, p \in Orders : number[o] = number[p] /\ number[o] # 0 => o = p
  /\ \A o \in Orders : number[o] # 0 => orderStatus[o] = "PAID"
  /\ \A o \in pdfUrl : number[o] # 0

IInv == TypeOK /\ (\A w \in Workers : JobInv(w)) /\ BookInv

-----------------------------------------------------------------------------
LEMMA InitIInv == Init => IInv
<1> SUFFICES ASSUME Init PROVE IInv
  OBVIOUS
<1> USE NoneAssumption, RetryAssumption
<1>1. TypeOK
  BY DEF Init, TypeOK, Phases, NoJob, Rows
<1>2. \A w \in Workers : JobInv(w)
  BY DEF Init, JobInv, InTransaction, Uninvoiced, Completing, NoJob
<1>3. BookInv
  BY DEF Init, BookInv
<1> QED BY <1>1, <1>2, <1>3 DEF IInv

-----------------------------------------------------------------------------
(* Types *)

LEMMA SendType ==
  ASSUME TypeOK, NEW o \in Orders, NEW n \in 0..MaxRetries, Send(o, n)
  PROVE  tasks' \in [Orders -> [0..MaxRetries -> Nat]]
<1>1. tasks[o] \in [0..MaxRetries -> Nat]
  BY DEF TypeOK
<1>2. [tasks[o] EXCEPT ![n] = tasks[o][n] + 1] \in [0..MaxRetries -> Nat]
  <2>1. tasks[o][n] \in Nat
    BY <1>1
  <2>2. tasks[o][n] + 1 \in Nat
    BY <2>1
  <2> QED BY <1>1, <2>2
<1> QED BY <1>2 DEF Send, TypeOK

LEMMA FaultType == TypeOK /\ Fault => faults' \in 0..MaxFaults
BY RetryAssumption DEF TypeOK, Fault

LEMMA RestType ==
  ASSUME TypeOK, NEW w \in Workers, Rest(w)
  PROVE  /\ pc' \in [Workers -> Phases]
         /\ job' \in [Workers -> [order : Orders \cup {None}, tries : 0..MaxRetries]]
BY RetryAssumption DEF Rest, TypeOK, Phases, NoJob

LEMMA ReleaseType ==
  ASSUME TypeOK, NEW w \in Workers, ReleaseRows(w)
  PROVE  rowOwner' \in [Rows -> Workers \cup {None}]
BY DEF ReleaseRows, TypeOK

LEMMA RetryType ==
  ASSUME TypeOK, NEW w \in Workers, job[w].order \in Orders, Retry(w)
  PROVE  /\ tasks' \in [Orders -> [0..MaxRetries -> Nat]]
         /\ failed' \subseteq Orders
         /\ pc' \in [Workers -> Phases]
         /\ job' \in [Workers -> [order : Orders \cup {None}, tries : 0..MaxRetries]]
         /\ rowOwner' \in [Rows -> Workers \cup {None}]
<1>1. job[w].tries \in 0..MaxRetries /\ failed \subseteq Orders
  BY DEF TypeOK
<1>2. /\ tasks' \in [Orders -> [0..MaxRetries -> Nat]]
      /\ failed' \subseteq Orders
  <2>1. CASE Send(job[w].order, job[w].tries + 1) /\ job[w].tries < MaxRetries /\ UNCHANGED failed
    <3>1. job[w].tries + 1 \in 0..MaxRetries
      BY <1>1, <2>1, RetryAssumption
    <3> QED BY <1>1, <2>1, <3>1, SendType
  <2>2. CASE GiveUp(w)
    BY <1>1, <2>2 DEF GiveUp, TypeOK
  <2> QED BY <2>1, <2>2 DEF Retry
<1>3. ReleaseRows(w) /\ Rest(w)
  BY DEF Retry
<1> QED BY <1>2, <1>3, ReleaseType, RestType

LEMMA TypeStep == IInv /\ [Next]_vars => TypeOK'
<1> SUFFICES ASSUME IInv, [Next]_vars PROVE TypeOK'
  OBVIOUS
<1> USE RetryAssumption
<1>1. TypeOK /\ \A w \in Workers : pc[w] # "idle" => job[w].order \in Orders
  BY DEF IInv, JobInv
<1>2. ASSUME NEW w \in Workers, Deliver(w) PROVE TypeOK'
  <2>1. PICK o \in Orders, n \in 0..MaxRetries :
          /\ tasks[o][n] > 0
          /\ tasks' = [tasks EXCEPT ![o][n] = @ - 1]
          /\ job' = [job EXCEPT ![w] = [order |-> o, tries |-> n]]
    BY <1>2 DEF Deliver
  <2>2. tasks[o][n] - 1 \in Nat
    BY <1>1, <2>1 DEF TypeOK
  <2>3. tasks' \in [Orders -> [0..MaxRetries -> Nat]]
    BY <1>1, <2>1, <2>2 DEF TypeOK
  <2> QED BY <1>1, <1>2, <2>1, <2>3 DEF Deliver, TypeOK, Phases, book
<1>3. ASSUME NEW w \in Workers, LoadOrder(w) \/ Find(w) PROVE TypeOK'
  BY <1>1, <1>3, RestType DEF LoadOrder, Find, Goto, TypeOK, Phases, book
<1>4. ASSUME NEW w \in Workers, CheckPaid(w) PROVE TypeOK'
  <2>1. CASE Retry(w)
    BY <1>1, <1>4, <2>1, RetryType DEF CheckPaid, TypeOK, book
  <2>2. CASE Goto(w, "lock_order") /\ UNCHANGED <<tasks, rowOwner, failed>>
    BY <1>1, <1>4, <2>2 DEF CheckPaid, Goto, TypeOK, Phases, book
  <2> QED BY <1>4, <2>1, <2>2 DEF CheckPaid
<1>5. ASSUME NEW w \in Workers, LockOrder(w) PROVE TypeOK'
  BY <1>1, <1>5 DEF LockOrder, Lock, Goto, TypeOK, Phases, book, Rows
<1>6. ASSUME NEW w \in Workers, LockSequence(w) PROVE TypeOK'
  BY <1>1, <1>6 DEF LockSequence, Lock, Goto, TypeOK, Phases, Rows
<1>7. ASSUME NEW w \in Workers, Insert(w) PROVE TypeOK'
  <2>1. next[w] = lastNumber + 1 /\ job[w].order \in Orders
    BY <1>7 DEF IInv, JobInv, Insert
  <2>2. lastNumber' \in Nat /\ number' \in [Orders -> 0..lastNumber']
    <3>1. lastNumber \in Nat /\ number \in [Orders -> 0..lastNumber]
      BY <1>1 DEF TypeOK
    <3>2. CASE UNCHANGED <<lastNumber, number>>
      BY <3>1, <3>2
    <3>3. CASE /\ lastNumber' = next[w]
               /\ number' = [number EXCEPT ![job[w].order] = next[w]]
      BY <2>1, <3>1, <3>3
    <3> QED BY <1>7, <3>2, <3>3 DEF Insert
  <2>3. pc' \in [Workers -> Phases]
    BY <1>1, <1>7 DEF Insert, Goto, TypeOK, Phases
  <2> QED BY <1>1, <1>7, <2>2, <2>3, ReleaseType DEF Insert, Goto, TypeOK
<1>8. ASSUME NEW w \in Workers, FindAgain(w) PROVE TypeOK'
  <2>1. CASE Retry(w)
    BY <1>1, <1>8, <2>1, RetryType DEF FindAgain, TypeOK, book
  <2>2. CASE /\ Rest(w) \/ Goto(w, "render")
             /\ UNCHANGED <<tasks, rowOwner, failed>>
    BY <1>1, <1>8, <2>2, RestType DEF FindAgain, Goto, TypeOK, Phases, book
  <2> QED BY <1>8, <2>1, <2>2 DEF FindAgain
<1>9. ASSUME NEW w \in Workers, Render(w) PROVE TypeOK'
  BY <1>1, <1>9 DEF Render, Goto, TypeOK, Phases
<1>10. ASSUME NEW w \in Workers, StoreUrl(w) PROVE TypeOK'
  <2>1. pdfUrl' \subseteq files'
    BY <1>1, <1>10 DEF StoreUrl, IInv, JobInv, TypeOK
  <2> QED BY <1>1, <1>10, <2>1, RestType DEF StoreUrl, TypeOK
<1>11. ASSUME NEW w \in Workers, StepFails(w) PROVE TypeOK'
  BY <1>1, <1>11, RetryType, FaultType DEF StepFails, TypeOK, book
<1>12. ASSUME NEW w \in Workers, Crash(w) \/ TaskFails(w) PROVE TypeOK'
  <2>1. tasks' \in [Orders -> [0..MaxRetries -> Nat]] /\ failed' \subseteq Orders
    BY <1>1, <1>12, SendType DEF Crash, TaskFails, CutShort, GiveUp, TypeOK
  <2> QED BY <1>1, <1>12, <2>1, ReleaseType, RestType, FaultType DEF Crash, TaskFails, CutShort,
         TypeOK, book
<1>13. ASSUME NEW w \in Workers, Redeliver(w) PROVE TypeOK'
  BY <1>1, <1>13, SendType, FaultType DEF Redeliver, TypeOK, book
<1>14. ASSUME NEW o \in Orders, SettleAndSend(o) PROVE TypeOK'
  <2>1. 0 \in 0..MaxRetries /\ Send(o, 0)
    BY <1>14 DEF SettleAndSend
  <2>2. tasks' \in [Orders -> [0..MaxRetries -> Nat]]
    BY <1>1, <2>1, SendType
  <2> QED BY <1>1, <1>14, <2>2 DEF SettleAndSend, TypeOK, book
<1>15. CASE UNCHANGED vars
  BY <1>1, <1>15 DEF TypeOK, vars, book
<1> QED
  BY <1>2, <1>3, <1>4, <1>5, <1>6, <1>7, <1>8, <1>9, <1>10, <1>11, <1>12, <1>13, <1>14, <1>15
     DEF Next, Step, Failure

-----------------------------------------------------------------------------
(* What the workers know *)

(* What one worker's step leaves to the others: their rows stay locked,    *)
(* and what the tables say about an order stays true.                      *)
Frame(w) ==
  /\ \A v \in Workers \ {w} : pc'[v] = pc[v] /\ job'[v] = job[v] /\ next'[v] = next[v]
  /\ \A v \in Workers \ {w}, x \in Rows : rowOwner[x] = v => rowOwner'[x] = v
  /\ \A o \in Orders : orderStatus[o] = "PAID" => orderStatus'[o] = "PAID"
  /\ \A o \in Orders : number[o] # 0 => number'[o] # 0
  /\ files \subseteq files'
  /\ lastNumber' = lastNumber \/ rowOwner[Sequence] = w

LEMMA FrameKeeps ==
  ASSUME IInv, NEW w \in Workers, Frame(w), NEW v \in Workers \ {w}
  PROVE  JobInv(v)'
<1>1. JobInv(v) /\ pc'[v] = pc[v] /\ job'[v] = job[v] /\ next'[v] = next[v]
  BY DEF IInv, Frame
<1>2. pc[v] \in InTransaction => rowOwner'[job[v].order] = v
  BY <1>1 DEF JobInv, InTransaction, Frame, Rows
<1>3. pc[v] = "insert" => rowOwner'[Sequence] = v /\ next[v] = lastNumber' + 1
  BY <1>1 DEF JobInv, Frame, Rows
<1>4. pc[v] \in Uninvoiced => orderStatus'[job[v].order] = "PAID"
  BY <1>1 DEF JobInv, Uninvoiced, Frame
<1>5. pc[v] \in Completing => number'[job[v].order] # 0
  BY <1>1 DEF JobInv, Completing, Frame
<1>6. pc[v] = "store" => job[v].order \in files'
  BY <1>1 DEF JobInv, Frame
<1> QED BY <1>1, <1>2, <1>3, <1>4, <1>5, <1>6 DEF JobInv

LEMMA Rested ==
  ASSUME IInv, NEW w \in Workers, Rest(w)
  PROVE  JobInv(w)'
BY DEF IInv, TypeOK, Rest, JobInv, InTransaction, Uninvoiced, Completing

(* Every step of a worker keeps the frame and the worker's own invariant.  *)
StepKeeps(w) == Frame(w) /\ JobInv(w)'

LEMMA RetryKeeps ==
  ASSUME IInv, NEW w \in Workers, Retry(w),
         UNCHANGED <<orderStatus, book>>
  PROVE  StepKeeps(w)
<1>1. Rest(w) /\ ReleaseRows(w)
  BY DEF Retry
<1>2. Frame(w)
  BY <1>1 DEF IInv, TypeOK, Frame, Rest, ReleaseRows, book
<1> QED BY <1>1, <1>2, Rested DEF StepKeeps

(* A step that only moves the worker on within its task.                   *)
LEMMA GotoKeeps ==
  ASSUME IInv, NEW w \in Workers, NEW phase \in Phases \ {"idle"}, Goto(w, phase),
         pc[w] # "idle", UNCHANGED <<orderStatus, rowOwner, book>>,
         phase \notin InTransaction,
         phase \in Uninvoiced => orderStatus[job[w].order] = "PAID",
         phase \in Completing => number[job[w].order] # 0,
         phase # "store"
  PROVE  StepKeeps(w)
<1>1. Frame(w)
  BY DEF Goto, Frame, IInv, TypeOK, book
<1>2. JobInv(w)'
  BY DEF Goto, JobInv, IInv, TypeOK, book, Phases, Uninvoiced, Completing, InTransaction
<1> QED BY <1>1, <1>2 DEF StepKeeps

LEMMA InsertKeeps ==
  ASSUME IInv, NEW w \in Workers, Insert(w)
  PROVE  StepKeeps(w)
<1> DEFINE o == job[w].order
<1>1. /\ pc[w] = "insert" /\ o \in Orders /\ orderStatus[o] = "PAID"
      /\ rowOwner[Sequence] = w /\ next[w] = lastNumber + 1 /\ lastNumber \in Nat
  BY DEF Insert, IInv, JobInv, Uninvoiced, TypeOK
<1>2. /\ ReleaseRows(w)
      /\ UNCHANGED <<orderStatus, tasks, next, pdfUrl, files, failed, faults>>
      /\ UNCHANGED job
  BY DEF Insert, Goto
<1>3. /\ Goto(w, "render") \/ Goto(w, "find_again")
      /\ \A p \in Orders : number[p] # 0 => number'[p] # 0
      /\ pc'[w] = "render" => number'[o] # 0
  <2>1. CASE /\ lastNumber' = next[w]
             /\ number' = [number EXCEPT ![o] = next[w]]
             /\ Goto(w, "render")
    BY <1>1, <2>1 DEF IInv, TypeOK
  <2>2. CASE Goto(w, "find_again") /\ UNCHANGED <<lastNumber, number>>
    BY <2>2 DEF IInv, TypeOK, Goto
  <2> QED BY <2>1, <2>2 DEF Insert
<1> HIDE DEF o
<1>4. Frame(w)
  BY <1>1, <1>2, <1>3 DEF Goto, Frame, IInv, TypeOK, ReleaseRows
<1>5. JobInv(w)'
  <2>1. pc'[w] \in {"render", "find_again"} /\ job'[w] = job[w] /\ job[w].order = o
    BY <1>2, <1>3 DEF Goto, IInv, TypeOK, o
  <2>2. job[w] # NoJob
    BY <1>1 DEF IInv, JobInv
  <2> QED BY <1>1, <1>3, <2>1, <2>2 DEF JobInv, Uninvoiced, Completing, InTransaction
<1> QED BY <1>4, <1>5 DEF StepKeeps

LEMMA WorkerKeeps ==
  ASSUME IInv, NEW w \in Workers, Step(w) \/ Failure(w)
  PROVE  StepKeeps(w)
<1>1. JobInv(w) /\ TypeOK /\ BookInv
  BY DEF IInv
<1>2. CASE Deliver(w)
  <2>1. PICK o \in Orders, n \in 0..MaxRetries :
          job' = [job EXCEPT ![w] = [order |-> o, tries |-> n]]
    BY <1>2 DEF Deliver
  <2>2. job'[w].order = o /\ job'[w] # NoJob /\ pc'[w] = "load"
    BY <1>1, <1>2, <2>1, NoneAssumption DEF Deliver, NoJob, TypeOK
  <2>3. Frame(w)
    BY <1>1, <1>2, <2>1 DEF Deliver, Frame, TypeOK, book
  <2> QED BY <2>2, <2>3 DEF StepKeeps, JobInv, InTransaction, Uninvoiced, Completing
<1>3. CASE LoadOrder(w) \/ Find(w)
  <2>0. CASE LoadOrder(w)
    BY <2>0, GotoKeeps DEF LoadOrder, Phases, InTransaction, Uninvoiced, Completing
  <2>1. CASE Find(w) /\ Rest(w)
    BY <1>1, <2>1, Rested DEF Find, StepKeeps, Frame, Rest, TypeOK, book
  <2>2. CASE Find(w) /\ number[job[w].order] = 0 /\ Goto(w, "check_paid")
    BY <2>2, GotoKeeps DEF Find, Phases, InTransaction, Uninvoiced, Completing
  <2>3. CASE Find(w) /\ number[job[w].order] # 0 /\ Goto(w, "render")
    BY <2>3, GotoKeeps DEF Find, Phases, InTransaction, Uninvoiced, Completing
  <2> QED BY <1>3, <2>0, <2>1, <2>2, <2>3 DEF Find
<1>4. CASE CheckPaid(w)
  <2>1. CASE Retry(w)
    BY <1>4, <2>1, RetryKeeps DEF CheckPaid
  <2>2. CASE /\ orderStatus[job[w].order] = "PAID" /\ Goto(w, "lock_order")
             /\ UNCHANGED <<tasks, rowOwner, failed>>
    BY <1>4, <2>2, GotoKeeps DEF CheckPaid, Phases, InTransaction, Uninvoiced, Completing
  <2> QED BY <1>4, <2>1, <2>2 DEF CheckPaid
<1>5. CASE LockOrder(w)
  <2>1. Frame(w)
    BY <1>1, <1>5, NoneAssumption DEF LockOrder, Lock, Free, Goto, Frame, TypeOK, book, Rows
  <2>2. JobInv(w)'
    BY <1>1, <1>5 DEF LockOrder, Lock, Goto, TypeOK, book, Rows, JobInv,
         InTransaction, Uninvoiced, Completing
  <2> QED BY <2>1, <2>2 DEF StepKeeps
<1>6. CASE LockSequence(w)
  <2>1. Frame(w)
    BY <1>1, <1>6, NoneAssumption DEF LockSequence, Lock, Free, Goto, Frame, TypeOK, Rows
  <2>2. JobInv(w)'
    BY <1>1, <1>6, SequenceAssumption DEF LockSequence, Lock, Goto, TypeOK, Rows, JobInv,
         InTransaction, Uninvoiced, Completing
  <2> QED BY <2>1, <2>2 DEF StepKeeps
<1>7. CASE Insert(w)
  BY <1>7, InsertKeeps
<1>8. CASE FindAgain(w)
  <2>1. CASE Retry(w)
    BY <1>8, <2>1, RetryKeeps DEF FindAgain
  <2>2. CASE Rest(w) /\ UNCHANGED rowOwner
    BY <1>1, <1>8, <2>2, Rested DEF FindAgain, StepKeeps, Frame, Rest, TypeOK, book
  <2>3. CASE /\ number[job[w].order] # 0 /\ Goto(w, "render")
             /\ UNCHANGED <<tasks, rowOwner, failed>>
    BY <1>8, <2>3, GotoKeeps DEF FindAgain, Phases, InTransaction, Uninvoiced, Completing
  <2> QED BY <1>8, <2>1, <2>2, <2>3 DEF FindAgain
<1>9. CASE Render(w)
  BY <1>1, <1>9 DEF Render, Goto, StepKeeps, Frame, TypeOK, JobInv,
         InTransaction, Uninvoiced, Completing
<1>10. CASE StoreUrl(w)
  BY <1>1, <1>10, Rested DEF StoreUrl, StepKeeps, Frame, Rest, TypeOK
<1>11. CASE StepFails(w)
  BY <1>11, RetryKeeps DEF StepFails
<1>12. CASE Crash(w) \/ TaskFails(w)
  BY <1>1, <1>12, Rested DEF Crash, TaskFails, CutShort, StepKeeps, Frame, Rest, ReleaseRows,
       TypeOK, book
<1>13. CASE Redeliver(w)
  BY <1>1, <1>13 DEF Redeliver, StepKeeps, Frame, JobInv, book
<1> QED
  BY <1>2, <1>3, <1>4, <1>5, <1>6, <1>7, <1>8, <1>9, <1>10, <1>11, <1>12, <1>13
     DEF Step, Failure

LEMMA JobsStep == IInv /\ [Next]_vars => \A w \in Workers : JobInv(w)'
<1> SUFFICES ASSUME IInv, [Next]_vars, NEW w \in Workers PROVE JobInv(w)'
  OBVIOUS
<1>1. ASSUME NEW v \in Workers, Step(v) \/ Failure(v) PROVE JobInv(w)'
  BY <1>1, WorkerKeeps, FrameKeeps DEF StepKeeps
<1>2. ASSUME NEW o \in Orders, SettleAndSend(o) PROVE JobInv(w)'
  BY <1>2 DEF SettleAndSend, IInv, TypeOK, JobInv, book
<1>3. CASE UNCHANGED vars
  BY <1>3 DEF IInv, JobInv, vars, book
<1> QED BY <1>1, <1>2, <1>3 DEF Next

-----------------------------------------------------------------------------
(* The book *)

(* A function on 1..n is a sequence of length n.                           *)
LEMMA AsSequence ==
  ASSUME NEW n \in Nat, NEW S, NEW f \in [1..n -> S]
  PROVE  f \in Seq(S) /\ Len(f) = n
<1>1. f \in Seq(S)
  BY SeqDef
<1>2. Len(f) \in Nat /\ 1..n = 1..Len(f)
  BY <1>1, LenProperties
<1> QED BY <1>1, <1>2

PagesOf(last, num) ==
  [n \in 1..last |-> IF \E o \in Orders : num[o] = n THEN CHOOSE o \in Orders : num[o] = n ELSE None]

(* Numbers that nobody skips spell a book of orders.                       *)
LEMMA PagesSpell ==
  ASSUME NEW last \in Nat, NEW num \in [Orders -> 0..last],
         \A n \in 1..last : \E o \in Orders : num[o] = n
  PROVE  /\ PagesOf(last, num) \in Seq(Orders)
         /\ Len(PagesOf(last, num)) = last
         /\ DOMAIN PagesOf(last, num) = 1..last
         /\ \A n \in 1..last : num[PagesOf(last, num)[n]] = n
<1> DEFINE pages == PagesOf(last, num)
<1>1. ASSUME NEW n \in 1..last
      PROVE  pages[n] \in Orders /\ num[pages[n]] = n
  <2>1. \E o \in Orders : num[o] = n
    OBVIOUS
  <2>2. pages[n] = CHOOSE o \in Orders : num[o] = n
    BY <2>1 DEF PagesOf
  <2> QED BY <2>1, <2>2
<1>2. pages \in [1..last -> Orders]
  BY <1>1 DEF PagesOf
<1> QED BY <1>1, <1>2, AsSequence

(* When numbers are not used twice, an order's page is the one it names.   *)
LEMMA PageOfOrder ==
  ASSUME NEW last \in Nat, NEW num \in [Orders -> 0..last],
         \A n \in 1..last : \E o \in Orders : num[o] = n,
         \A o, p \in Orders : num[o] = num[p] /\ num[o] # 0 => o = p
  PROVE  /\ {PagesOf(last, num)[n] : n \in DOMAIN PagesOf(last, num)} = {o \in Orders : num[o] # 0}
         /\ \A o \in Orders : num[o] # 0 => PagesOf(last, num)[num[o]] = o
<1> DEFINE pages == PagesOf(last, num)
<1>1. /\ DOMAIN pages = 1..last
      /\ \A n \in 1..last : pages[n] \in Orders /\ num[pages[n]] = n
  BY PagesSpell, ElementOfSeq
<1> HIDE DEF pages
<1>2. \A o \in Orders : num[o] # 0 => num[o] \in 1..last /\ pages[num[o]] = o
  BY <1>1
<1> QED BY <1>1, <1>2 DEF pages

LEMMA BookState ==
  IInv => /\ Pages = PagesOf(lastNumber, number)
          /\ Pages \in Seq(Orders)
          /\ Len(Pages) = lastNumber
          /\ Book!Invoiced = {o \in Orders : number[o] # 0}
<1> SUFFICES ASSUME IInv
             PROVE  /\ Pages = PagesOf(lastNumber, number)
                    /\ Pages \in Seq(Orders)
                    /\ Len(Pages) = lastNumber
                    /\ Book!Invoiced = {o \in Orders : number[o] # 0}
  OBVIOUS
<1>1. /\ lastNumber \in Nat /\ number \in [Orders -> 0..lastNumber]
      /\ \A n \in 1..lastNumber : \E o \in Orders : number[o] = n
      /\ \A o, p \in Orders : number[o] = number[p] /\ number[o] # 0 => o = p
  BY DEF IInv, TypeOK, BookInv
<1>2. Pages = PagesOf(lastNumber, number)
  BY DEF Pages, PagesOf
<1> QED BY <1>1, <1>2, PagesSpell, PageOfOrder DEF Book!Invoiced

(* The number a worker has taken is not used, so its page is the next one. *)
LEMMA IssueBook ==
  ASSUME IInv, NEW w \in Workers, Insert(w), ~Taken(w)
  PROVE  BookInv' /\ Book!Issue(job[w].order)
<1> DEFINE o == job[w].order
<1>1. /\ o \in Orders /\ orderStatus[o] = "PAID" /\ number[o] = 0
      /\ lastNumber \in Nat /\ number \in [Orders -> 0..lastNumber]
      /\ lastNumber' = lastNumber + 1
      /\ number' = [number EXCEPT ![o] = lastNumber + 1]
      /\ UNCHANGED <<orderStatus, pdfUrl>>
  BY DEF Insert, Taken, IInv, JobInv, Uninvoiced, TypeOK
<1> HIDE DEF o
<1>2. BookInv
  BY DEF IInv
<1>3. /\ \A n \in 1..lastNumber' : \E p \in Orders : number'[p] = n
      /\ \A p, q \in Orders : number'[p] = number'[q] /\ number'[p] # 0 => p = q
      /\ number' \in [Orders -> 0..lastNumber'] /\ lastNumber' \in Nat
  <2>1. ASSUME NEW n \in 1..lastNumber' PROVE \E p \in Orders : number'[p] = n
    <3>1. CASE n = lastNumber + 1
      BY <1>1, <3>1
    <3>2. CASE n \in 1..lastNumber
      BY <1>1, <1>2, <3>2 DEF BookInv
    <3> QED BY <1>1, <3>1, <3>2
  <2>2. ASSUME NEW p \in Orders, NEW q \in Orders, number'[p] = number'[q], number'[p] # 0
        PROVE  p = q
    BY <1>1, <1>2, <2>2 DEF BookInv
  <2> QED BY <1>1, <2>1, <2>2
<1>4. BookInv'
  BY <1>1, <1>2, <1>3 DEF BookInv
<1>5. o \in PaidOrders \ Book!Invoiced
  BY <1>1, BookState DEF PaidOrders
<1>6. Pages' = PagesOf(lastNumber', number')
  BY DEF Pages, PagesOf
<1>7. Pages' = Append(Pages, o)
  <2>1. /\ Pages' \in Seq(Orders) /\ Len(Pages') = lastNumber + 1
        /\ \A p \in Orders : number'[p] # 0 => Pages'[number'[p]] = p
    <3>1. PagesOf(lastNumber', number') \in Seq(Orders) /\ Len(PagesOf(lastNumber', number')) = lastNumber'
      BY <1>3, PagesSpell
    <3>2. \A p \in Orders : number'[p] # 0 => PagesOf(lastNumber', number')[number'[p]] = p
      BY <1>3, PageOfOrder
    <3> QED BY <1>1, <1>6, <3>1, <3>2
  <2>2. /\ Pages \in Seq(Orders) /\ Len(Pages) = lastNumber
        /\ \A p \in Orders : number[p] # 0 => Pages[number[p]] = p
    BY <1>1, <1>2, BookState, PageOfOrder DEF BookInv
  <2>3. /\ Append(Pages, o) \in Seq(Orders) /\ Len(Append(Pages, o)) = lastNumber + 1
        /\ \A n \in 1..lastNumber : Append(Pages, o)[n] = Pages[n]
        /\ Append(Pages, o)[lastNumber + 1] = o
    BY <1>1, <2>2, AppendProperties
  <2>4. ASSUME NEW n \in 1..(lastNumber + 1) PROVE Pages'[n] = Append(Pages, o)[n]
    <3>1. CASE n = lastNumber + 1
      BY <1>1, <2>1, <2>3, <3>1
    <3>2. CASE n \in 1..lastNumber
      <4>1. PICK p \in Orders : number[p] = n
        BY <1>2, <3>2 DEF BookInv
      <4>2. number'[p] = n /\ n # 0
        BY <1>1, <3>2, <4>1
      <4> QED BY <2>1, <2>2, <2>3, <3>2, <4>1, <4>2
    <3>3. n = lastNumber + 1 \/ n \in 1..lastNumber
      BY <1>1
    <3> QED BY <3>1, <3>2, <3>3
  <2> QED BY <2>1, <2>3, <2>4, SeqEqual
<1>8. PaidOrders' = PaidOrders
  BY <1>1 DEF PaidOrders
<1> QED BY <1>1, <1>4, <1>5, <1>7, <1>8 DEF Book!Issue, o

(* A URL is stored once, for an invoice that is in the book.               *)
LEMMA PublishBook ==
  ASSUME IInv, NEW w \in Workers, StoreUrl(w)
  PROVE  BookInv' /\ [Book!Next]_(Book!vars)
<1> DEFINE o == job[w].order
<1>1. /\ o \in Orders /\ number[o] # 0
      /\ pdfUrl' = pdfUrl \cup {o}
      /\ UNCHANGED <<orderStatus, lastNumber, number>>
  BY DEF StoreUrl, IInv, JobInv, Completing
<1> HIDE DEF o
<1>2. BookInv'
  BY <1>1 DEF IInv, BookInv
<1>3. Pages' = Pages /\ PaidOrders' = PaidOrders
  BY <1>1 DEF Pages, PaidOrders
<1>4. o \in Book!Invoiced
  BY <1>1, BookState
<1>5. CASE o \in pdfUrl
  <2>1. pdfUrl' = pdfUrl
    BY <1>1, <1>5
  <2> QED BY <1>2, <1>3, <2>1 DEF Book!vars
<1>6. CASE o \notin pdfUrl
  <2>1. Book!Publish(o)
    BY <1>1, <1>3, <1>4, <1>6 DEF Book!Publish
  <2> QED BY <1>1, <1>2, <2>1 DEF Book!Next
<1> QED BY <1>2, <1>5, <1>6

LEMMA BookStep ==
  ASSUME IInv, [Next]_vars
  PROVE  BookInv' /\ [Book!Next]_(Book!vars)
<1>1. ASSUME UNCHANGED <<orderStatus, lastNumber, number, pdfUrl>>
      PROVE  BookInv' /\ [Book!Next]_(Book!vars)
  <2>1. Pages' = Pages /\ PaidOrders' = PaidOrders
    BY <1>1 DEF Pages, PaidOrders
  <2> QED BY <1>1, <2>1 DEF IInv, BookInv, Book!vars
<1>2. ASSUME NEW w \in Workers, Step(w) \/ Failure(w), ~Insert(w), ~StoreUrl(w)
      PROVE  BookInv' /\ [Book!Next]_(Book!vars)
  <2>1. UNCHANGED <<orderStatus, lastNumber, number, pdfUrl>>
    BY <1>2 DEF Step, Failure, Deliver, LoadOrder, Find, CheckPaid, LockOrder, LockSequence,
         FindAgain, Render, StepFails, Crash, TaskFails, CutShort, Redeliver, book
  <2> QED BY <1>1, <2>1
<1>3. ASSUME NEW w \in Workers, Insert(w)
      PROVE  BookInv' /\ [Book!Next]_(Book!vars)
  <2>1. CASE Taken(w)
    <3>1. UNCHANGED <<orderStatus, lastNumber, number, pdfUrl>>
      BY <1>3, <2>1 DEF Insert
    <3> QED BY <1>1, <3>1
  <2>2. CASE ~Taken(w)
    <3>1. job[w].order \in Orders
      BY <1>3 DEF Insert, IInv, JobInv
    <3> QED BY <1>3, <2>2, <3>1, IssueBook DEF Book!Next
  <2> QED BY <2>1, <2>2
<1>4. ASSUME NEW o \in Orders, SettleAndSend(o)
      PROVE  BookInv' /\ [Book!Next]_(Book!vars)
  <2>1. BookInv'
    BY <1>4 DEF SettleAndSend, IInv, TypeOK, BookInv, book
  <2>2. Pages' = Pages /\ pdfUrl' = pdfUrl
    BY <1>4 DEF SettleAndSend, Pages, book
  <2>3. PaidOrders' = PaidOrders \cup {o} \/ PaidOrders' = PaidOrders
    BY <1>4 DEF SettleAndSend, PaidOrders, IInv, TypeOK
  <2> QED BY <2>1, <2>2, <2>3 DEF Book!Pay, Book!Next, Book!vars
<1>5. CASE UNCHANGED vars
  BY <1>1, <1>5 DEF vars, book
<1> QED BY <1>2, <1>3, <1>4, <1>5, PublishBook DEF Next

LEMMA NextIInv == IInv /\ [Next]_vars => IInv'
BY TypeStep, JobsStep, BookStep DEF IInv

LEMMA IInvHolds == Spec => []IInv
BY InitIInv, NextIInv, PTL DEF Spec

-----------------------------------------------------------------------------
(* Every variable keeps its type: numbers stay below the sequence's last   *)
(* one, and a URL is stored only for a PDF that is on disk.                *)
THEOREM TypeCorrect == Spec => []TypeOK
<1>1. IInv => TypeOK
  BY DEF IInv
<1> QED BY <1>1, IInvHolds, PTL

(* However often tasks are delivered, retried, rolled back or interrupted, *)
(* the rows are a book: numbers without gaps, one for each invoiced order, *)
(* which is PAID, never changed, and at most one PDF for each.             *)
THEOREM BookImplemented == Spec => ImplementsBook
<1>1. Init => Book!Init
  <2> SUFFICES ASSUME Init PROVE Book!Init
    OBVIOUS
  <2>1. lastNumber = 0 /\ pdfUrl = {} /\ PaidOrders \subseteq Orders
    BY DEF Init, PaidOrders
  <2>2. Pages \in Seq(Orders) /\ Len(Pages) = 0
    BY <2>1, InitIInv, BookState
  <2>3. Pages = <<>>
    BY <2>2, EmptySeq, SeqEqual
  <2> QED BY <2>1, <2>3 DEF Book!Init
<1>2. IInv /\ [Next]_vars => [Book!Next]_(Book!vars)
  BY BookStep
<1> QED BY <1>1, <1>2, IInvHolds, PTL DEF Spec, ImplementsBook, Book!Spec
-----------------------------------------------------------------------------
(* Who may wait for whom                                                   *)

(* A row is held from its SELECT FOR UPDATE to the end of the transaction. *)
Held(w, x) ==
  IF x = Sequence THEN pc[w] = "insert" ELSE pc[w] \in InTransaction /\ job[w].order = x

HeldInv == \A x \in Rows, w \in Workers : rowOwner[x] = w => Held(w, x)

WaitsForWorker(v, w) ==
  \/ pc[v] = "lock_order" /\ rowOwner[job[v].order] = w
  \/ pc[v] = "lock_sequence" /\ rowOwner[Sequence] = w

LEMMA HeldKept ==
  ASSUME HeldInv, NEW w \in Workers,
         \A v \in Workers \ {w} : pc'[v] = pc[v] /\ job'[v] = job[v],
         \A x \in Rows : rowOwner'[x] \in {None, rowOwner[x], w},
         \A x \in Rows : rowOwner'[x] = w => Held(w, x)'
  PROVE  HeldInv'
<1> SUFFICES ASSUME NEW x \in Rows, NEW v \in Workers \ {w}, rowOwner'[x] = v
             PROVE  Held(v, x)'
  BY DEF HeldInv, Rows, Sequence
<1>1. rowOwner[x] = v
  BY NoneAssumption
<1> QED BY <1>1 DEF HeldInv, Held, Sequence

LEMMA StepHeld ==
  ASSUME IInv, HeldInv, NEW w \in Workers, Step(w) \/ Failure(w)
  PROVE  HeldInv'
<1>1. /\ TypeOK /\ JobInv(w)
      /\ \A v \in Workers \ {w} : pc'[v] = pc[v] /\ job'[v] = job[v]
  BY WorkerKeeps DEF IInv, StepKeeps, Frame
<1>2. CASE ReleaseRows(w)
  <2>1. \A x \in Rows : rowOwner'[x] \in {None, rowOwner[x]} /\ rowOwner'[x] # w
    BY <1>2, NoneAssumption DEF ReleaseRows
  <2> QED BY <1>1, <2>1, HeldKept
<1>3. CASE UNCHANGED rowOwner /\ pc[w] \notin InTransaction
  <2>1. \A x \in Rows : rowOwner[x] # w
    BY <1>3 DEF HeldInv, Held, InTransaction
  <2> QED BY <1>1, <1>3, <2>1, HeldKept
<1>4. CASE LockOrder(w)
  <2>1. /\ rowOwner' = [rowOwner EXCEPT ![job[w].order] = w]
        /\ pc[w] = "lock_order" /\ pc'[w] = "lock_sequence" /\ job' = job
    BY <1>1, <1>4 DEF LockOrder, Lock, Goto, TypeOK
  <2>2. job[w].order \in Orders
    BY <1>1, <2>1 DEF JobInv
  <2>3. \A x \in Rows : rowOwner[x] # w
    BY <2>1 DEF HeldInv, Held, InTransaction
  <2>4. \A x \in Rows : rowOwner'[x] = IF x = job[w].order THEN w ELSE rowOwner[x]
    BY <1>1, <2>1 DEF TypeOK
  <2>5. Held(w, job[w].order)'
    BY <2>1, <2>2, SequenceAssumption DEF Held, InTransaction, Sequence
  <2>6. \A x \in Rows : rowOwner'[x] = w => Held(w, x)'
    BY <2>1, <2>3, <2>4, <2>5
  <2> QED BY <1>1, <2>4, <2>6, HeldKept
<1>5. CASE LockSequence(w)
  <2>1. /\ rowOwner' = [rowOwner EXCEPT ![Sequence] = w]
        /\ pc[w] = "lock_sequence" /\ pc'[w] = "insert" /\ job' = job
    BY <1>1, <1>5 DEF LockSequence, Lock, Goto, TypeOK
  <2>2. \A x \in Rows : rowOwner'[x] = IF x = Sequence THEN w ELSE rowOwner[x]
    BY <1>1, <2>1 DEF TypeOK
  <2>3. \A x \in Rows : rowOwner'[x] = w => Held(w, x)'
    BY <2>1, <2>2 DEF HeldInv, Held, InTransaction, Sequence
  <2> QED BY <1>1, <2>2, <2>3, HeldKept
<1>6. CASE Redeliver(w)
  BY <1>6 DEF Redeliver, HeldInv, Held
<1> QED
  BY <1>2, <1>3, <1>4, <1>5, <1>6
     DEF Step, Failure, Deliver, LoadOrder, Find, CheckPaid, Insert, FindAgain, Render, StoreUrl,
         StepFails, Crash, TaskFails, CutShort, Retry, InTransaction

LEMMA HeldHolds == Spec => []HeldInv
<1>1. Init => HeldInv
  BY NoneAssumption DEF Init, HeldInv
<1>2. IInv /\ HeldInv /\ [Next]_vars => HeldInv'
  <2>1. ASSUME HeldInv, UNCHANGED <<pc, job, rowOwner>> PROVE HeldInv'
    BY <2>1 DEF HeldInv, Held
  <2> QED BY <2>1, StepHeld DEF Next, SettleAndSend, vars
<1> QED BY <1>1, <1>2, IInvHolds, PTL DEF Spec

(* Every invoice transaction locks its order first and the sequence last,  *)
(* which is why invoice workers never wait for one another in a circle.    *)
THEOREM InvoicesDoNotDeadlock ==
  Spec => [](\A S \in SUBSET Workers : (\A v \in S : \E w \in S : WaitsForWorker(v, w)) => S = {})
<1>1. ASSUME IInv, HeldInv, NEW S \in SUBSET Workers,
             \A v \in S : \E w \in S : WaitsForWorker(v, w), NEW s \in S
      PROVE  FALSE
  <2>1. ASSUME NEW v \in S, NEW w \in S, WaitsForWorker(v, w) PROVE pc[w] = "lock_sequence"
    <3>1. pc[v] = "lock_order" => job[v].order \in Rows
      BY <1>1 DEF IInv, JobInv, Rows
    <3>2. pc[w] \in InTransaction
      BY <1>1, <2>1, <3>1 DEF WaitsForWorker, HeldInv, Held, Rows, InTransaction
    <3> QED BY <1>1, <3>2 DEF WaitsForWorker, InTransaction
  <2>2. PICK t \in S : WaitsForWorker(s, t)
    BY <1>1
  <2>3. PICK u \in S : WaitsForWorker(t, u)
    BY <1>1
  <2>4. pc[t] = "lock_sequence" /\ pc[u] = "lock_sequence"
    BY <2>1, <2>2, <2>3
  <2>5. rowOwner[Sequence] = u
    BY <2>3, <2>4 DEF WaitsForWorker
  <2> QED BY <1>1, <2>4, <2>5 DEF HeldInv, Held, Rows
<1>2. IInv /\ HeldInv =>
        \A S \in SUBSET Workers : (\A v \in S : \E w \in S : WaitsForWorker(v, w)) => S = {}
  BY <1>1
<1> QED BY <1>2, IInvHolds, HeldHolds, PTL
=============================================================================
