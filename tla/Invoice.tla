------------------------------ MODULE Invoice ------------------------------
(***************************************************************************)
(* Invoices of one tenant: InvoiceService (apps/invoice/services.py) and   *)
(* the generate_invoice task (apps/invoice/tasks.py), run by the Celery    *)
(* workers of the invoices queue.  The number and the row are committed    *)
(* first, the PDF is rendered after that, and its URL is stored last; a    *)
(* row without a URL tells the next delivery where to go on.               *)
(***************************************************************************)
EXTENDS Naturals

CONSTANTS
  Orders, Workers,
  MaxRetries,   \* max_retries of the task
  MaxFaults,    \* bound: crashes, repeated deliveries, failing statements
  None

ASSUME NoneAssumption == None \notin Orders \cup Workers

ASSUME RetryAssumption == MaxRetries \in Nat /\ MaxFaults \in Nat

VARIABLES
  orderStatus,
  tasks,       \* copies of each order's task that wait, by retries so far
  pc, job,     \* what a worker executes, and for which order
  rowOwner,    \* the worker whose open transaction locks the row, or None
  lastNumber,  \* InvoiceSequence.last_number; the row itself appears with 1
  next,        \* the number a worker's transaction has taken
  number,      \* Invoice.number of each order, 0 without an invoice
  pdfUrl,      \* orders whose invoice has a pdf_url
  files,       \* orders whose PDF is on disk
  failed,      \* orders with a task that ended in failure
  faults

vars == <<orderStatus, tasks, pc, job, rowOwner, lastNumber, next, number, pdfUrl,
          files, failed, faults>>
book == <<lastNumber, next, number, pdfUrl, files>>

Sequence == "sequence"
Rows == Orders \cup {Sequence}

ASSUME SequenceAssumption == Sequence \notin Orders

Phases == {"idle", "load", "find", "check_paid", "lock_order", "lock_sequence",
           "insert", "find_again", "render", "store"}

NoJob == [order |-> None, tries |-> 0]

Init ==
  /\ orderStatus = [o \in Orders |-> "PENDING_PAYMENT"]
  /\ tasks = [o \in Orders |-> [n \in 0..MaxRetries |-> 0]]
  /\ pc = [w \in Workers |-> "idle"]
  /\ job = [w \in Workers |-> NoJob]
  /\ rowOwner = [x \in Rows |-> None]
  /\ lastNumber = 0
  /\ next = [w \in Workers |-> 0]
  /\ number = [o \in Orders |-> 0]
  /\ pdfUrl = {}
  /\ files = {}
  /\ failed = {}
  /\ faults = 0

-----------------------------------------------------------------------------
Goto(w, phase) == pc' = [pc EXCEPT ![w] = phase] /\ UNCHANGED job
Rest(w) == pc' = [pc EXCEPT ![w] = "idle"] /\ job' = [job EXCEPT ![w] = NoJob]

Free(row) == rowOwner[row] = None
Lock(w, row) == Free(row) /\ rowOwner' = [rowOwner EXCEPT ![row] = w]
ReleaseRows(w) == rowOwner' = [x \in Rows |-> IF rowOwner[x] = w THEN None ELSE rowOwner[x]]

Send(o, tries) == tasks' = [tasks EXCEPT ![o][tries] = @ + 1]

(* The task ended in failure, and nobody sends it again. *)
GiveUp(w) == failed' = failed \cup {job[w].order} /\ UNCHANGED tasks

(* raise self.retry: the exception ends this run and sends the next one.   *)
Retry(w) ==
  LET n == job[w].tries IN
  /\ \/ n < MaxRetries /\ Send(job[w].order, n + 1) /\ UNCHANGED failed
     \/ n = MaxRetries /\ GiveUp(w)
  /\ ReleaseRows(w)
  /\ Rest(w)

(* A worker takes a task. *)
Deliver(w) ==
  /\ pc[w] = "idle"
  /\ \E o \in Orders, n \in 0..MaxRetries :
       /\ tasks[o][n] > 0
       /\ tasks' = [tasks EXCEPT ![o][n] = @ - 1]
       /\ job' = [job EXCEPT ![w] = [order |-> o, tries |-> n]]
  /\ pc' = [pc EXCEPT ![w] = "load"]
  /\ UNCHANGED <<orderStatus, rowOwner, book, failed, faults>>

(* The task reads its order for the tenant: in front of the try that       *)
(* retries, so that an error here ends the task (TaskFails).               *)
LoadOrder(w) ==
  /\ pc[w] = "load"
  /\ Goto(w, "find")
  /\ UNCHANGED <<orderStatus, tasks, rowOwner, book, failed, faults>>

(* Mutation: an invoice that exists counts as complete. *)
FindIgnoringUrl(w) ==
  /\ pc[w] = "find"
  /\ IF number[job[w].order] = 0 THEN Goto(w, "check_paid") ELSE Rest(w)
  /\ UNCHANGED <<orderStatus, tasks, rowOwner, book, failed, faults>>

(* Step 1: is there an invoice, and is it complete? *)
Find(w) ==
  LET o == job[w].order IN
  /\ pc[w] = "find"
  /\ \/ number[o] = 0 /\ Goto(w, "check_paid")
     \/ number[o] # 0 /\ o \in pdfUrl /\ Rest(w)
     \/ number[o] # 0 /\ o \notin pdfUrl /\ Goto(w, "render")
  /\ UNCHANGED <<orderStatus, tasks, rowOwner, book, failed, faults>>

(* Step 2: OrderNotPaid is retried like any other exception. *)
CheckPaid(w) ==
  LET paid == orderStatus[job[w].order] = "PAID" IN
  /\ pc[w] = "check_paid"
  /\ \/ paid /\ Goto(w, "lock_order") /\ UNCHANGED <<tasks, rowOwner, failed>>
     \/ ~paid /\ Retry(w)
  /\ UNCHANGED <<orderStatus, book, faults>>

(* Step 3, one transaction: lock the order, then the tenant's sequence row *)
(* (or insert it, which waits for a concurrent insert all the same).       *)
LockOrder(w) ==
  /\ pc[w] = "lock_order"
  /\ Lock(w, job[w].order)
  /\ Goto(w, "lock_sequence")
  /\ UNCHANGED <<orderStatus, tasks, book, failed, faults>>

LockSequence(w) ==
  /\ pc[w] = "lock_sequence"
  /\ Lock(w, Sequence)
  /\ next' = [next EXCEPT ![w] = lastNumber + 1]
  /\ Goto(w, "insert")
  /\ UNCHANGED <<orderStatus, tasks, lastNumber, number, pdfUrl, files, failed, faults>>

(* The unique indexes: one invoice per order, one use of a number. *)
Taken(w) == number[job[w].order] # 0 \/ \E o \in Orders : number[o] = next[w]

(* Mutation: the sequence row is not saved. *)
InsertWithoutSave(w) ==
  /\ pc[w] = "insert"
  /\ ~Taken(w)
  /\ number' = [number EXCEPT ![job[w].order] = next[w]]
  /\ Goto(w, "render")
  /\ ReleaseRows(w)
  /\ UNCHANGED <<orderStatus, tasks, lastNumber, next, pdfUrl, files, failed, faults>>

(* Mutation: the number is taken in a transaction of its own. *)
InsertKeepsNumber(w) ==
  /\ pc[w] = "insert"
  /\ lastNumber' = next[w]
  /\ IF Taken(w)
       THEN UNCHANGED number /\ Goto(w, "find_again")
       ELSE number' = [number EXCEPT ![job[w].order] = next[w]] /\ Goto(w, "render")
  /\ ReleaseRows(w)
  /\ UNCHANGED <<orderStatus, tasks, next, pdfUrl, files, failed, faults>>

(* Save the sequence and insert the row, committed together; an            *)
(* IntegrityError takes both back.                                         *)
Insert(w) ==
  /\ pc[w] = "insert"
  /\ \/ /\ ~Taken(w)
        /\ lastNumber' = next[w]
        /\ number' = [number EXCEPT ![job[w].order] = next[w]]
        /\ Goto(w, "render")
     \/ /\ Taken(w)
        /\ Goto(w, "find_again")
        /\ UNCHANGED <<lastNumber, number>>
  /\ ReleaseRows(w)
  /\ UNCHANGED <<orderStatus, tasks, next, pdfUrl, files, failed, faults>>

(* After an IntegrityError the winner's invoice is read; without one the   *)
(* read itself raises.                                                     *)
FindAgain(w) ==
  LET o == job[w].order IN
  /\ pc[w] = "find_again"
  /\ \/ number[o] = 0 /\ Retry(w)
     \/ /\ number[o] # 0
        /\ IF o \in pdfUrl THEN Rest(w) ELSE Goto(w, "render")
        /\ UNCHANGED <<tasks, rowOwner, failed>>
  /\ UNCHANGED <<orderStatus, book, faults>>

(* Step 4: the PDF is written, outside any transaction. *)
Render(w) ==
  /\ pc[w] = "render"
  /\ files' = files \cup {job[w].order}
  /\ Goto(w, "store")
  /\ UNCHANGED <<orderStatus, tasks, rowOwner, lastNumber, next, number, pdfUrl, failed, faults>>

(* Step 5: UPDATE invoice SET pdf_url WHERE pdf_url = ''; the task ends.   *)
StoreUrl(w) ==
  /\ pc[w] = "store"
  /\ pdfUrl' = pdfUrl \cup {job[w].order}
  /\ Rest(w)
  /\ UNCHANGED <<orderStatus, tasks, rowOwner, lastNumber, next, number, files, failed, faults>>

-----------------------------------------------------------------------------
(* The environment *)

Fault == faults < MaxFaults /\ faults' = faults + 1

(* A statement of the service or the renderer raises: retried, the         *)
(* transaction is gone.                                                    *)
StepFails(w) ==
  /\ Fault
  /\ pc[w] \notin {"idle", "load"}
  /\ Retry(w)
  /\ UNCHANGED <<orderStatus, book>>

(* A run is cut short, and its transaction with it. *)
CutShort(w) ==
  /\ Fault
  /\ pc[w] # "idle"
  /\ ReleaseRows(w)
  /\ Rest(w)
  /\ UNCHANGED <<orderStatus, book>>

(* The whole worker goes down: the broker gives its task to another.       *)
Crash(w) ==
  /\ CutShort(w)
  /\ Send(job[w].order, job[w].tries)
  /\ UNCHANGED failed

(* The message is acknowledged, and nothing sent again: one process of the *)
(* worker's pool is killed (WorkerLostError: there is acks_late, but no    *)
(* task_reject_on_worker_lost), the task's own read of its order raises,   *)
(* or the broker refuses the retry of another error.                       *)
TaskFails(w) == CutShort(w) /\ GiveUp(w)

(* The broker hands the task out again while a worker has it. *)
Redeliver(w) ==
  /\ Fault
  /\ pc[w] # "idle"
  /\ Send(job[w].order, job[w].tries)
  /\ UNCHANGED <<orderStatus, pc, job, rowOwner, book, failed>>

(* The payment service sends a task, once the order is settled. *)
SettleAndSend(o) ==
  /\ orderStatus[o] = "PENDING_PAYMENT"
  /\ \E status \in {"PAID", "FAILED"} : orderStatus' = [orderStatus EXCEPT ![o] = status]
  /\ Send(o, 0)
  /\ UNCHANGED <<pc, job, rowOwner, book, failed, faults>>

-----------------------------------------------------------------------------
Step(w) ==
  \/ Deliver(w) \/ LoadOrder(w) \/ Find(w) \/ CheckPaid(w) \/ LockOrder(w)
  \/ LockSequence(w) \/ Insert(w) \/ FindAgain(w) \/ Render(w) \/ StoreUrl(w)

Failure(w) == StepFails(w) \/ Crash(w) \/ TaskFails(w) \/ Redeliver(w)

Next ==
  \/ \E w \in Workers : Step(w) \/ Failure(w)
  \/ \E o \in Orders : SettleAndSend(o)

Spec == Init /\ [][Next]_vars

-----------------------------------------------------------------------------
(* Properties *)

TypeOK ==
  /\ orderStatus \in [Orders -> {"PENDING_PAYMENT", "PAID", "FAILED"}]
  /\ tasks \in [Orders -> [0..MaxRetries -> Nat]]
  /\ pc \in [Workers -> Phases]
  /\ job \in [Workers -> [order : Orders \cup {None}, tries : 0..MaxRetries]]
  /\ rowOwner \in [Rows -> Workers \cup {None}]
  /\ lastNumber \in Nat
  /\ next \in [Workers -> Nat]
  /\ number \in [Orders -> 0..lastNumber]
  /\ pdfUrl \subseteq files
  /\ files \subseteq Orders
  /\ failed \subseteq Orders
  /\ faults \in 0..MaxFaults

(* The book the rows spell: page n is the order with number n, a gap in    *)
(* the numbers a blank page.                                               *)
Pages ==
  [n \in 1..lastNumber |->
     IF \E o \in Orders : number[o] = n THEN CHOOSE o \in Orders : number[o] = n ELSE None]
PaidOrders == {o \in Orders : orderStatus[o] = "PAID"}

Book == INSTANCE InvoiceBook WITH book <- Pages, printed <- pdfUrl, paid <- PaidOrders

(* Gap-free, monotonic numbers, one invoice per PAID order, never changed: *)
(* whatever is delivered twice, rolled back, raced for or interrupted.     *)
ImplementsBook == Book!Spec
=============================================================================
