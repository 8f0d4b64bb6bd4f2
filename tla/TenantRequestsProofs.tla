------------------------ MODULE TenantRequestsProofs ------------------------
(***************************************************************************)
(* Proofs about TenantRequests, for any number of workers, tenants and     *)
(* products, any limit, any mix of requests and tasks, and any failures.   *)
(***************************************************************************)
EXTENDS TenantRequests, FiniteSetTheorems, TLAPS

InTransaction == {"demote", "insert", "commit"}

(* Outside its request a worker has no tenant; inside it has the tenant of *)
(* its job, and the value to go back to is "none".                         *)
ContextInv(w) ==
  /\ token[w] = None
  /\ pc[w] \in {"idle", "resolve", "task"} => context[w] = None /\ touched[w] = {}
  /\ pc[w] \notin {"idle", "resolve", "task"} =>
       IF job[w].kind = "exempt" THEN context[w] = None /\ touched[w] = {}
                                 ELSE context[w] = job[w].tenant /\ context[w] # None
  /\ touched[w] \subseteq {job[w].tenant}
  /\ pc[w] = "task" => job[w].kind = "authorize"
  /\ pc[w] = "throttle" => job[w].kind = "add_product"
  /\ pc[w] \in InTransaction => job[w].kind = "add_address"
  /\ pc[w] = "idle" <=> job[w] = NoJob

(* A window counts every request it lets through. *)
WindowInv == \A t \in Tenants : admitted[t] <= count[t] /\ admitted[t] <= Limit

(* A transaction touches the one row it found and the one it inserts.      *)
BookInv(w) ==
  /\ found[w] # None => owner[found[w]] = context[w]
  /\ demoted[w] \subseteq {found[w]} \cap Addresses
  /\ found[w] # None \/ demoted[w] # {} => pc[w] \in InTransaction /\ job[w].arg = "default"
  /\ pc[w] = "demote" => job[w].arg = "default" /\ demoted[w] = {}
  /\ inserted[w] # None <=> pc[w] = "commit"
  /\ inserted[w] # None =>
       /\ owner[inserted[w]] = None
       /\ \A v \in Workers \ {w} : inserted[v] # inserted[w]

(* It is about to commit the next default of its customer. *)
Committing(w) == pc[w] = "commit" /\ job[w].arg = "default"

(* The unique index: only one does so at a time, and it demotes the row    *)
(* that is the default until then.                                         *)
IndexInv(w) ==
  Committing(w) =>
    /\ DefaultsOf(context[w]) \subseteq demoted[w]
    /\ \A v \in Workers \ {w} : Committing(v) => context[v] # context[w]

WorkerInv(w) == ContextInv(w) /\ BookInv(w) /\ IndexInv(w)

IInv == TypeOK /\ WindowInv /\ \A w \in Workers : WorkerInv(w)

-----------------------------------------------------------------------------
LEMMA Constants ==
  /\ None \notin Tenants /\ None \notin Workers /\ None \notin Addresses
  /\ Limit \in Nat /\ MaxCount \in Nat /\ Limit < MaxCount
  /\ MaxFaults \in Nat
  /\ \A a \in Addresses : a \in Nat
  BY TenantAssumption DEF Addresses

LEMMA JobTenant ==
  ASSUME NEW j \in Requests \cup {NoJob}, j # NoJob
  PROVE  /\ j.kind \in {"add_product", "add_address", "exempt", "authorize"}
         /\ j.kind \in {"add_address", "authorize"} => j.tenant \in Tenants
         /\ j.tenant \in Tenants \cup {None}
         /\ j.kind = "exempt" => j.tenant = None
  BY DEF Requests, NoJob

LEMMA InitIInv == Init => IInv
<1> SUFFICES ASSUME Init PROVE IInv
  OBVIOUS
<1>1. TypeOK
  BY Constants DEF Init, TypeOK
<1>2. WindowInv
  BY Constants DEF Init, WindowInv
<1>3. ASSUME NEW w \in Workers PROVE WorkerInv(w)
  BY <1>3, Constants
     DEF Init, WorkerInv, ContextInv, BookInv, IndexInv, Committing, InTransaction
<1> QED BY <1>1, <1>2, <1>3 DEF IInv

-----------------------------------------------------------------------------
LEMMA TypeInductive == IInv /\ [Next]_vars => TypeOK'
<1> SUFFICES ASSUME IInv, [Next]_vars PROVE TypeOK'
  OBVIOUS
<1> USE Constants DEF TypeOK, Goto, Rest, EndTransaction, Enter, transaction, book, window
<1>0. TypeOK /\ \A w \in Workers : ContextInv(w) /\ BookInv(w)
  BY DEF IInv, WorkerInv
<1>1. ASSUME NEW w \in Workers, Begin(w) PROVE TypeOK'
  <2>1. \A j \in Jobs : j \in Requests
    BY TenantAssumption
  <2> QED BY <1>0, <1>1, <2>1 DEF Begin
<1>2. ASSUME NEW w \in Workers, Step(w) PROVE TypeOK'
  <2>1. CASE Resolve(w)
    <3>1. job[w].tenant \in Tenants \cup {None}
      BY <1>0, <2>1, JobTenant DEF Resolve, ContextInv
    <3> QED BY <1>0, <2>1, <3>1 DEF Resolve
  <2>2. CASE EnterTask(w)
    <3>1. job[w].tenant \in Tenants \cup {None}
      BY <1>0, <2>2, JobTenant DEF EnterTask, ContextInv
    <3> QED BY <1>0, <2>2, <3>1 DEF EnterTask
  <2>3. CASE Throttle(w)
    <3>1. context[w] \in Tenants
      BY <1>0, <2>3 DEF Throttle, ContextInv
    <3> QED BY <1>0, <2>3, <3>1 DEF Throttle, Counted
  <2>4. CASE ContextMissing(w)
    BY <1>0, <2>4 DEF ContextMissing
  <2>5. CASE Serve(w)
    BY <1>0, <2>5 DEF Serve, Touch
  <2>6. CASE OpenAddressBook(w)
    BY <1>0, <2>6 DEF OpenAddressBook, Touch
  <2>7. CASE DemoteDefault(w)
    BY <1>0, <2>7 DEF DemoteDefault
  <2>8. CASE InsertAddress(w)
    BY <1>0, <2>8 DEF InsertAddress
  <2>9. CASE CommitAddress(w)
    BY <1>0, <2>9 DEF CommitAddress, BookInv, ContextInv, InTransaction
  <2>10. CASE Leave(w)
    BY <1>0, <2>10 DEF Leave
  <2> QED BY <1>2, <2>1, <2>2, <2>3, <2>4, <2>5, <2>6, <2>7, <2>8, <2>9, <2>10 DEF Step
<1>3. ASSUME NEW w \in Workers, StepFails(w) PROVE TypeOK'
  <2>1. pc[w] = "throttle" => context[w] \in Tenants
    BY <1>0 DEF ContextInv
  <2>2. /\ count' \in [Tenants -> 0..MaxCount]
        /\ ttl' \subseteq Tenants
        /\ admitted' \in [Tenants -> Nat]
    BY <1>0, <1>3, <2>1 DEF StepFails, Counted
  <2> QED BY <1>0, <1>3, <2>2 DEF StepFails, Fault
<1>4. ASSUME NEW w \in Workers, Crash(w) PROVE TypeOK'
  BY <1>0, <1>4 DEF Crash, Fault
<1>5. ASSUME NEW t \in Tenants, EndWindow(t) PROVE TypeOK'
  BY <1>0, <1>5 DEF EndWindow
<1>6. CASE UNCHANGED vars
  BY <1>0, <1>6 DEF vars
<1> QED BY <1>1, <1>2, <1>3, <1>4, <1>5, <1>6 DEF Next

-----------------------------------------------------------------------------
LEMMA WindowInductive == IInv /\ [Next]_vars => WindowInv'
<1> SUFFICES ASSUME IInv, [Next]_vars PROVE WindowInv'
  OBVIOUS
<1> USE Constants DEF WindowInv
<1>0. /\ WindowInv /\ \A w \in Workers : ContextInv(w)
      /\ count \in [Tenants -> 0..MaxCount] /\ admitted \in [Tenants -> Nat]
      /\ context \in [Workers -> Tenants \cup {None}]
  BY DEF IInv, WorkerInv, TypeOK
<1>1. CASE UNCHANGED window
  BY <1>0, <1>1 DEF window
<1>2. ASSUME NEW w \in Workers, Throttle(w) PROVE WindowInv'
  <2>1. context[w] \in Tenants
    BY <1>0, <1>2 DEF Throttle, ContextInv
  <2> QED BY <1>0, <1>2, <2>1 DEF Throttle, Counted
<1>3. ASSUME NEW w \in Workers, StepFails(w) PROVE WindowInv'
  <2>1. pc[w] = "throttle" => context[w] \in Tenants
    BY <1>0 DEF ContextInv
  <2> QED BY <1>0, <1>1, <1>3, <2>1 DEF StepFails, Counted
<1>4. ASSUME NEW t \in Tenants, EndWindow(t) PROVE WindowInv'
  BY <1>0, <1>4 DEF EndWindow
<1> QED BY <1>1, <1>2, <1>3, <1>4 DEF Next, Step, Begin, Resolve, EnterTask, ContextMissing, Serve,
       OpenAddressBook, DemoteDefault, InsertAddress, CommitAddress, Leave, Crash, vars, window

-----------------------------------------------------------------------------
(* Every step of a worker concerns its own job and context only.           *)
LEMMA OwnContext ==
  ASSUME IInv, NEW w \in Workers, Begin(w) \/ Step(w) \/ StepFails(w) \/ Crash(w)
  PROVE  /\ ContextInv(w)'
         /\ \A v \in Workers \ {w} :
              /\ pc'[v] = pc[v] /\ job'[v] = job[v] /\ context'[v] = context[v]
              /\ token'[v] = token[v] /\ touched'[v] = touched[v]
              /\ found'[v] = found[v] /\ demoted'[v] = demoted[v] /\ inserted'[v] = inserted[v]
<1> USE Constants DEF TypeOK, Goto, Rest, EndTransaction, Enter, transaction, ContextInv,
        InTransaction
<1>0. TypeOK /\ ContextInv(w)
  BY DEF IInv, WorkerInv
<1>1. CASE Begin(w)
  <2>1. \A j \in Jobs : j \in Requests /\ j # NoJob
    BY TenantAssumption DEF Requests, NoJob
  <2> QED BY <1>0, <1>1, <2>1 DEF Begin
<1>2. CASE Resolve(w)
  BY <1>0, <1>2, JobTenant DEF Resolve
<1>3. CASE EnterTask(w)
  BY <1>0, <1>3, JobTenant DEF EnterTask
<1>4. CASE Throttle(w)
  BY <1>0, <1>4 DEF Throttle
<1>5. CASE ContextMissing(w)
  BY <1>0, <1>5 DEF ContextMissing
<1>6. CASE Serve(w)
  BY <1>0, <1>6 DEF Serve, Touch
<1>7. CASE OpenAddressBook(w)
  BY <1>0, <1>7 DEF OpenAddressBook, Touch
<1>8. CASE DemoteDefault(w)
  BY <1>0, <1>8 DEF DemoteDefault
<1>9. CASE InsertAddress(w)
  BY <1>0, <1>9 DEF InsertAddress
<1>10. CASE CommitAddress(w)
  BY <1>0, <1>10 DEF CommitAddress
<1>11. CASE Leave(w)
  BY <1>0, <1>11 DEF Leave
<1>12. CASE StepFails(w)
  BY <1>0, <1>12 DEF StepFails
<1>13. CASE Crash(w)
  BY <1>0, <1>13 DEF Crash
<1> QED BY <1>1, <1>2, <1>3, <1>4, <1>5, <1>6, <1>7, <1>8, <1>9, <1>10, <1>11, <1>12, <1>13
        DEF Step

-----------------------------------------------------------------------------
(* Rows change owner only from none, when they are committed. *)
LEMMA OwnersGrow ==
  ASSUME IInv, [Next]_vars
  PROVE  \/ UNCHANGED book
         \/ \E w \in Workers : CommitAddress(w)
  BY DEF Next, Step, Begin, Resolve, EnterTask, Throttle, ContextMissing, Serve, OpenAddressBook,
         DemoteDefault, InsertAddress, Leave, StepFails, Crash, EndWindow, vars, book

(* A worker that is in its transaction is one of the customer's there.     *)
LEMMA InTenant ==
  ASSUME IInv, NEW w \in Workers, pc[w] \in InTransaction
  PROVE  job[w].kind = "add_address" /\ context[w] = job[w].tenant /\ context[w] \in Tenants
  BY Constants DEF IInv, WorkerInv, ContextInv, InTransaction, TypeOK

LEMMA OthersBook ==
  ASSUME IInv, NEW w \in Workers, Begin(w) \/ Step(w) \/ StepFails(w) \/ Crash(w),
         NEW v \in Workers \ {w}
  PROVE  BookInv(v)'
<1>1. /\ pc'[v] = pc[v] /\ job'[v] = job[v] /\ context'[v] = context[v]
      /\ found'[v] = found[v] /\ demoted'[v] = demoted[v] /\ inserted'[v] = inserted[v]
  BY OwnContext
<1>2. BookInv(v) /\ BookInv(w) /\ TypeOK
  BY DEF IInv, WorkerInv
<1>3. \A u \in Workers \ {v} : inserted[v] # None => inserted'[u] # inserted[v]
  <2> SUFFICES ASSUME inserted[v] # None PROVE inserted'[w] # inserted[v]
    BY <1>2, OwnContext DEF BookInv
  <2>1. CASE InsertAddress(w)
    BY <1>2, <2>1, Constants DEF InsertAddress, IsNextAddress, Unused, EndTransaction, TypeOK
  <2>2. inserted'[w] \in {inserted[w], None} \/ InsertAddress(w)
    BY <1>2 DEF TypeOK, Begin, Step, Resolve, EnterTask, Throttle, ContextMissing, Serve, OpenAddressBook,
       DemoteDefault, CommitAddress, Leave, StepFails, Crash, EndTransaction, transaction
  <2> QED BY <1>2, <2>1, <2>2 DEF BookInv
<1>4. CASE UNCHANGED owner
  BY <1>1, <1>2, <1>3, <1>4 DEF BookInv
<1>5. CASE CommitAddress(w)
  <2>1. owner' = [owner EXCEPT ![inserted[w]] = context[w]]
    BY <1>5 DEF CommitAddress
  <2>2. owner[inserted[w]] = None
    BY <1>2, <1>5, Constants DEF CommitAddress, BookInv
  <2>3. found[v] # None => found[v] # inserted[w]
    <3> SUFFICES ASSUME found[v] # None PROVE owner[found[v]] # None
      BY <2>2
    <3>1. pc[v] \in InTransaction /\ owner[found[v]] = context[v]
      BY <1>2 DEF BookInv
    <3> QED BY <3>1, InTenant, Constants
  <2>4. inserted[v] # None => inserted[v] # inserted[w]
    BY <1>2 DEF BookInv
  <2>5. /\ found[v] # None => owner'[found[v]] = owner[found[v]]
        /\ inserted[v] # None => owner'[inserted[v]] = owner[inserted[v]]
    BY <1>2, <2>1, <2>3, <2>4 DEF TypeOK
  <2> QED BY <1>1, <1>2, <1>3, <2>5 DEF BookInv
<1> QED BY <1>4, <1>5, OwnersGrow
   DEF Step, Begin, Resolve, EnterTask, Throttle, ContextMissing, Serve, OpenAddressBook,
       DemoteDefault, InsertAddress, Leave, StepFails, Crash, book

LEMMA OwnBook ==
  ASSUME IInv, NEW w \in Workers, Begin(w) \/ Step(w) \/ StepFails(w) \/ Crash(w)
  PROVE  BookInv(w)'
<1> USE Constants DEF TypeOK, Goto, Rest, EndTransaction, Enter, transaction, book, BookInv, InTransaction
<1>0. TypeOK /\ ContextInv(w) /\ BookInv(w)
  BY DEF IInv, WorkerInv
<1>1. \A v \in Workers \ {w} : inserted'[v] = inserted[v]
  BY OwnContext
<1>2. CASE Begin(w)
  BY <1>0, <1>1, <1>2 DEF Begin
<1>3. CASE Resolve(w) \/ EnterTask(w) \/ Throttle(w) \/ ContextMissing(w) \/ Serve(w)
  BY <1>0, <1>1, <1>3 DEF Resolve, EnterTask, Throttle, ContextMissing, Serve
<1>4. CASE OpenAddressBook(w)
  <2>1. found'[w] # None => owner[found'[w]] = context[w]
    BY <1>0, <1>4 DEF OpenAddressBook
  <2>2. demoted'[w] = {} /\ inserted'[w] = None
    BY <1>0, <1>4 DEF OpenAddressBook
  <2>3. /\ pc'[w] \in {"demote", "insert"} /\ job' = job /\ owner' = owner /\ context' = context
        /\ pc'[w] = "demote" => job[w].arg = "default"
        /\ found'[w] # None => job[w].arg = "default"
    BY <1>0, <1>4 DEF OpenAddressBook
  <2> QED BY <2>1, <2>2, <2>3
<1>5. CASE DemoteDefault(w)
  BY <1>0, <1>1, <1>5 DEF DemoteDefault
<1>6. CASE InsertAddress(w)
  <2>1. CASE EndTransaction(w) /\ Goto(w, "leave")
    BY <1>0, <1>1, <1>6, <2>1 DEF InsertAddress
  <2>2. ASSUME NEW a \in Addresses, IsNextAddress(a), inserted' = [inserted EXCEPT ![w] = a],
               Goto(w, "commit"), UNCHANGED <<found, demoted>>
        PROVE  BookInv(w)'
    <3>1. inserted'[w] = a /\ a # None /\ owner[a] = None /\ pc'[w] = "commit"
      BY <1>0, <2>2 DEF IsNextAddress, Unused
    <3>2. \A v \in Workers \ {w} : inserted'[v] # a
      BY <1>1, <2>2 DEF IsNextAddress, Unused
    <3>3. UNCHANGED <<job, context, owner>>
      BY <1>6 DEF InsertAddress
    <3> QED BY <1>0, <1>6, <2>2, <3>1, <3>2, <3>3 DEF InsertAddress
  <2> QED BY <1>6, <2>1, <2>2 DEF InsertAddress
<1>7. CASE CommitAddress(w)
  BY <1>0, <1>1, <1>7 DEF CommitAddress
<1>8. CASE Leave(w)
  BY <1>0, <1>1, <1>8 DEF Leave
<1>9. CASE StepFails(w)
  BY <1>0, <1>1, <1>9 DEF StepFails
<1>10. CASE Crash(w)
  BY <1>0, <1>1, <1>10 DEF Crash
<1> QED BY <1>2, <1>3, <1>4, <1>5, <1>6, <1>7, <1>8, <1>9, <1>10 DEF Step

-----------------------------------------------------------------------------
(* A commit changes the defaults of its own customer alone, and for a new  *)
(* default there is no other one left.                                     *)
LEMMA CommitDefaults ==
  ASSUME IInv, NEW w \in Workers, CommitAddress(w), NEW t \in Tenants
  PROVE  DefaultsOf(t)' = IF Committing(w) /\ t = context[w] THEN {inserted[w]} ELSE DefaultsOf(t)
<1> DEFINE new == inserted[w]
<1>1. /\ TypeOK /\ BookInv(w) /\ IndexInv(w)
      /\ context[w] \in Tenants
      /\ pc[w] = "commit"
  BY InTenant DEF IInv, WorkerInv, CommitAddress, InTransaction
<1>2. new # None /\ new \in Addresses /\ owner[new] = None /\ new \notin defaults
  BY <1>1, Constants DEF BookInv, TypeOK
<1>3. owner' = [owner EXCEPT ![new] = context[w]]
  BY DEF CommitAddress
<1>4. \A a \in demoted[w] : owner[a] = context[w]
  BY <1>1, Constants DEF BookInv
<1>5. CASE Committing(w)
  <2>1. defaults' = (defaults \ demoted[w]) \cup {new}
    BY <1>5 DEF CommitAddress, Committing
  <2>2. CASE t = context[w]
    <3>1. DefaultsOf(t) \subseteq demoted[w]
      BY <1>1, <1>5, <2>2 DEF IndexInv
    <3> QED BY <1>1, <1>2, <1>3, <1>5, <2>1, <2>2, <3>1 DEF DefaultsOf, TypeOK
  <2>3. CASE t # context[w]
    BY <1>1, <1>2, <1>3, <1>4, <2>1, <2>3 DEF DefaultsOf, TypeOK
  <2> QED BY <2>2, <2>3
<1>6. CASE ~Committing(w)
  <2>1. demoted[w] = {}
    BY <1>1, <1>6 DEF BookInv, Committing
  <2>2. defaults' = defaults
    BY <1>1, <1>6, <2>1 DEF CommitAddress, Committing
  <2> QED BY <1>1, <1>2, <1>3, <1>6, <2>2 DEF DefaultsOf, TypeOK
<1> QED BY <1>5, <1>6

(* INSERT of a default: the index lets it pass only when the row that is   *)
(* the default is the one it has demoted, and nobody else is ahead of it.  *)
LEMMA InsertIndex ==
  ASSUME IInv, NEW w \in Workers, InsertAddress(w), Committing(w)'
  PROVE  /\ DefaultsOf(context[w]) \subseteq demoted[w]
         /\ \A v \in Workers \ {w} : Committing(v) => context[v] # context[w]
         /\ demoted' = demoted /\ context' = context
<1>1. TypeOK /\ \A v \in Workers : BookInv(v) /\ ContextInv(v)
  BY DEF IInv, WorkerInv
<1>2. ~Pending(w) /\ ~Taken(w) /\ demoted' = demoted /\ UNCHANGED <<job, context>>
  BY <1>1 DEF InsertAddress, Committing, Goto, TypeOK
<1>3. ASSUME NEW a \in DefaultsOf(context[w]), a \notin demoted[w] PROVE FALSE
  <2>1. Locked(w, a)
    BY <1>2, <1>3 DEF Taken, DefaultsOf
  <2>2. PICK v \in Workers \ {w} : a \in demoted[v]
    BY <2>1 DEF Locked
  <2>3. a = found[v] /\ found[v] # None /\ owner[a] = context[v] /\ job[v].arg = "default"
    BY <1>1, <2>2, Constants DEF BookInv
  <2>4. context[v] = context[w]
    BY <1>3, <2>3 DEF DefaultsOf
  <2> QED BY <1>2, <2>2, <2>3, <2>4 DEF Pending
<1>4. ASSUME NEW v \in Workers \ {w}, Committing(v), context[v] = context[w] PROVE FALSE
  <2>1. inserted[v] # None
    BY <1>1, <1>4 DEF Committing, BookInv
  <2> QED BY <1>2, <1>4, <2>1 DEF Pending, Committing
<1> QED BY <1>2, <1>3, <1>4

LEMMA IndexInductive ==
  ASSUME IInv, NEW w \in Workers, Begin(w) \/ Step(w) \/ StepFails(w) \/ Crash(w),
         NEW u \in Workers
  PROVE  IndexInv(u)'
<1> SUFFICES ASSUME Committing(u)'
             PROVE  /\ DefaultsOf(context[u])' \subseteq demoted'[u]
                    /\ \A v \in Workers \ {u} : Committing(v)' => context'[v] # context'[u]
  BY DEF IndexInv
<1>1. TypeOK /\ \A v \in Workers : BookInv(v) /\ ContextInv(v) /\ IndexInv(v)
  BY DEF IInv, WorkerInv
<1>2. \A v \in Workers \ {w} :
        /\ Committing(v)' = Committing(v) /\ context'[v] = context[v]
        /\ demoted'[v] = demoted[v]
  BY OwnContext DEF Committing
<1>3. Committing(w)' => InsertAddress(w)
  BY <1>1 DEF Committing, TypeOK, Begin, Step, Resolve, EnterTask, Throttle, ContextMissing, Serve,
     OpenAddressBook, DemoteDefault, CommitAddress, Leave, StepFails, Crash, Goto, Rest
<1>4. CASE u = w
  <2>1. /\ DefaultsOf(context[w]) \subseteq demoted[w]
        /\ \A v \in Workers \ {w} : Committing(v) => context[v] # context[w]
        /\ demoted' = demoted /\ context' = context
    BY <1>3, <1>4, InsertIndex
  <2>2. DefaultsOf(context[w])' = DefaultsOf(context[w])
    BY <1>3, <1>4, <2>1 DEF InsertAddress, book, DefaultsOf
  <2> QED BY <1>2, <1>4, <2>1, <2>2
<1>5. CASE u # w
  <2>1. Committing(u) /\ context[u] \in Tenants /\ context'[u] = context[u]
        /\ demoted'[u] = demoted[u]
    BY <1>2, <1>5, InTenant DEF Committing, InTransaction
  <2>2. /\ DefaultsOf(context[u]) \subseteq demoted[u]
        /\ \A v \in Workers \ {u} : Committing(v) => context[v] # context[u]
    BY <1>1, <2>1 DEF IndexInv
  <2>3. DefaultsOf(context[u])' = DefaultsOf(context[u])
    <3>1. CASE UNCHANGED book
      BY <2>1, <3>1 DEF book, DefaultsOf
    <3>2. CASE CommitAddress(w)
      <4>1. ~(Committing(w) /\ context[u] = context[w])
        BY <1>5, <2>2
      <4>2. \A t \in Tenants : t = context[u] => DefaultsOf(t)' = DefaultsOf(t)
        BY <3>2, <4>1, CommitDefaults
      <4> QED BY <2>1, <4>2 DEF DefaultsOf
    <3> QED BY <3>1, <3>2 DEF Step, Begin, Resolve, EnterTask, Throttle, ContextMissing, Serve,
               OpenAddressBook, DemoteDefault, InsertAddress, Leave, StepFails, Crash
  <2>4. Committing(w)' => context'[w] # context[u]
    BY <1>3, <1>5, <2>1, InsertIndex
  <2> QED BY <1>2, <2>1, <2>2, <2>3, <2>4
<1> QED BY <1>4, <1>5

-----------------------------------------------------------------------------
(* The invariant *)

LEMMA IInvInductive == IInv /\ [Next]_vars => IInv'
<1> SUFFICES ASSUME IInv, [Next]_vars PROVE IInv'
  OBVIOUS
<1>1. TypeOK' /\ WindowInv'
  BY TypeInductive, WindowInductive
<1>2. ASSUME NEW u \in Workers PROVE WorkerInv(u)'
  <2>1. ASSUME NEW w \in Workers, Begin(w) \/ Step(w) \/ StepFails(w) \/ Crash(w)
        PROVE  WorkerInv(u)'
    <3>1. ContextInv(u)'
      <4>1. CASE u = w
        BY <2>1, <4>1, OwnContext
      <4>2. CASE u # w
        BY <2>1, <4>2, OwnContext DEF IInv, WorkerInv, ContextInv
      <4> QED BY <4>1, <4>2
    <3>2. BookInv(u)'
      BY <2>1, OwnBook, OthersBook
    <3>3. IndexInv(u)'
      BY <2>1, IndexInductive
    <3> QED BY <3>1, <3>2, <3>3 DEF WorkerInv
  <2>2. ASSUME UNCHANGED <<pc, job, context, token, touched, transaction, book>>
        PROVE  WorkerInv(u)'
    BY <2>2 DEF IInv, WorkerInv, ContextInv, BookInv, IndexInv, Committing, DefaultsOf,
       transaction, book
  <2> QED BY <2>1, <2>2 DEF Next, EndWindow, vars, transaction, book
<1> QED BY <1>1, <1>2 DEF IInv

LEMMA IInvHolds == Spec => []IInv
  BY InitIInv, IInvInductive, PTL DEF Spec

-----------------------------------------------------------------------------
(* Theorems *)

(* Every reachable state is well typed; in particular no transaction's row *)
(* outlives its request, whichever statement fails.                        *)
THEOREM TypeCorrect == Spec => []TypeOK
  BY IInvHolds, PTL DEF IInv

(* Tenant isolation: no worker reads or writes a row of another tenant     *)
(* than that of the request or task it serves.                             *)
THEOREM TenantsIsolated == Spec => []TouchesOwnTenant
<1>1. IInv => TouchesOwnTenant
  BY DEF IInv, WorkerInv, ContextInv, TouchesOwnTenant
<1> QED BY <1>1, IInvHolds, PTL

(* No window admits more requests than the limit, however many workers     *)
(* count at the same time.                                                 *)
THEOREM RateIsLimited == Spec => []AdmittedWithinLimit
<1>1. IInv => AdmittedWithinLimit
  BY DEF IInv, WindowInv, AdmittedWithinLimit
<1> QED BY <1>1, IInvHolds, PTL

(* A customer never gets a second default address and never loses the one  *)
(* there is, although the demotion and the insertion are two statements.   *)
THEOREM OneDefaultAddress == Spec => DefaultKept
<1> DEFINE A == \A t \in Tenants :
                  DefaultsOf(t)' # DefaultsOf(t) => Cardinality(DefaultsOf(t)') = 1
<1>1. IInv /\ [Next]_vars => [A]_vars
  <2> SUFFICES ASSUME IInv, [Next]_vars, NEW t \in Tenants, DefaultsOf(t)' # DefaultsOf(t)
               PROVE  Cardinality(DefaultsOf(t)') = 1
    BY DEF A
  <2>1. PICK w \in Workers : CommitAddress(w)
    BY OwnersGrow DEF book, DefaultsOf
  <2>2. DefaultsOf(t)' = {inserted[w]}
    BY <2>1, CommitDefaults
  <2> QED BY <2>2, FS_Singleton
<1>2. Spec => [][A]_vars
  BY <1>1, IInvHolds, PTL DEF Spec
<1> QED BY <1>2 DEF DefaultKept
-----------------------------------------------------------------------------
(* The customer's address book                                             *)

(* The rows that open transactions have demoted are defaults until these   *)
(* commit, no two of them have demoted the same row, and there is only one *)
(* to demote.                                                              *)
SingleDefault(t) == \A a, b \in DefaultsOf(t) : a = b

DemotedInv ==
  /\ \A w \in Workers : demoted[w] \subseteq defaults
  /\ \A v, w \in Workers : v # w => demoted[v] \cap demoted[w] = {}

AddressInv == DemotedInv /\ \A t \in Tenants : SingleDefault(t)

LEMMA CommitKeepsAddressInv ==
  ASSUME IInv, AddressInv, NEW w \in Workers, CommitAddress(w)
  PROVE  AddressInv'
<1>1. ASSUME NEW t \in Tenants PROVE SingleDefault(t)'
  <2>1. DefaultsOf(t)' = {inserted[w]} \/ DefaultsOf(t)' = DefaultsOf(t)
    BY CommitDefaults
  <2> QED BY <2>1 DEF AddressInv, SingleDefault
<1>2. /\ demoted'[w] = {}
      /\ \A v \in Workers \ {w} : demoted'[v] = demoted[v]
      /\ defaults \ demoted[w] \subseteq defaults'
  BY DEF CommitAddress, EndTransaction, IInv, TypeOK
<1>3. DemotedInv'
  BY <1>2 DEF AddressInv, DemotedInv
<1> QED BY <1>1, <1>3 DEF AddressInv

LEMMA DemoteKeepsAddressInv ==
  ASSUME IInv, AddressInv, NEW w \in Workers, DemoteDefault(w)
  PROVE  AddressInv'
<1>1. /\ demoted'[w] = {found[w]} \cap defaults
      /\ \A v \in Workers \ {w} : demoted'[v] = demoted[v] /\ found[w] \notin demoted[v]
      /\ UNCHANGED book
  BY DEF DemoteDefault, Locked, IInv, TypeOK
<1>2. DemotedInv'
  BY <1>1 DEF AddressInv, DemotedInv, book
<1> QED BY <1>1, <1>2 DEF AddressInv, SingleDefault, DefaultsOf, book

LEMMA AddressInvHolds == Spec => []AddressInv
<1>1. Init => AddressInv
  BY DEF Init, AddressInv, DemotedInv, SingleDefault, DefaultsOf
<1>2. IInv /\ AddressInv /\ [Next]_vars => AddressInv'
  <2> SUFFICES ASSUME IInv, AddressInv, [Next]_vars PROVE AddressInv'
    OBVIOUS
  <2>1. ASSUME UNCHANGED book, \A w \in Workers : demoted'[w] \in {demoted[w], {}}
        PROVE  AddressInv'
    BY <2>1 DEF AddressInv, DemotedInv, SingleDefault, DefaultsOf, book
  <2>2. ASSUME NEW w \in Workers, Begin(w) \/ Step(w) \/ StepFails(w) \/ Crash(w),
               ~CommitAddress(w), ~DemoteDefault(w)
        PROVE  AddressInv'
    BY <2>1, <2>2 DEF Begin, Step, Resolve, EnterTask, Throttle, ContextMissing, Serve, book,
       OpenAddressBook, InsertAddress, Leave, StepFails, Crash, EndTransaction, transaction,
       IInv, TypeOK
  <2>3. CASE (\E t \in Tenants : EndWindow(t)) \/ UNCHANGED vars
    BY <2>1, <2>3 DEF EndWindow, vars, transaction, book
  <2> QED BY <2>2, <2>3, CommitKeepsAddressInv, DemoteKeepsAddressInv DEF Next, Step
<1> QED BY <1>1, <1>2, IInvHolds, PTL DEF Spec

(* What the unique index is for: no customer has two default addresses.    *)
THEOREM NeverTwoDefaults == Spec => [](\A t \in Tenants : SingleDefault(t))
<1>1. AddressInv => \A t \in Tenants : SingleDefault(t)
  BY DEF AddressInv
<1> QED BY <1>1, AddressInvHolds, PTL

(* v's UPDATE waits for a row that w has demoted, or its INSERT for the    *)
(* entry that w has changed in the index.                                  *)
WaitsForWorker(v, w) ==
  /\ v # w
  /\ \/ pc[v] = "demote" /\ found[v] \in demoted[w]
     \/ /\ pc[v] = "insert" /\ job[v].arg = "default"
        /\ context[v] = context[w] /\ job[w].arg = "default"
        /\ inserted[w] # None \/ demoted[w] # {}

Circle(S) ==
  \A s \in S : (\E t \in S : WaitsForWorker(s, t)) /\ (\E t \in S : WaitsForWorker(t, s))

(* Who waits and keeps another one waiting has demoted the default.        *)
LEMMA InCircle ==
  ASSUME IInv, NEW S \in SUBSET Workers, Circle(S), NEW s \in S
  PROVE  pc[s] = "insert" /\ demoted[s] # {}
<1>1. BookInv(s)
  BY DEF IInv, WorkerInv
<1>2. pc[s] \in {"demote", "insert"} /\ (demoted[s] # {} \/ inserted[s] # None)
  BY DEF Circle, WaitsForWorker
<1> QED BY <1>1, <1>2 DEF BookInv

(* The statements of add_address wait for one another and for the index,   *)
(* and still never in a circle: two transactions of a customer that have   *)
(* both demoted a default do not exist.                                    *)
THEOREM AddressBooksDoNotDeadlock ==
  Spec => [](\A S \in SUBSET Workers : Circle(S) => S = {})
<1>1. ASSUME IInv, AddressInv, NEW S \in SUBSET Workers, Circle(S), NEW s \in S PROVE FALSE
  <2>1. PICK t \in S : WaitsForWorker(s, t)
    BY <1>1 DEF Circle
  <2>2. /\ pc[s] = "insert" /\ demoted[s] # {}
        /\ pc[t] = "insert" /\ demoted[t] # {}
    BY <1>1, InCircle
  <2>3. t # s /\ context[t] = context[s]
    BY <2>1, <2>2 DEF WaitsForWorker
  <2>4. PICK a, b \in Addresses : a \in demoted[s] /\ b \in demoted[t]
    BY <1>1, <2>2 DEF IInv, TypeOK
  <2>5. context[s] \in Tenants
    BY <1>1, <2>2, InTenant DEF InTransaction
  <2>6. a \in DefaultsOf(context[s]) /\ b \in DefaultsOf(context[s])
    <3>1. /\ BookInv(s) /\ BookInv(t)
          /\ demoted[s] \subseteq defaults /\ demoted[t] \subseteq defaults
      BY <1>1 DEF IInv, WorkerInv, AddressInv, DemotedInv
    <3>2. a = found[s] /\ b = found[t] /\ a # None /\ b # None
      BY <2>4, <3>1, Constants DEF BookInv
    <3> QED BY <2>3, <2>4, <3>1, <3>2 DEF BookInv, DefaultsOf
  <2>7. a = b
    BY <1>1, <2>5, <2>6 DEF AddressInv, SingleDefault
  <2> QED BY <1>1, <2>3, <2>4, <2>7 DEF AddressInv, DemotedInv
<1>2. IInv /\ AddressInv => \A S \in SUBSET Workers : Circle(S) => S = {}
  BY <1>1
<1> QED BY <1>2, IInvHolds, AddressInvHolds, PTL

-----------------------------------------------------------------------------
(* Redis gives every counter an expiry in the call that creates it, so no  *)
(* failure leaves one that would lock its customer out.  With Redis's own  *)
(* fairness this is why WindowReopens holds.                               *)
THEOREM EveryCounterExpires == Spec => [](\A t \in Tenants : count[t] # 0 => t \in ttl)
<1> DEFINE Inv == \A t \in Tenants : count[t] # 0 => t \in ttl
<1>1. Init => Inv
  BY DEF Init
<1>2. IInv /\ Inv /\ [Next]_vars => Inv'
  <2> SUFFICES ASSUME IInv, Inv, [Next]_vars PROVE Inv'
    OBVIOUS
  <2>1. ASSUME UNCHANGED window PROVE Inv'
    BY <2>1 DEF window
  <2>2. ASSUME NEW u \in Tenants, Counted(u), ttl' = ttl \cup {u} PROVE Inv'
    BY <2>2 DEF Counted, IInv, TypeOK
  <2>3. ASSUME NEW w \in Workers, Begin(w) \/ Step(w) \/ StepFails(w) \/ Crash(w)
        PROVE  Inv'
    <3>1. CASE pc[w] = "throttle"
      <4>1. context[w] \in Tenants
        BY <3>1, Constants DEF IInv, WorkerInv, ContextInv, TypeOK
      <4> QED BY <2>1, <2>2, <2>3, <3>1, <4>1 DEF Begin, Step, Resolve, EnterTask, Throttle,
         ContextMissing, Serve, OpenAddressBook, DemoteDefault, InsertAddress, CommitAddress,
         Leave, StepFails, Crash
    <3>2. CASE pc[w] # "throttle"
      BY <2>1, <2>3, <3>2 DEF Begin, Step, Resolve, EnterTask, Throttle, ContextMissing, Serve,
         OpenAddressBook, DemoteDefault, InsertAddress, CommitAddress, Leave, StepFails, Crash
    <3> QED BY <3>1, <3>2
  <2>4. ASSUME NEW t \in Tenants, EndWindow(t) PROVE Inv'
    BY <2>4 DEF EndWindow, IInv, TypeOK
  <2>5. CASE UNCHANGED vars
    BY <2>1, <2>5 DEF vars, window
  <2> QED BY <2>3, <2>4, <2>5 DEF Next
<1> QED BY <1>1, <1>2, IInvHolds, PTL DEF Spec
=============================================================================
