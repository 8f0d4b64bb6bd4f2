--------------------------- MODULE TenantRequests ---------------------------
(***************************************************************************)
(* What every request goes through before its view: TenantMiddleware and   *)
(* the context variable of its worker (apps/tenant/), the rate limit in    *)
(* Redis (apps/core/throttling.py) and the managers that scope every query *)
(* to the tenant of that variable.  The views are add-product, which reads *)
(* a product by its id, and add-address with its transaction on the        *)
(* customer's address book (apps/addresses/services.py); next to them a    *)
(* page of an exempt path and a payment task, which enters a tenant by     *)
(* itself.  The same customer id shops with every tenant.                  *)
(***************************************************************************)
EXTENDS Integers, FiniteSets

CONSTANTS
  Workers,        \* threads or processes, each with its context variable
  Tenants,
  Products,
  TenantOf,       \* product -> the tenant that sells it
  Limit,          \* add-product requests of a customer per window
  Jobs,           \* bound: what the workers are asked to serve
  MaxCount,       \* bound: where a counter stops
  MaxAddresses,   \* bound: rows of the address table
  MaxFaults,      \* bound
  None

(* The tenant is the one of the domain header, None if there is no such    *)
(* header; for a task, of its payment.  An exempt path needs none.         *)
Requests ==
  [kind : {"add_product"}, tenant : Tenants \cup {None}, arg : Products]
    \cup [kind : {"add_address"}, tenant : Tenants, arg : {"default", "other"}]
    \cup [kind : {"exempt"}, tenant : {None}, arg : {None}]
    \cup [kind : {"authorize"}, tenant : Tenants, arg : {None}]

ASSUME TenantAssumption ==
  /\ Jobs \subseteq Requests
  /\ None \notin Tenants \cup Workers \cup Nat
  /\ TenantOf \in [Products -> Tenants]
  /\ Limit \in Nat /\ MaxCount \in Nat /\ Limit < MaxCount
  /\ MaxFaults \in Nat

Addresses == 1..MaxAddresses

VARIABLES
  pc,        \* the statement each worker executes next
  job,       \* what it serves
  context,   \* its context variable: a tenant, or None while unset
  token,     \* the value to put back when the request or task is left
  touched,   \* history: the tenants whose rows it read or wrote for its job
  owner,     \* address row -> its tenant, None before the row is committed
  defaults,  \* committed rows with is_default
  found,     \* the default row an UPDATE found in its snapshot, or None
  demoted,   \* rows an open transaction updated and locks
  inserted,  \* the row it inserted, or None
  count,     \* Redis: the counter of the customer in the window of a tenant
  ttl,       \* counters with an expiry
  admitted,  \* history: requests let through since the window opened
  faults

vars == <<pc, job, context, token, touched, owner, defaults, found, demoted,
          inserted, count, ttl, admitted, faults>>
transaction == <<found, demoted, inserted>>
book == <<owner, defaults>>
window == <<count, ttl, admitted>>

NoJob == [kind |-> "none", tenant |-> None, arg |-> None]

Init ==
  /\ pc = [w \in Workers |-> "idle"]
  /\ job = [w \in Workers |-> NoJob]
  /\ context = [w \in Workers |-> None]
  /\ token = [w \in Workers |-> None]
  /\ touched = [w \in Workers |-> {}]
  /\ owner = [a \in Addresses |-> None]
  /\ defaults = {}
  /\ found = [w \in Workers |-> None]
  /\ demoted = [w \in Workers |-> {}]
  /\ inserted = [w \in Workers |-> None]
  /\ count = [t \in Tenants |-> 0]
  /\ ttl = {}
  /\ admitted = [t \in Tenants |-> 0]
  /\ faults = 0

-----------------------------------------------------------------------------
Goto(w, phase) == pc' = [pc EXCEPT ![w] = phase]

(* The worker is done with its job. *)
Rest(w) ==
  /\ Goto(w, "idle")
  /\ job' = [job EXCEPT ![w] = NoJob]
  /\ token' = [token EXCEPT ![w] = None]
  /\ touched' = [touched EXCEPT ![w] = {}]

(* COMMIT or ROLLBACK: nothing is pending or locked any more. *)
EndTransaction(w) ==
  /\ found' = [found EXCEPT ![w] = None]
  /\ demoted' = [demoted EXCEPT ![w] = {}]
  /\ inserted' = [inserted EXCEPT ![w] = None]

(* set_current_tenant *)
Enter(w, t) ==
  /\ token' = [token EXCEPT ![w] = context[w]]
  /\ context' = [context EXCEPT ![w] = t]

(* The rows there are and those still to come fill the bounded table.      *)
BookFull ==
  Cardinality({a \in Addresses : owner[a] # None})
    + Cardinality({w \in Workers : job[w].kind = "add_address"}) >= MaxAddresses

Begin(w) ==
  /\ pc[w] = "idle"
  /\ \E j \in Jobs :
       /\ j.kind = "add_address" => ~BookFull
       /\ job' = [job EXCEPT ![w] = j]
       /\ Goto(w, IF j.kind = "authorize" THEN "task" ELSE "resolve")
  /\ UNCHANGED <<context, token, touched, transaction, book, window, faults>>

(* TenantMiddleware: an exempt path goes on without a tenant; a missing or *)
(* unknown domain (400, 404) and a tenant that is disabled at this moment  *)
(* (403) are answered here, before anything is set.                        *)
Resolve(w) ==
  LET j == job[w] IN
  /\ pc[w] = "resolve"
  /\ \/ /\ j.kind = "exempt"
        /\ Goto(w, "view")
        /\ UNCHANGED <<job, context, token, touched>>
     \/ /\ j.kind # "exempt"
        /\ Rest(w)
        /\ UNCHANGED context
     \/ /\ j.tenant # None
        /\ Enter(w, j.tenant)
        /\ Goto(w, IF j.kind = "add_product" THEN "throttle" ELSE "view")
        /\ UNCHANGED <<job, touched>>
  /\ UNCHANGED <<transaction, book, window, faults>>

(* authorize_payment: the payment is read across tenants, then tenant_context *)
EnterTask(w) ==
  /\ pc[w] = "task"
  /\ Enter(w, job[w].tenant)
  /\ Goto(w, "view")
  /\ UNCHANGED <<job, touched, transaction, book, window, faults>>

(* Mutation: the body is left by its last line, not by a finally. *)
LeaveNormally(w) ==
  /\ pc[w] = "leave"
  /\ context' = [context EXCEPT ![w] = IF touched[w] = {} THEN @ ELSE token[w]]
  /\ Rest(w)
  /\ UNCHANGED <<transaction, book, window, faults>>

(* finally: reset_current_tenant(token) *)
Leave(w) ==
  /\ pc[w] = "leave"
  /\ context' = [context EXCEPT ![w] = IF job[w].kind = "exempt" THEN @ ELSE token[w]]
  /\ Rest(w)
  /\ UNCHANGED <<transaction, book, window, faults>>

-----------------------------------------------------------------------------
(* TenantUserScopedThrottle.allow_request *)

Counted(t) == count' = [count EXCEPT ![t] = IF @ < MaxCount THEN @ + 1 ELSE @]

(* Mutation: the counter is compared before this request is counted. *)
ThrottleOneLate(w) ==
  LET t == context[w] IN
  /\ pc[w] = "throttle"
  /\ Counted(t)
  /\ ttl' = ttl \cup {t}
  /\ \/ count[t] > Limit /\ Goto(w, "leave") /\ UNCHANGED admitted
     \/ /\ count[t] <= Limit
        /\ admitted' = [admitted EXCEPT ![t] = @ + 1]
        /\ Goto(w, "view")
  /\ UNCHANGED <<job, context, token, touched, transaction, book, faults>>

(* Mutation: EXPIRE is a call of its own, made for the first request only, *)
(* which the worker may not live to make.                                  *)
ThrottleInTwoCalls(w) ==
  LET t == context[w] IN
  /\ pc[w] = "throttle"
  /\ Counted(t)
  /\ \/ ttl' = (IF count[t] = 0 THEN ttl \cup {t} ELSE ttl) /\ UNCHANGED faults
     \/ ttl' = ttl /\ faults < MaxFaults /\ faults' = faults + 1
  /\ \/ count[t] >= Limit /\ Goto(w, "leave") /\ UNCHANGED admitted
     \/ /\ count[t] < Limit
        /\ admitted' = [admitted EXCEPT ![t] = @ + 1]
        /\ Goto(w, "view")
  /\ UNCHANGED <<job, context, token, touched, transaction, book>>

(* INCR and EXPIRE NX in one MULTI; above the limit the answer is 429.     *)
Throttle(w) ==
  LET t == context[w] IN
  /\ pc[w] = "throttle"
  /\ Counted(t)
  /\ ttl' = ttl \cup {t}
  /\ \/ count[t] >= Limit /\ Goto(w, "leave") /\ UNCHANGED admitted
     \/ /\ count[t] < Limit
        /\ admitted' = [admitted EXCEPT ![t] = @ + 1]
        /\ Goto(w, "view")
  /\ UNCHANGED <<job, context, token, touched, transaction, book, faults>>

-----------------------------------------------------------------------------
(* The views *)

(* A manager reads and writes the rows of the context's tenant only. *)
Touch(w) == touched' = [touched EXCEPT ![w] = @ \cup {context[w]}]

(* TenantAwareManager without a context: TenantContextMissing. *)
ContextMissing(w) ==
  /\ pc[w] = "view"
  /\ context[w] = None
  /\ Goto(w, "leave")
  /\ UNCHANGED <<job, context, token, touched, transaction, book, window, faults>>

(* add-product reads the product and writes to the cart, unless the id is  *)
(* none of this tenant's (404); an exempt page reads a scoped table; the   *)
(* task updates its payment.                                               *)
Serve(w) ==
  LET j == job[w] IN
  /\ pc[w] = "view"
  /\ context[w] # None
  /\ j.kind # "add_address"
  /\ \/ j.kind = "add_product" /\ TenantOf[j.arg] # context[w] /\ UNCHANGED touched
     \/ (j.kind = "add_product" => TenantOf[j.arg] = context[w]) /\ Touch(w)
  /\ Goto(w, "leave")
  /\ UNCHANGED <<job, context, token, transaction, book, window, faults>>

(* add_address opens its transaction.  For a new default the UPDATE that   *)
(* demotes the old one takes its snapshot.                                 *)
OpenAddressBook(w) ==
  /\ pc[w] = "view"
  /\ context[w] # None
  /\ job[w].kind = "add_address"
  /\ \/ /\ job[w].arg = "default"
        /\ found' = [found EXCEPT ![w] =
             IF \E a \in defaults : owner[a] = context[w]
               THEN CHOOSE a \in defaults : owner[a] = context[w]
               ELSE None]
        /\ Goto(w, "demote")
     \/ job[w].arg = "other" /\ Goto(w, "insert") /\ UNCHANGED found
  /\ Touch(w)
  /\ UNCHANGED <<job, context, token, demoted, inserted, book, window, faults>>

Locked(w, a) == \E v \in Workers \ {w} : a \in demoted[v]

(* Mutation: the demotion is committed by itself. *)
DemoteAtOnce(w) ==
  /\ pc[w] = "demote"
  /\ defaults' = defaults \ {found[w]}
  /\ Goto(w, "insert")
  /\ UNCHANGED <<job, context, token, touched, owner, transaction, window, faults>>

(* The UPDATE waits for a row another transaction updates, and leaves it   *)
(* alone if it is no default any more.                                     *)
DemoteDefault(w) ==
  /\ pc[w] = "demote"
  /\ ~Locked(w, found[w])
  /\ demoted' = [demoted EXCEPT ![w] = {found[w]} \cap defaults]
  /\ Goto(w, "insert")
  /\ UNCHANGED <<job, context, token, touched, found, inserted, book, window, faults>>

(* The entries of the index uq_address_one_default_per_user that a new     *)
(* default meets: of committed rows, and of transactions under way.        *)
Taken(w) ==
  \E a \in defaults \ demoted[w] : owner[a] = context[w] /\ ~Locked(w, a)
Pending(w) ==
  \E v \in Workers \ {w} :
    /\ context[v] = context[w]
    /\ job[v].arg = "default"
    /\ inserted[v] # None \/ demoted[v] # {}

Unused(a) == owner[a] = None /\ \A v \in Workers : inserted[v] # a
IsNextAddress(a) == Unused(a) /\ \A b \in Addresses : Unused(b) => a <= b

(* INSERT: a second default waits for the transaction of the first, and    *)
(* fails if that commits (IntegrityError).                                 *)
InsertAddress(w) ==
  /\ pc[w] = "insert"
  /\ \/ /\ job[w].arg = "default"
        /\ ~Pending(w) /\ Taken(w)
        /\ EndTransaction(w)
        /\ Goto(w, "leave")
     \/ /\ job[w].arg = "default" => ~Pending(w) /\ ~Taken(w)
        /\ \E a \in Addresses : IsNextAddress(a) /\ inserted' = [inserted EXCEPT ![w] = a]
        /\ Goto(w, "commit")
        /\ UNCHANGED <<found, demoted>>
  /\ UNCHANGED <<job, context, token, touched, book, window, faults>>

CommitAddress(w) ==
  LET new == inserted[w] IN
  /\ pc[w] = "commit"
  /\ owner' = [owner EXCEPT ![new] = context[w]]
  /\ defaults' = (defaults \ demoted[w]) \cup (IF job[w].arg = "default" THEN {new} ELSE {})
  /\ EndTransaction(w)
  /\ Goto(w, "leave")
  /\ UNCHANGED <<job, context, token, touched, window, faults>>

-----------------------------------------------------------------------------
(* The environment *)

(* Redis: the window ends. *)
EndWindow(t) ==
  /\ t \in ttl
  /\ count' = [count EXCEPT ![t] = 0]
  /\ ttl' = ttl \ {t}
  /\ admitted' = [admitted EXCEPT ![t] = 0]
  /\ UNCHANGED <<pc, job, context, token, touched, transaction, book, faults>>

Fault == faults < MaxFaults /\ faults' = faults + 1

(* Mutation: what the transaction did is not undone. *)
StepFailsHalfWay(w) ==
  /\ Fault
  /\ pc[w] \in {"throttle", "view", "demote", "insert", "commit"}
  /\ Goto(w, "leave")
  /\ UNCHANGED <<job, context, token, touched, transaction, book, window>>

(* A statement raises, after Redis counted the request or before: the open *)
(* transaction is rolled back and the exception passes the finally.        *)
StepFails(w) ==
  /\ Fault
  /\ pc[w] \in {"throttle", "view", "demote", "insert", "commit"}
  /\ \/ pc[w] = "throttle" /\ Counted(context[w]) /\ ttl' = ttl \cup {context[w]} /\ UNCHANGED admitted
     \/ UNCHANGED window
  /\ EndTransaction(w)
  /\ Goto(w, "leave")
  /\ UNCHANGED <<job, context, token, touched, book>>

(* The process dies; another one, with a new context, takes its place. *)
Crash(w) ==
  /\ Fault
  /\ pc[w] # "idle"
  /\ context' = [context EXCEPT ![w] = None]
  /\ EndTransaction(w)
  /\ Rest(w)
  /\ UNCHANGED <<book, window>>

-----------------------------------------------------------------------------
Step(w) ==
  \/ Resolve(w) \/ EnterTask(w) \/ Throttle(w) \/ ContextMissing(w) \/ Serve(w)
  \/ OpenAddressBook(w) \/ DemoteDefault(w) \/ InsertAddress(w) \/ CommitAddress(w)
  \/ Leave(w)

Next ==
  \/ \E w \in Workers : Begin(w) \/ Step(w) \/ StepFails(w) \/ Crash(w)
  \/ \E t \in Tenants : EndWindow(t)

Spec == Init /\ [][Next]_vars

(* Redis expires what has an expiry. *)
FairSpec == Spec /\ \A t \in Tenants : WF_vars(EndWindow(t))

-----------------------------------------------------------------------------
(* Properties *)

TypeOK ==
  /\ pc \in [Workers -> {"idle", "resolve", "task", "throttle", "view", "demote", "insert",
                         "commit", "leave"}]
  /\ job \in [Workers -> Requests \cup {NoJob}]
  /\ context \in [Workers -> Tenants \cup {None}]
  /\ token \in [Workers -> Tenants \cup {None}]
  /\ touched \in [Workers -> SUBSET Tenants]
  /\ owner \in [Addresses -> Tenants \cup {None}]
  /\ defaults \subseteq {a \in Addresses : owner[a] # None}
  /\ found \in [Workers -> Addresses \cup {None}]
  /\ demoted \in [Workers -> SUBSET Addresses]
  /\ inserted \in [Workers -> Addresses \cup {None}]
  /\ \A w \in Workers : pc[w] \notin {"demote", "insert", "commit"} =>
       found[w] = None /\ demoted[w] = {} /\ inserted[w] = None
  /\ count \in [Tenants -> 0..MaxCount]
  /\ ttl \subseteq Tenants
  /\ admitted \in [Tenants -> Nat]
  /\ faults \in 0..MaxFaults

(* Tenant isolation: a request or task reads and writes rows of its own    *)
(* tenant only, and none at all on an exempt path, whatever the worker     *)
(* served before and however that ended.                                   *)
TouchesOwnTenant == \A w \in Workers : touched[w] \subseteq {job[w].tenant}

DefaultsOf(t) == {a \in defaults : owner[a] = t}

(* "At most one address may be the default", and a customer who has one    *)
(* keeps one: no race of two new defaults and no failure half way loses it *)
(* or leaves two.                                                          *)
DefaultKept ==
  [][\A t \in Tenants : DefaultsOf(t)' # DefaultsOf(t) => Cardinality(DefaultsOf(t)') = 1]_vars

(* The rate holds across workers: no window lets more requests through     *)
(* than the limit.                                                         *)
AdmittedWithinLimit == \A t \in Tenants : admitted[t] <= Limit

(* "The window resets naturally": a customer who used up the window is not *)
(* locked out for good, a lost answer or a dying worker notwithstanding.   *)
WindowReopens == \A t \in Tenants : count[t] >= Limit ~> count[t] = 0
=============================================================================
