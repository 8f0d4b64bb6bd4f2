------------------------------ MODULE Checkout ------------------------------
(***************************************************************************)
(* Checkout of a cart: CheckoutService.checkout (apps/order/services.py)   *)
(* with the idempotency manager (apps/core/idempotency.py) and the fenced  *)
(* Redis lock (apps/core/locks.py) it is built from, for one tenant.       *)
(*                                                                         *)
(* One request is one POST /carts/{id}/checkout served by one web worker.  *)
(* Each action is one statement the worker sends to Postgres or to Redis,  *)
(* so every interleaving of the statements of several requests is a        *)
(* behaviour.  A Postgres transaction is the span from "lock_cart" to the  *)
(* Commit or Abort of the request: the rows it locks are in rowOwner, and  *)
(* its writes become visible when it commits, all at once.                 *)
(*                                                                         *)
(* An order (with its payment and its idempotency record) is named by the  *)
(* request that created it.                                                *)
(***************************************************************************)
EXTENDS Integers, Functions

CONSTANTS
  Requests,        \* HTTP requests, a client's retries included
  Carts,           \* cart rows of the tenant
  Addresses,       \* address rows, none of them soft-deleted
  PaymentMethods,  \* payment method rows
  Products,        \* product rows
  Coupons,         \* coupon rows
  CouponSets,      \* the sets of coupons a cart may have applied
  Keys,            \* Idempotency-Key values the clients use
  Inputs,          \* what a request may carry: cart, address, method and key
  UserOf,          \* the user a cart or an address belongs to
  Fillings,        \* the contents a cart may have: product -> quantity
  InitialStock,    \* product -> units in stock at the start
  None,            \* "nobody": no request
  EarlyExpiry,     \* may a Redis TTL run out while its setter still works?
  MaxFaults,       \* bound: Redis, broker and worker failures
  MaxEdits         \* bound: cart mutations by other endpoints

(* An id a client sends need not name a row; such an id is any other value *)
(* an input carries.                                                       *)
CartIds == Carts \cup {i.cart : i \in Inputs}

ASSUME NoneAssumption == None \notin Requests

ASSUME InputAssumption ==
  \A i \in Inputs : DOMAIN i = {"cart", "address", "method", "key"} /\ i.key \in Keys

ASSUME StockAssumption ==
  /\ InitialStock \in [Products -> Nat]
  /\ Fillings \subseteq [Products -> Nat]

ASSUME CouponAssumption == CouponSets \subseteq SUBSET Coupons

ASSUME BoundAssumption ==
  MaxFaults \in Nat /\ MaxEdits \in Nat /\ EarlyExpiry \in BOOLEAN

VARIABLES
  req,          \* what each request carries
  pc,           \* the statement each request executes next
  reply,        \* what the request answers, or will answer once it is done
  sentinel,     \* Redis idem:{tenant}:{key}: the request that set it, or None
  lock,         \* Redis lock:checkout:{tenant}:{cart}: the token, or None
  record,       \* IdempotencyRecord of each key: the order it stores, or None
  rowOwner,     \* the request whose open transaction locks the row, or None
  cartStatus,   \* Cart.status
  cartVersion,  \* Cart.version
  cartItems,    \* the lines of each cart, quantity 0 for no line
  stock,        \* Product.stock
  lines,        \* the cart lines a request read, then the lines of its order
  todo,         \* the coupons a request has yet to lock, then the products
                \* whose stock it has yet to deduct
  target,       \* the one it locks or deducts next
  seenVersion,  \* the cart version it refreshed after revalidating coupons
  orders,       \* committed orders
  dispatched,   \* orders whose authorize_payment task reached the broker
  faults, edits

vars == <<req, pc, reply, sentinel, lock, record, rowOwner, cartStatus, cartVersion,
          cartItems, stock, lines, todo, target, seenVersion, orders, dispatched,
          faults, edits>>

redisVars == <<sentinel, lock>>
cartVars  == <<cartStatus, cartVersion, cartItems>>
dbVars    == <<record, cartStatus, cartVersion, cartItems, stock, orders>>
localVars == <<lines, todo, target, seenVersion>>
bounds    == <<faults, edits>>

Rows == Carts \cup Addresses \cup PaymentMethods \cup Coupons \cup Products
Owners == Requests \cup {None}

Phases == {"idle", "check_sentinel", "mark", "acquire", "lock_cart", "lock_address",
           "lock_method", "read_items", "lock_coupons", "revalidate", "reserve", "commit",
           "dispatch", "release", "clear", "done"}

(* The phases in which a request has marked its key, holds the Redis lock, *)
(* and has an open transaction that owns its cart row.                     *)
OwnsCart == {"lock_address", "lock_method", "read_items", "lock_coupons", "revalidate",
             "reserve", "commit"}
InTransaction == OwnsCart \cup {"lock_cart"}
InCritical == InTransaction \cup {"dispatch", "release"}
InFlight == InCritical \cup {"acquire", "clear"}

Refusals == {"conflict", "in_progress", "locked", "cart_not_found", "already_checked_out",
             "address_not_found", "method_invalid", "cart_empty", "coupon_invalid",
             "out_of_stock", "stale_version"}
ServerErrors == {"integrity_error", "deadlock", "redis_error", "dispatch_failed", "no_answer"}
Statuses == {"pending", "accepted", "replay"} \cup Refusals \cup ServerErrors
Successes == {"accepted", "replay"}

NoLines == [p \in Products |-> 0]
Pending == [status |-> "pending", order |-> None]

(* compute_request_hash: SHA-256 of cart, address and payment method; two  *)
(* requests have one hash exactly when these three agree.                  *)
Hash(r) == <<req[r].cart, req[r].address, req[r].method>>

Init ==
  /\ req \in [Requests -> Inputs]
  /\ pc = [r \in Requests |-> "idle"]
  /\ reply = [r \in Requests |-> Pending]
  /\ sentinel = [k \in Keys |-> None]
  /\ lock = [c \in CartIds |-> None]
  /\ record = [k \in Keys |-> None]
  /\ rowOwner = [x \in Rows |-> None]
  /\ cartStatus = [c \in Carts |-> "ACTIVE"]
  /\ cartVersion = [c \in Carts |-> 0]
  /\ cartItems \in [Carts -> Fillings]
  /\ stock = InitialStock
  /\ lines = [r \in Requests |-> NoLines]
  /\ todo = [r \in Requests |-> {}]
  /\ target = [r \in Requests |-> None]
  /\ seenVersion = [r \in Requests |-> 0]
  /\ orders = {}
  /\ dispatched = {}
  /\ faults = 0
  /\ edits = 0

-----------------------------------------------------------------------------
(* Steps of one request *)

Goto(r, phase) == pc' = [pc EXCEPT ![r] = phase]

Answer(r, status, order) ==
  reply' = [reply EXCEPT ![r] = [status |-> status, order |-> order]]

(* Row locks are released when their transaction ends. *)
ReleaseRows(r) ==
  rowOwner' = [x \in Rows |-> IF rowOwner[x] = r THEN None ELSE rowOwner[x]]

(* Mutation: the exception is handled without ending the transaction. *)
AbortKeepsRows(r, status) ==
  /\ Goto(r, "release")
  /\ Answer(r, status, None)
  /\ todo' = [todo EXCEPT ![r] = {}]
  /\ target' = [target EXCEPT ![r] = None]
  /\ UNCHANGED <<req, redisVars, dbVars, rowOwner, lines, seenVersion, dispatched, bounds>>

(* An exception leaves the atomic block: the transaction rolls back and    *)
(* the exception travels to the Redis lock's finally.                      *)
Abort(r, status) ==
  /\ Goto(r, "release")
  /\ Answer(r, status, None)
  /\ ReleaseRows(r)
  /\ todo' = [todo EXCEPT ![r] = {}]
  /\ target' = [target EXCEPT ![r] = None]
  /\ UNCHANGED <<req, redisVars, dbVars, lines, seenVersion, dispatched, bounds>>

(* Mutation: the stored payload hash is not compared. *)
CheckRecordIgnoringHash(r) ==
  LET o == record[req[r].key] IN
  /\ pc[r] = "idle"
  /\ IF o = None THEN Goto(r, "check_sentinel") /\ UNCHANGED reply
                 ELSE Goto(r, "done") /\ Answer(r, "replay", o)
  /\ UNCHANGED <<req, redisVars, dbVars, rowOwner, localVars, dispatched, bounds>>

(* check_for_replay, first half: the durable record.  The record is only   *)
(* ever written with status SUCCEEDED.                                     *)
CheckRecord(r) ==
  LET o == record[req[r].key] IN
  /\ pc[r] = "idle"
  /\ \/ /\ o = None
        /\ Goto(r, "check_sentinel")
        /\ UNCHANGED reply
     \/ /\ o # None
        /\ Goto(r, "done")
        /\ IF Hash(o) = Hash(r) THEN Answer(r, "replay", o) ELSE Answer(r, "conflict", None)
  /\ UNCHANGED <<req, redisVars, dbVars, rowOwner, localVars, dispatched, bounds>>

(* check_for_replay, second half: the in-progress sentinel. *)
CheckSentinel(r) ==
  /\ pc[r] = "check_sentinel"
  /\ \/ /\ sentinel[req[r].key] = None
        /\ Goto(r, "mark")
        /\ UNCHANGED reply
     \/ /\ sentinel[req[r].key] # None
        /\ Goto(r, "done")
        /\ Answer(r, "in_progress", None)
  /\ UNCHANGED <<req, redisVars, dbVars, rowOwner, localVars, dispatched, bounds>>

(* mark_in_progress: SET NX EX. *)
MarkInProgress(r) ==
  LET k == req[r].key IN
  /\ pc[r] = "mark"
  /\ \/ /\ sentinel[k] = None
        /\ sentinel' = [sentinel EXCEPT ![k] = r]
        /\ Goto(r, "acquire")
        /\ UNCHANGED reply
     \/ /\ sentinel[k] # None
        /\ Goto(r, "done")
        /\ Answer(r, "in_progress", None)
        /\ UNCHANGED sentinel
  /\ UNCHANGED <<req, lock, dbVars, rowOwner, localVars, dispatched, bounds>>

(* Mutation: SET without NX. *)
AcquireWithoutNX(r) ==
  /\ pc[r] = "acquire"
  /\ lock' = [lock EXCEPT ![req[r].cart] = r]
  /\ Goto(r, "lock_cart")
  /\ UNCHANGED <<req, reply, sentinel, dbVars, rowOwner, localVars, dispatched, bounds>>

(* Mutation: LockNotAcquired leaves without the outer finally. *)
AcquireWithoutFinally(r) ==
  LET c == req[r].cart IN
  /\ pc[r] = "acquire"
  /\ IF lock[c] = None
       THEN lock' = [lock EXCEPT ![c] = r] /\ Goto(r, "lock_cart") /\ UNCHANGED reply
       ELSE Goto(r, "done") /\ Answer(r, "locked", None) /\ UNCHANGED lock
  /\ UNCHANGED <<req, sentinel, dbVars, rowOwner, localVars, dispatched, bounds>>

(* redis_lock, entry: SET NX PX with a fresh token. *)
AcquireLock(r) ==
  LET c == req[r].cart IN
  /\ pc[r] = "acquire"
  /\ \/ /\ lock[c] = None
        /\ lock' = [lock EXCEPT ![c] = r]
        /\ Goto(r, "lock_cart")
        /\ UNCHANGED reply
     \/ /\ lock[c] # None
        /\ Goto(r, "clear")
        /\ Answer(r, "locked", None)
        /\ UNCHANGED lock
  /\ UNCHANGED <<req, sentinel, dbVars, rowOwner, localVars, dispatched, bounds>>

(* SELECT ... FOR UPDATE of a row nobody locks, then on to the next step. *)
LockRow(r, row, next) ==
  /\ rowOwner[row] = None
  /\ rowOwner' = [rowOwner EXCEPT ![row] = r]
  /\ Goto(r, next)
  /\ UNCHANGED <<req, reply, redisVars, dbVars, localVars, dispatched, bounds>>

(* Step 4: lock the cart row, then look at its status. *)
LockCart(r) ==
  LET c == req[r].cart IN
  /\ pc[r] = "lock_cart"
  /\ \/ c \notin Carts /\ Abort(r, "cart_not_found")
     \/ /\ c \in Carts
        /\ cartStatus[c] = "ACTIVE"
        /\ LockRow(r, c, "lock_address")
     \/ /\ c \in Carts
        /\ cartStatus[c] # "ACTIVE"
        /\ rowOwner[c] = None
        /\ Abort(r, "already_checked_out")

(* Step 5: the address must belong to the cart's user. *)
LockAddress(r) ==
  LET a == req[r].address
      usable == a \in Addresses /\ UserOf[a] = UserOf[req[r].cart]
  IN
  /\ pc[r] = "lock_address"
  /\ \/ usable /\ LockRow(r, a, "lock_method")
     \/ ~usable /\ Abort(r, "address_not_found")

LockMethod(r) ==
  LET m == req[r].method IN
  /\ pc[r] = "lock_method"
  /\ \/ m \in PaymentMethods /\ LockRow(r, m, "read_items")
     \/ m \notin PaymentMethods /\ Abort(r, "method_invalid")

(* Step 6: read the cart's lines; an empty cart is refused.  Which coupons *)
(* the cart has applied is any of CouponSets.                              *)
ReadItems(r) ==
  LET items == cartItems[req[r].cart] IN
  /\ pc[r] = "read_items"
  /\ \/ items = NoLines /\ Abort(r, "cart_empty")
     \/ /\ items # NoLines
        /\ lines' = [lines EXCEPT ![r] = items]
        /\ \/ /\ {} \in CouponSets
              /\ Goto(r, "revalidate")
              /\ UNCHANGED <<todo, target>>
           \/ \E applied \in CouponSets : \E q \in applied :
                /\ todo' = [todo EXCEPT ![r] = applied]
                /\ target' = [target EXCEPT ![r] = q]
                /\ Goto(r, "lock_coupons")
        /\ UNCHANGED <<req, reply, redisVars, dbVars, rowOwner, seenVersion, dispatched,
                       bounds>>

(* Step 7: revalidate_cart_coupons locks the rows of the applied coupons   *)
(* with one SELECT ... FOR UPDATE that has no ORDER BY: one row after the  *)
(* other, in any order, waiting for each row's owner.                      *)
LockCoupon(r) ==
  LET q == target[r]
      rest == todo[r] \ {q}
  IN
  /\ pc[r] = "lock_coupons"
  /\ rowOwner[q] = None
  /\ rowOwner' = [rowOwner EXCEPT ![q] = r]
  /\ todo' = [todo EXCEPT ![r] = rest]
  /\ \/ rest = {} /\ target' = [target EXCEPT ![r] = None] /\ Goto(r, "revalidate")
     \/ (\E n \in rest : target' = [target EXCEPT ![r] = n]) /\ UNCHANGED pc
  /\ UNCHANGED <<req, reply, redisVars, dbVars, lines, seenVersion, dispatched, bounds>>

(* ... and either raises for one of them or recalculates the cart, which   *)
(* writes version + 1 in this transaction; refresh_from_db then reads that *)
(* version back.  The loop of step 8 visits the lines in the order the     *)
(* unordered query returned them: any order.                               *)
RevalidateCoupons(r) ==
  /\ pc[r] = "revalidate"
  /\ \/ /\ \E q \in Coupons : rowOwner[q] = r
        /\ Abort(r, "coupon_invalid")
     \/ /\ seenVersion' = [seenVersion EXCEPT ![r] = cartVersion[req[r].cart] + 1]
        /\ todo' = [todo EXCEPT ![r] = {p \in Products : lines[r][p] > 0}]
        /\ \E p \in todo'[r] : target' = [target EXCEPT ![r] = p]
        /\ Goto(r, "reserve")
        /\ UNCHANGED <<req, reply, redisVars, dbVars, rowOwner, lines, dispatched, bounds>>

(* Mutation: the UPDATE has no WHERE stock >= qty. *)
ReserveStockUnguarded(r) ==
  LET p == target[r]
      rest == todo[r] \ {p}
  IN
  /\ pc[r] = "reserve"
  /\ rowOwner[p] = None
  /\ rowOwner' = [rowOwner EXCEPT ![p] = r]
  /\ todo' = [todo EXCEPT ![r] = rest]
  /\ \/ rest = {} /\ target' = [target EXCEPT ![r] = None] /\ Goto(r, "commit")
     \/ (\E q \in rest : target' = [target EXCEPT ![r] = q]) /\ UNCHANGED pc
  /\ UNCHANGED <<req, reply, redisVars, dbVars, lines, seenVersion, dispatched, bounds>>

(* Step 8: UPDATE product SET stock = stock - qty WHERE stock >= qty.  The *)
(* UPDATE waits for the row's owner; when the committed stock is too low   *)
(* no row matches and nothing is waited for.                               *)
ReserveStock(r) ==
  LET p == target[r]
      rest == todo[r] \ {p}
  IN
  /\ pc[r] = "reserve"
  /\ \/ stock[p] < lines[r][p] /\ Abort(r, "out_of_stock")
     \/ /\ stock[p] >= lines[r][p]
        /\ rowOwner[p] = None
        /\ rowOwner' = [rowOwner EXCEPT ![p] = r]
        /\ todo' = [todo EXCEPT ![r] = rest]
        /\ \/ /\ rest = {}
              /\ target' = [target EXCEPT ![r] = None]
              /\ Goto(r, "commit")
           \/ /\ \E q \in rest : target' = [target EXCEPT ![r] = q]
              /\ UNCHANGED pc
        /\ UNCHANGED <<req, reply, redisVars, dbVars, lines, seenVersion, dispatched, bounds>>

(* Step 10's guard: UPDATE cart ... WHERE version = seen AND ACTIVE.  The  *)
(* transaction sees its own version + 1.                                   *)
CartUnchanged(r) ==
  LET c == req[r].cart IN
  cartVersion[c] + 1 = seenVersion[r] /\ cartStatus[c] = "ACTIVE"

(* Mutation: the cart is left ACTIVE. *)
CommitCartStaysActive(r) ==
  /\ pc[r] = "commit"
  /\ CartUnchanged(r) /\ record[req[r].key] = None
  /\ record' = [record EXCEPT ![req[r].key] = r]
  /\ orders' = orders \cup {r}
  /\ UNCHANGED cartStatus
  /\ cartVersion' = [cartVersion EXCEPT ![req[r].cart] = @ + 2]
  /\ stock' = [p \in Products |-> stock[p] - lines[r][p]]
  /\ ReleaseRows(r)
  /\ Answer(r, "accepted", r)
  /\ Goto(r, "dispatch")
  /\ UNCHANGED <<req, redisVars, cartItems, localVars, dispatched, bounds>>

(* Mutation: no unique index on (tenant, key): the insert replaces. *)
CommitOverRecord(r) ==
  /\ pc[r] = "commit"
  /\ CartUnchanged(r)
  /\ record' = [record EXCEPT ![req[r].key] = r]
  /\ orders' = orders \cup {r}
  /\ cartStatus' = [cartStatus EXCEPT ![req[r].cart] = "CHECKED_OUT"]
  /\ cartVersion' = [cartVersion EXCEPT ![req[r].cart] = @ + 2]
  /\ stock' = [p \in Products |-> stock[p] - lines[r][p]]
  /\ ReleaseRows(r)
  /\ Answer(r, "accepted", r)
  /\ Goto(r, "dispatch")
  /\ UNCHANGED <<req, redisVars, cartItems, localVars, dispatched, bounds>>

(* Mutation: one unit per line is deducted, not its quantity. *)
CommitIgnoresQuantity(r) ==
  /\ pc[r] = "commit"
  /\ CartUnchanged(r) /\ record[req[r].key] = None
  /\ record' = [record EXCEPT ![req[r].key] = r]
  /\ orders' = orders \cup {r}
  /\ cartStatus' = [cartStatus EXCEPT ![req[r].cart] = "CHECKED_OUT"]
  /\ cartVersion' = [cartVersion EXCEPT ![req[r].cart] = @ + 2]
  /\ stock' = [p \in Products |-> stock[p] - (IF lines[r][p] > 0 THEN 1 ELSE 0)]
  /\ ReleaseRows(r)
  /\ Answer(r, "accepted", r)
  /\ Goto(r, "dispatch")
  /\ UNCHANGED <<req, redisVars, cartItems, localVars, dispatched, bounds>>

(* Steps 9 to 12 and COMMIT: order, cart status, payment and idempotency   *)
(* record become visible together.  The record is unique per key; a second *)
(* insert waits for the first transaction and then raises IntegrityError,  *)
(* which nothing catches.                                                  *)
Commit(r) ==
  LET c == req[r].cart
      k == req[r].key
  IN
  /\ pc[r] = "commit"
  /\ \/ ~CartUnchanged(r) /\ Abort(r, "stale_version")
     \/ /\ CartUnchanged(r)
        /\ record[k] # None
        /\ Abort(r, "integrity_error")
     \/ /\ CartUnchanged(r)
        /\ record[k] = None
        /\ record' = [record EXCEPT ![k] = r]
        /\ orders' = orders \cup {r}
        /\ cartStatus' = [cartStatus EXCEPT ![c] = "CHECKED_OUT"]
        /\ cartVersion' = [cartVersion EXCEPT ![c] = @ + 2]
        /\ stock' = [p \in Products |-> stock[p] - lines[r][p]]
        /\ ReleaseRows(r)
        /\ Answer(r, "accepted", r)
        /\ Goto(r, "dispatch")
        /\ UNCHANGED <<req, redisVars, cartItems, localVars, dispatched, bounds>>

(* Step 13, the on_commit hook: enqueue authorize_payment. *)
DispatchPayment(r) ==
  /\ pc[r] = "dispatch"
  /\ dispatched' = dispatched \cup {r}
  /\ Goto(r, "release")
  /\ UNCHANGED <<req, reply, redisVars, dbVars, rowOwner, localVars, bounds>>

(* Mutation: a plain DEL instead of the Lua script. *)
ReleaseLockUnfenced(r) ==
  /\ pc[r] = "release"
  /\ lock' = [lock EXCEPT ![req[r].cart] = None]
  /\ Goto(r, "clear")
  /\ UNCHANGED <<req, reply, sentinel, dbVars, rowOwner, localVars, dispatched, bounds>>

(* redis_lock, exit: the Lua script deletes the key only if it still holds *)
(* this request's token.                                                   *)
ReleaseLock(r) ==
  LET c == req[r].cart IN
  /\ pc[r] = "release"
  /\ lock' = [lock EXCEPT ![c] = IF @ = r THEN None ELSE @]
  /\ Goto(r, "clear")
  /\ UNCHANGED <<req, reply, sentinel, dbVars, rowOwner, localVars, dispatched, bounds>>

(* clear_in_progress: a plain DEL, whoever set the sentinel. *)
ClearSentinel(r) ==
  /\ pc[r] = "clear"
  /\ sentinel' = [sentinel EXCEPT ![req[r].key] = None]
  /\ Goto(r, "done")
  /\ UNCHANGED <<req, reply, lock, dbVars, rowOwner, localVars, dispatched, bounds>>

-----------------------------------------------------------------------------
(* Postgres breaks a deadlock: one of the transactions of a cycle of       *)
(* waiters gets an OperationalError.  Coupons at step 7 and stock at step  *)
(* 8 are locked row by row in no fixed order and can close a cycle; of the *)
(* rows of the earlier steps a request locks one of a class.               *)
WaitsFor(r, q) ==
  /\ pc[r] \in {"lock_coupons", "reserve"}
  /\ q # r
  /\ rowOwner[target[r]] = q

InCycle(r) ==
  \E S \in SUBSET Requests :
    /\ r \in S
    /\ \A s \in S : (\E t \in S : WaitsFor(s, t)) /\ (\E t \in S : WaitsFor(t, s))

DeadlockVictim(r) ==
  /\ InCycle(r)
  /\ Abort(r, "deadlock")

-----------------------------------------------------------------------------
(* The environment *)

Fault == faults < MaxFaults /\ faults' = faults + 1

(* A Redis call raises.  A SET whose answer is lost may have been applied. *)
RedisFails(r) ==
  /\ Fault
  /\ \/ /\ pc[r] = "check_sentinel"
        /\ Goto(r, "done")
        /\ UNCHANGED redisVars
     \/ /\ pc[r] = "mark"
        /\ Goto(r, "done")
        /\ sentinel' \in {sentinel,
             [sentinel EXCEPT ![req[r].key] = IF @ = None THEN r ELSE @]}
        /\ UNCHANGED lock
     \/ /\ pc[r] = "acquire"
        /\ Goto(r, "clear")
        /\ lock' \in {lock, [lock EXCEPT ![req[r].cart] = IF @ = None THEN r ELSE @]}
        /\ UNCHANGED sentinel
  /\ Answer(r, "redis_error", None)
  /\ UNCHANGED <<req, dbVars, rowOwner, localVars, dispatched, edits>>

(* Errors of the two releasing calls are logged and swallowed: the key     *)
(* stays until its TTL runs out.                                           *)
CleanupFails(r) ==
  /\ Fault
  /\ \/ pc[r] = "release" /\ Goto(r, "clear")
     \/ pc[r] = "clear" /\ Goto(r, "done")
  /\ UNCHANGED <<req, reply, redisVars, dbVars, rowOwner, localVars, dispatched, edits>>

(* The broker refuses the task: the exception leaves the on_commit hook of *)
(* a transaction that has committed.                                       *)
BrokerFails(r) ==
  /\ Fault
  /\ pc[r] = "dispatch"
  /\ Answer(r, "dispatch_failed", None)
  /\ Goto(r, "release")
  /\ UNCHANGED <<req, redisVars, dbVars, rowOwner, localVars, dispatched, edits>>

(* The worker dies (or its connections do): Postgres rolls back an open    *)
(* transaction, Redis keeps both keys, the client gets no answer.          *)
Crash(r) ==
  /\ Fault
  /\ pc[r] \notin {"idle", "done"}
  /\ Goto(r, "done")
  /\ Answer(r, "no_answer", None)
  /\ ReleaseRows(r)
  /\ todo' = [todo EXCEPT ![r] = {}]
  /\ target' = [target EXCEPT ![r] = None]
  /\ UNCHANGED <<req, redisVars, dbVars, lines, seenVersion, dispatched, edits>>

(* Mutation: the keys are set without a TTL. *)
NeverExpires(setter) == FALSE

(* SET ... PX and SET ... EX: a key goes away by itself. *)
MayExpire(setter) ==
  setter # None /\ (EarlyExpiry \/ pc[setter] = "done")

ExpireLock(c) ==
  /\ MayExpire(lock[c])
  /\ lock' = [lock EXCEPT ![c] = None]
  /\ UNCHANGED <<req, pc, reply, sentinel, dbVars, rowOwner, localVars, dispatched, bounds>>

ExpireSentinel(k) ==
  /\ MayExpire(sentinel[k])
  /\ sentinel' = [sentinel EXCEPT ![k] = None]
  /\ UNCHANGED <<req, pc, reply, lock, dbVars, rowOwner, localVars, dispatched, bounds>>

(* Mutation: the cart row is written without being locked. *)
EditCartUnlocked(c) ==
  /\ edits < MaxEdits
  /\ edits' = edits + 1
  /\ \E items \in Fillings : cartItems' = [cartItems EXCEPT ![c] = items]
  /\ cartVersion' = [cartVersion EXCEPT ![c] = @ + 1]
  /\ UNCHANGED <<req, pc, reply, redisVars, record, rowOwner, cartStatus, stock, localVars,
                 orders, dispatched, faults>>

(* Any mutation of apps/cart/services.py, seen from here: a transaction of *)
(* its own that locks the cart row, changes its lines and bumps version.   *)
EditCart(c) ==
  /\ edits < MaxEdits
  /\ edits' = edits + 1
  /\ rowOwner[c] = None
  /\ \E items \in Fillings : cartItems' = [cartItems EXCEPT ![c] = items]
  /\ cartVersion' = [cartVersion EXCEPT ![c] = @ + 1]
  /\ UNCHANGED <<req, pc, reply, redisVars, record, rowOwner, cartStatus, stock, localVars,
                 orders, dispatched, faults>>

-----------------------------------------------------------------------------
Step(r) ==
  \/ CheckSentinel(r) \/ MarkInProgress(r) \/ AcquireLock(r)
  \/ LockCart(r) \/ LockAddress(r) \/ LockMethod(r) \/ ReadItems(r)
  \/ LockCoupon(r) \/ RevalidateCoupons(r) \/ ReserveStock(r) \/ Commit(r)
  \/ DispatchPayment(r) \/ ReleaseLock(r) \/ ClearSentinel(r)

Failure(r) == RedisFails(r) \/ CleanupFails(r) \/ BrokerFails(r) \/ Crash(r)

(* Every request has been answered and every TTL has run out. *)
Quiet ==
  /\ \A r \in Requests : pc[r] = "done"
  /\ UNCHANGED vars

Next ==
  \/ \E r \in Requests : CheckRecord(r) \/ Step(r) \/ DeadlockVictim(r) \/ Failure(r)
  \/ \E c \in CartIds : ExpireLock(c)
  \/ \E k \in Keys : ExpireSentinel(k)
  \/ \E c \in Carts : EditCart(c)
  \/ Quiet

Spec == Init /\ [][Next]_vars

(* A worker that has begun a request goes on with it, Postgres resolves    *)
(* deadlocks (deadlock_timeout) and Redis expires keys (PX, EX).  Clients  *)
(* owe no request, the environment owes no failure and no edit.            *)
Fairness ==
  /\ \A r \in Requests : WF_vars(Step(r)) /\ WF_vars(DeadlockVictim(r))
  /\ \A c \in CartIds : WF_vars(ExpireLock(c))
  /\ \A k \in Keys : WF_vars(ExpireSentinel(k))

FairSpec == Spec /\ Fairness

-----------------------------------------------------------------------------
(* Properties *)

TypeOK ==
  /\ req \in [Requests -> Inputs]
  /\ pc \in [Requests -> Phases]
  /\ reply \in [Requests -> [status : Statuses, order : Owners]]
  /\ sentinel \in [Keys -> Owners]
  /\ lock \in [CartIds -> Owners]
  /\ record \in [Keys -> Owners]
  /\ rowOwner \in [Rows -> Owners]
  /\ cartStatus \in [Carts -> {"ACTIVE", "CHECKED_OUT"}]
  /\ cartVersion \in [Carts -> Nat]
  /\ cartItems \in [Carts -> Fillings]
  /\ stock \in [Products -> Nat]
  /\ lines \in [Requests -> [Products -> Nat]]
  /\ todo \in [Requests -> SUBSET (Products \cup Coupons)]
  /\ target \in [Requests -> Products \cup Coupons \cup {None}]
  /\ seenVersion \in [Requests -> Nat]
  /\ orders \in SUBSET Requests
  /\ dispatched \in SUBSET Requests
  /\ faults \in 0 .. MaxFaults
  /\ edits \in 0 .. MaxEdits

(* No double checkout: a cart is turned into at most one order, whatever   *)
(* keys its requests carry, whichever Redis key expires or is lost.  The   *)
(* row lock and the status check of step 4 are what it rests on.           *)
OneOrderPerCart ==
  \A o1, o2 \in orders : req[o1].cart = req[o2].cart => o1 = o2

(* Exactly-once per key: the orders and the idempotency records are one to *)
(* one, so that a retry under the same key cannot place a second order.    *)
OrdersMatchRecords ==
  /\ \A o \in orders : record[req[o].key] = o
  /\ \A k \in Keys : record[k] # None => record[k] \in orders /\ req[record[k]].key = k

(* A cart is CHECKED_OUT exactly when an order exists for it: no crash, no *)
(* rollback and no lost reply leaves one without the other.                *)
CheckedOutIffOrdered ==
  \A c \in Carts : cartStatus[c] = "CHECKED_OUT" <=> \E o \in orders : req[o].cart = c

UnitsSold(p) == SumFunction([o \in orders |-> lines[o][p]])

(* No overselling and no leaked stock: what is left and what the committed *)
(* orders took always add up to the initial stock, under any interleaving  *)
(* of the per-line UPDATEs and any rollback half way through them.         *)
StockConserved ==
  \A p \in Products : stock[p] + UnitsSold(p) = InitialStock[p]

(* A 202 names a committed order of the very cart, address and method the  *)
(* request asked for, under its own key; a refused request has no order.   *)
AnswersAreTruthful ==
  \A r \in Requests :
    /\ pc[r] = "done" /\ reply[r].status \in Successes =>
         LET o == reply[r].order IN
         o \in orders /\ Hash(o) = Hash(r) /\ req[o].key = req[r].key
    /\ reply[r].status \in Refusals => r \notin orders

(* Step 10's version guard is what its comment calls defence in depth: the *)
(* row lock makes CartStaleVersion impossible, whatever other endpoints    *)
(* write to the cart in the meantime.                                      *)
StaleVersionImpossible ==
  \A r \in Requests : reply[r].status # "stale_version"

(* No orphan task: an authorize_payment task exists only for an order that *)
(* is committed, with its record and its checked-out cart.                 *)
NoOrphanTask ==
  \A o \in dispatched :
    o \in orders /\ record[req[o].key] = o /\ cartStatus[req[o].cart] = "CHECKED_OUT"

(* "Preventing a slow checkout from releasing a lock it no longer owns":   *)
(* the lock of a working request goes away by its own release or because   *)
(* its TTL ran out, never by a step of another request.                    *)
LockFreedByItsHolder ==
  [][\A c \in CartIds :
       lock[c] # None /\ lock'[c] # lock[c] =>
         pc' = pc \/ (pc[lock[c]] = "release" /\ pc'[lock[c]] = "clear")]_vars

(* When every request is answered and nothing failed, nothing is left that *)
(* could refuse a later one: no Redis key and no row lock.                 *)
NothingLeftBehind ==
  (\A r \in Requests : pc[r] = "done") /\ faults = 0 =>
    /\ \A k \in Keys : sentinel[k] = None
    /\ \A c \in CartIds : lock[c] = None
    /\ \A x \in Rows : rowOwner[x] = None

(* As long as no TTL runs out under its setter, the Redis lock admits one  *)
(* checkout per cart from the cart's row lock up to the dispatch.          *)
CriticalSectionExclusive ==
  \A r, q \in Requests :
    r # q /\ pc[r] \in InCritical /\ pc[q] \in InCritical => req[r].cart # req[q].cart

(* ... and the sentinel lets one request per key past step 2 until its     *)
(* transaction is over and its lock released.                              *)
OneInFlightPerKey ==
  \A r, q \in Requests :
    r # q /\ pc[r] \in InFlight /\ pc[q] \in InFlight => req[r].key # req[q].key

(* Every request a worker has begun is answered: a row lock, a Redis key   *)
(* or a deadlock delays it but never for ever.                             *)
EveryRequestAnswered ==
  \A r \in Requests : pc[r] # "idle" ~> pc[r] = "done"

(* A cart or a key blocked by a Redis key, a dead worker's included, does  *)
(* not stay blocked: the client may retry.                                 *)
NeverBlockedForEver ==
  /\ \A c \in CartIds : lock[c] # None ~> lock[c] = None
  /\ \A k \in Keys : sentinel[k] # None ~> sentinel[k] = None
=============================================================================
