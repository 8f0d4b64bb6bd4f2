--------------------------- MODULE CheckoutProofs ---------------------------
(***************************************************************************)
(* Safety of Checkout for every set of requests, carts, products and keys, *)
(* and for any number of failures and edits: what is stored and answered,  *)
(* that it implements AtomicCheckout, the conservation of stock, which     *)
(* requests can wait for one another, and that no request goes back.       *)
(***************************************************************************)
EXTENDS CheckoutRefinement, SumTheorems, TLAPS

(***************************************************************************)
(* The inductive invariant.  A request past step 4 owns its cart row, and  *)
(* the cart is ACTIVE until its owner's commit: that is why two requests   *)
(* never both reach the commit of one cart.  Each product already reserved *)
(* is a locked row with enough committed stock: that is why the commit     *)
(* never drives stock below zero.                                          *)
(***************************************************************************)
OwnersInv ==
  \A r \in Requests : pc[r] \in OwnsCart =>
    /\ req[r].cart \in Carts
    /\ rowOwner[req[r].cart] = r
    /\ cartStatus[req[r].cart] = "ACTIVE"

VersionInv ==
  \A r \in Requests : pc[r] \in {"reserve", "commit"} =>
    seenVersion[r] = cartVersion[req[r].cart] + 1

ReservedInv ==
  \A r \in Requests :
    /\ pc[r] = "lock_coupons" => target[r] \in todo[r] /\ todo[r] \subseteq Coupons
    /\ pc[r] = "reserve" => target[r] \in todo[r] /\ todo[r] \subseteq Products
    /\ pc[r] = "commit" => todo[r] = {}
    /\ pc[r] \in {"reserve", "commit"} =>
         \A p \in Products \ todo[r] :
           lines[r][p] > 0 => rowOwner[p] = r /\ stock[p] >= lines[r][p]

OrdersInv ==
  /\ \A o \in orders : pc[o] \in {"dispatch", "release", "clear", "done"} /\ req[o].cart \in Carts
  /\ \A r \in Requests : pc[r] = "dispatch" => r \in orders

AnswersInv ==
  \A r \in Requests :
    /\ reply[r].status \in Successes =>
         LET o == reply[r].order IN
         o \in orders /\ Hash(o) = Hash(r) /\ req[o].key = req[r].key
    /\ reply[r].status \in Refusals =>
         r \notin orders /\ pc[r] \in {"release", "clear", "done"}

IInv ==
  /\ TypeOK
  /\ OwnersInv
  /\ VersionInv
  /\ ReservedInv
  /\ OrdersInv
  /\ AnswersInv
  /\ OneOrderPerCart
  /\ OrdersMatchRecords
  /\ CheckedOutIffOrdered
  /\ StaleVersionImpossible

-----------------------------------------------------------------------------
(* A request's cart is one the Redis lock is keyed by, its key one of Keys. *)
LEMMA RequestFacts ==
  ASSUME TypeOK, NEW r \in Requests
  PROVE  req[r].cart \in CartIds /\ req[r].key \in Keys
<1>1. req[r] \in Inputs
  BY DEF TypeOK
<1> QED  BY <1>1, InputAssumption DEF CartIds

(* The invariant holds of every initial state. *)
LEMMA InitIInv == Init => IInv
<1> SUFFICES ASSUME Init PROVE IInv
  OBVIOUS
<1> USE NoneAssumption, StockAssumption, BoundAssumption DEF Init
<1>1. TypeOK
  BY DEF TypeOK, Phases, Pending, Statuses, Owners, NoLines
<1>2. OwnersInv /\ VersionInv /\ ReservedInv
  BY DEF OwnersInv, VersionInv, ReservedInv, OwnsCart
<1>3. OrdersInv
  BY DEF OrdersInv
<1>4. AnswersInv
  BY DEF AnswersInv, Pending, Successes, Refusals
<1>5. OneOrderPerCart /\ OrdersMatchRecords /\ CheckedOutIffOrdered
  BY DEF OneOrderPerCart, OrdersMatchRecords, CheckedOutIffOrdered
<1>6. StaleVersionImpossible
  BY DEF StaleVersionImpossible, Pending
<1> QED  BY <1>1, <1>2, <1>3, <1>4, <1>5, <1>6 DEF IInv

-----------------------------------------------------------------------------
(* The steps shared by several actions. *)

(* A step that writes no row and locks none preserves the invariant when   *)
(* the one request it moves neither enters a transaction nor answers       *)
(* anything untrue.                                                        *)
LEMMA NoRowTouched ==
  ASSUME IInv, TypeOK', NEW r \in Requests,
         UNCHANGED <<req, record, cartStatus, cartVersion, stock, orders, rowOwner, localVars>>,
         \A q \in Requests \ {r} : pc'[q] = pc[q] /\ reply'[q] = reply[q],
         pc'[r] \notin OwnsCart,
         r \in orders => pc'[r] \in {"dispatch", "release", "clear", "done"},
         pc'[r] = "dispatch" => r \in orders,
         reply'[r].status \in Successes =>
           /\ reply'[r].order \in orders
           /\ Hash(reply'[r].order) = Hash(r)
           /\ req[reply'[r].order].key = req[r].key,
         reply'[r].status \in Refusals =>
           r \notin orders /\ pc'[r] \in {"release", "clear", "done"},
         reply'[r].status # "stale_version"
  PROVE  IInv'
<1> USE DEF localVars, IInv
<1>1. OwnersInv'
  BY DEF OwnersInv, OwnsCart
<1>2. VersionInv' /\ ReservedInv'
  BY DEF VersionInv, ReservedInv, OwnsCart
<1>3. OrdersInv'
  BY DEF OrdersInv, TypeOK
<1>4. AnswersInv'
  <2>1. \A q \in Requests \ {r} : reply'[q] = reply[q] /\ pc'[q] = pc[q]
    OBVIOUS
  <2> QED  BY <2>1 DEF AnswersInv, Hash
<1>5. OneOrderPerCart' /\ OrdersMatchRecords' /\ CheckedOutIffOrdered'
  BY DEF OneOrderPerCart, OrdersMatchRecords, CheckedOutIffOrdered
<1>6. StaleVersionImpossible'
  BY DEF StaleVersionImpossible
<1> QED  BY <1>1, <1>2, <1>3, <1>4, <1>5, <1>6

(* A rollback preserves the invariant. *)
LEMMA AbortIInv ==
  ASSUME IInv, NEW r \in Requests, NEW status \in Statuses, Abort(r, status),
         status \notin Successes, status # "stale_version",
         pc[r] \in InTransaction
  PROVE  IInv'
<1> USE NoneAssumption DEF Abort, Goto, Answer, ReleaseRows, redisVars, dbVars, bounds, IInv
<1>1. TypeOK'
  BY DEF TypeOK, Phases, Owners
<1>2. OwnersInv'
  BY DEF OwnersInv, OwnsCart, TypeOK, Rows
<1>3. VersionInv'
  BY DEF VersionInv, TypeOK
<1>4. ReservedInv'
  BY DEF ReservedInv, TypeOK, Rows
<1>5. OrdersInv'
  BY DEF OrdersInv, TypeOK
<1>6. AnswersInv'
  BY DEF AnswersInv, TypeOK, Hash, OrdersInv, InTransaction, OwnsCart
<1>7. OneOrderPerCart' /\ OrdersMatchRecords' /\ CheckedOutIffOrdered'
  BY DEF OneOrderPerCart, OrdersMatchRecords, CheckedOutIffOrdered
<1>8. StaleVersionImpossible'
  BY DEF StaleVersionImpossible, TypeOK
<1> QED  BY <1>1, <1>2, <1>3, <1>4, <1>5, <1>6, <1>7, <1>8

(* The answer a step writes is of the right type. *)
LEMMA AnswerType ==
  ASSUME TypeOK, NEW r \in Requests, NEW status \in Statuses, NEW order \in Owners,
         Answer(r, status, order)
  PROVE  /\ reply' \in [Requests -> [status : Statuses, order : Owners]]
         /\ reply'[r].status = status /\ reply'[r].order = order
         /\ \A q \in Requests \ {r} : reply'[q] = reply[q]
BY DEF TypeOK, Answer

(* So is the phase a step moves to. *)
LEMMA GotoType ==
  ASSUME TypeOK, NEW r \in Requests, NEW phase \in Phases, Goto(r, phase)
  PROVE  /\ pc' \in [Requests -> Phases]
         /\ pc'[r] = phase
         /\ \A q \in Requests \ {r} : pc'[q] = pc[q]
BY DEF TypeOK, Goto

(* What may change besides the request's own phase and answer. *)
RedisOrTask ==
  /\ UNCHANGED <<req, dbVars, rowOwner, localVars, edits>>
  /\ sentinel' \in [Keys -> Owners]
  /\ lock' \in [CartIds -> Owners]
  /\ dispatched' \in SUBSET Requests
  /\ faults' \in 0 .. MaxFaults

(* A request goes on without an answer, outside any transaction. *)
LEMMA MovesOn ==
  ASSUME IInv, NEW r \in Requests, NEW phase \in Phases \ OwnsCart,
         Goto(r, phase), UNCHANGED reply, RedisOrTask,
         phase = "dispatch" => r \in orders,
         r \in orders \/ reply[r].status \in Refusals =>
           phase \in {"dispatch", "release", "clear", "done"},
         reply[r].status \in Refusals => phase # "dispatch"
  PROVE  IInv'
<1>1. TypeOK /\ AnswersInv /\ StaleVersionImpossible
  BY DEF IInv
<1>2. /\ pc' \in [Requests -> Phases]
      /\ pc'[r] = phase
      /\ \A q \in Requests \ {r} : pc'[q] = pc[q]
  BY <1>1, GotoType
<1>3. TypeOK'
  BY <1>1, <1>2 DEF TypeOK, RedisOrTask, dbVars, localVars
<1>4. UNCHANGED <<req, record, cartStatus, cartVersion, stock, orders, rowOwner, localVars>>
  BY DEF RedisOrTask, dbVars
<1>5. reply[r].status # "stale_version"
  BY <1>1 DEF StaleVersionImpossible
<1>6. /\ reply[r].status \in Successes =>
           /\ reply[r].order \in orders
           /\ Hash(reply[r].order) = Hash(r)
           /\ req[reply[r].order].key = req[r].key
      /\ reply[r].status \in Refusals => r \notin orders
  BY <1>1 DEF AnswersInv
<1> QED  BY <1>2, <1>3, <1>4, <1>5, <1>6, NoRowTouched

(* A request is given its answer, outside any transaction. *)
LEMMA AnswersAndMovesOn ==
  ASSUME IInv, NEW r \in Requests, NEW phase \in {"release", "clear", "done"},
         NEW status \in Statuses, NEW order \in Owners,
         Goto(r, phase), Answer(r, status, order), RedisOrTask,
         status \in Successes =>
           order \in orders /\ Hash(order) = Hash(r) /\ req[order].key = req[r].key,
         status \in Refusals => r \notin orders /\ status # "stale_version"
  PROVE  IInv'
<1>1. TypeOK
  BY DEF IInv
<1>2. /\ pc' \in [Requests -> Phases]
      /\ pc'[r] = phase
      /\ \A q \in Requests \ {r} : pc'[q] = pc[q]
  BY <1>1, GotoType DEF Phases
<1>3. /\ reply' \in [Requests -> [status : Statuses, order : Owners]]
      /\ reply'[r].status = status /\ reply'[r].order = order
      /\ \A q \in Requests \ {r} : reply'[q] = reply[q]
  BY <1>1, AnswerType
<1>4. TypeOK'
  BY <1>1, <1>2, <1>3 DEF TypeOK, RedisOrTask, dbVars, localVars
<1>5. UNCHANGED <<req, record, cartStatus, cartVersion, stock, orders, rowOwner, localVars>>
  BY DEF RedisOrTask, dbVars
<1>6. pc'[r] \notin OwnsCart
  BY <1>2 DEF OwnsCart
<1>7. reply'[r].status # "stale_version"
  BY <1>3 DEF Refusals
<1> QED  BY <1>2, <1>3, <1>4, <1>5, <1>6, <1>7, NoRowTouched

(* What a request before its transaction has not done yet. *)
LEMMA NoOrderYet ==
  ASSUME IInv, NEW r \in Requests,
         pc[r] \in {"idle", "check_sentinel", "mark", "acquire", "lock_cart"} \cup OwnsCart
  PROVE  r \notin orders /\ reply[r].status \notin Refusals
BY DEF IInv, OrdersInv, AnswersInv, OwnsCart

-----------------------------------------------------------------------------
(* Steps outside the transaction *)

(* A replay names the order its key and payload belong to. *)
LEMMA CheckRecordIInv ==
  ASSUME IInv, NEW r \in Requests, CheckRecord(r)
  PROVE  IInv'
<1>1. TypeOK /\ r \notin orders /\ reply[r].status \notin Refusals
  BY NoOrderYet DEF IInv, CheckRecord
<1>2. RedisOrTask
  BY <1>1 DEF RedisOrTask, CheckRecord, redisVars, bounds, TypeOK
<1>3. CASE Goto(r, "check_sentinel") /\ UNCHANGED reply
  BY <1>1, <1>2, <1>3, MovesOn DEF Phases, OwnsCart
<1>4. CASE Goto(r, "done") /\ Answer(r, "conflict", None)
  BY <1>1, <1>2, <1>4, AnswersAndMovesOn DEF Statuses, Refusals, Successes, Owners
<1>5. ASSUME record[req[r].key] # None, Hash(record[req[r].key]) = Hash(r),
             Goto(r, "done"), Answer(r, "replay", record[req[r].key])
      PROVE  IInv'
  <2> DEFINE o == record[req[r].key]
  <2>1. req[r].key \in Keys
    BY <1>1, RequestFacts
  <2>2. o \in orders /\ req[o].key = req[r].key
    BY <1>5, <2>1 DEF IInv, OrdersMatchRecords
  <2>3. o \in Owners
    BY <1>1, <2>1 DEF TypeOK
  <2> QED  BY <1>2, <1>5, <2>2, <2>3, AnswersAndMovesOn DEF Statuses, Refusals, Successes
<1> QED  BY <1>3, <1>4, <1>5 DEF CheckRecord

(* Finding the sentinel set or not preserves the invariant; ... *)
LEMMA CheckSentinelIInv ==
  ASSUME IInv, NEW r \in Requests, CheckSentinel(r)
  PROVE  IInv'
<1>1. TypeOK /\ r \notin orders /\ reply[r].status \notin Refusals
  BY NoOrderYet DEF IInv, CheckSentinel
<1>2. RedisOrTask
  BY <1>1 DEF RedisOrTask, CheckSentinel, redisVars, bounds, TypeOK
<1>3. CASE Goto(r, "mark") /\ UNCHANGED reply
  BY <1>1, <1>2, <1>3, MovesOn DEF Phases, OwnsCart
<1>4. CASE Goto(r, "done") /\ Answer(r, "in_progress", None)
  BY <1>1, <1>2, <1>4, AnswersAndMovesOn DEF Statuses, Refusals, Successes, Owners
<1> QED  BY <1>3, <1>4 DEF CheckSentinel

(* ... so does setting it, ... *)
LEMMA MarkInProgressIInv ==
  ASSUME IInv, NEW r \in Requests, MarkInProgress(r)
  PROVE  IInv'
<1>1. TypeOK /\ r \notin orders /\ reply[r].status \notin Refusals
  BY NoOrderYet DEF IInv, MarkInProgress
<1>2. req[r].key \in Keys
  BY <1>1, RequestFacts
<1>3. RedisOrTask
  BY <1>1, <1>2 DEF RedisOrTask, MarkInProgress, bounds, TypeOK, Owners
<1>4. CASE Goto(r, "acquire") /\ UNCHANGED reply
  BY <1>1, <1>3, <1>4, MovesOn DEF Phases, OwnsCart
<1>5. CASE Goto(r, "done") /\ Answer(r, "in_progress", None)
  BY <1>1, <1>3, <1>5, AnswersAndMovesOn DEF Statuses, Refusals, Successes, Owners
<1> QED  BY <1>4, <1>5 DEF MarkInProgress

(* ... taking the Redis lock or finding it taken, ... *)
LEMMA AcquireLockIInv ==
  ASSUME IInv, NEW r \in Requests, AcquireLock(r)
  PROVE  IInv'
<1>1. TypeOK /\ r \notin orders /\ reply[r].status \notin Refusals
  BY NoOrderYet DEF IInv, AcquireLock
<1>2. req[r].cart \in CartIds
  BY <1>1, RequestFacts
<1>3. RedisOrTask
  BY <1>1, <1>2 DEF RedisOrTask, AcquireLock, bounds, TypeOK, Owners
<1>4. CASE Goto(r, "lock_cart") /\ UNCHANGED reply
  BY <1>1, <1>3, <1>4, MovesOn DEF Phases, OwnsCart
<1>5. CASE Goto(r, "clear") /\ Answer(r, "locked", None)
  BY <1>1, <1>3, <1>5, AnswersAndMovesOn DEF Statuses, Refusals, Successes, Owners
<1> QED  BY <1>4, <1>5 DEF AcquireLock

(* ... sending the payment task, ... *)
LEMMA DispatchPaymentIInv ==
  ASSUME IInv, NEW r \in Requests, DispatchPayment(r)
  PROVE  IInv'
<1>1. TypeOK
  BY DEF IInv
<1>2. RedisOrTask
  BY <1>1 DEF RedisOrTask, DispatchPayment, redisVars, bounds, TypeOK
<1> QED  BY <1>2, MovesOn DEF DispatchPayment, Phases, OwnsCart

(* ... releasing the Redis lock ... *)
LEMMA ReleaseLockIInv ==
  ASSUME IInv, NEW r \in Requests, ReleaseLock(r)
  PROVE  IInv'
<1>1. TypeOK
  BY DEF IInv
<1>2. RedisOrTask
  BY <1>1, RequestFacts DEF RedisOrTask, ReleaseLock, bounds, TypeOK, Owners
<1> QED  BY <1>2, MovesOn DEF ReleaseLock, Phases, OwnsCart

(* ... and clearing the sentinel. *)
LEMMA ClearSentinelIInv ==
  ASSUME IInv, NEW r \in Requests, ClearSentinel(r)
  PROVE  IInv'
<1>1. TypeOK
  BY DEF IInv
<1>2. RedisOrTask
  BY <1>1, RequestFacts DEF RedisOrTask, ClearSentinel, bounds, TypeOK, Owners
<1> QED  BY <1>2, MovesOn DEF ClearSentinel, Phases, OwnsCart

(* A Redis call that raises has answered nothing untrue, ... *)
LEMMA RedisFailsIInv ==
  ASSUME IInv, NEW r \in Requests, RedisFails(r)
  PROVE  IInv'
<1>1. TypeOK
  BY DEF IInv
<1>2. req[r].cart \in CartIds /\ req[r].key \in Keys
  BY <1>1, RequestFacts
<1>3. sentinel' \in [Keys -> Owners] /\ lock' \in [CartIds -> Owners]
  <2>1. /\ [sentinel EXCEPT ![req[r].key] = IF @ = None THEN r ELSE @] \in [Keys -> Owners]
        /\ [lock EXCEPT ![req[r].cart] = IF @ = None THEN r ELSE @] \in [CartIds -> Owners]
        /\ sentinel \in [Keys -> Owners] /\ lock \in [CartIds -> Owners]
    BY <1>1, <1>2 DEF TypeOK, Owners
  <2> QED  BY <2>1 DEF RedisFails, redisVars
<1>4. faults' \in 0 .. MaxFaults
  BY <1>1, BoundAssumption DEF RedisFails, Fault, TypeOK
<1>5. RedisOrTask
  BY <1>1, <1>3, <1>4 DEF RedisOrTask, RedisFails, TypeOK
<1>6. Answer(r, "redis_error", None) /\ (Goto(r, "done") \/ Goto(r, "clear"))
  BY DEF RedisFails
<1> QED  BY <1>5, <1>6, AnswersAndMovesOn DEF Statuses, ServerErrors, Refusals, Successes, Owners

(* ... a clean-up that fails changes no answer, ... *)
LEMMA CleanupFailsIInv ==
  ASSUME IInv, NEW r \in Requests, CleanupFails(r)
  PROVE  IInv'
<1>1. TypeOK
  BY DEF IInv
<1>2. faults' \in 0 .. MaxFaults
  BY <1>1, BoundAssumption DEF CleanupFails, Fault, TypeOK
<1>3. RedisOrTask
  BY <1>1, <1>2 DEF RedisOrTask, CleanupFails, redisVars, TypeOK
<1> QED  BY <1>3, MovesOn DEF CleanupFails, Phases, OwnsCart

(* ... and a broker that refuses the task leaves the order committed. *)
LEMMA BrokerFailsIInv ==
  ASSUME IInv, NEW r \in Requests, BrokerFails(r)
  PROVE  IInv'
<1>1. TypeOK
  BY DEF IInv
<1>2. faults' \in 0 .. MaxFaults
  BY <1>1, BoundAssumption DEF BrokerFails, Fault, TypeOK
<1>3. RedisOrTask
  BY <1>1, <1>2 DEF RedisOrTask, BrokerFails, redisVars, TypeOK
<1> QED  BY <1>3, AnswersAndMovesOn
         DEF BrokerFails, Statuses, ServerErrors, Refusals, Successes, Owners

-----------------------------------------------------------------------------
(* Steps inside the transaction *)

(* Locking one more row preserves the invariant; the first row locked is   *)
(* an ACTIVE cart.                                                         *)
LEMMA LockRowIInv ==
  ASSUME IInv, NEW r \in Requests, NEW row \in Rows,
         NEW next \in {"lock_address", "lock_method", "read_items"},
         LockRow(r, row, next),
         pc[r] \in {"lock_cart", "lock_address", "lock_method"},
         pc[r] = "lock_cart" =>
           row = req[r].cart /\ row \in Carts /\ cartStatus[row] = "ACTIVE"
  PROVE  IInv'
<1> USE NoneAssumption DEF LockRow, redisVars, dbVars, localVars, bounds, IInv
<1>1. /\ pc' \in [Requests -> Phases]
      /\ pc'[r] = next
      /\ \A q \in Requests \ {r} : pc'[q] = pc[q]
  BY GotoType DEF Phases
<1>2. /\ rowOwner' \in [Rows -> Owners]
      /\ rowOwner'[row] = r
      /\ \A x \in Rows : rowOwner[x] # None => rowOwner'[x] = rowOwner[x]
  BY DEF TypeOK, Owners
<1>3. TypeOK'
  BY <1>1, <1>2 DEF TypeOK
<1>4. OwnersInv'
  <2> SUFFICES ASSUME NEW q \in Requests, pc'[q] \in OwnsCart
               PROVE  /\ req[q].cart \in Carts
                      /\ rowOwner'[req[q].cart] = q
                      /\ cartStatus[req[q].cart] = "ACTIVE"
    BY DEF OwnersInv
  <2>1. CASE pc[q] \in OwnsCart
    BY <1>2, <2>1 DEF OwnersInv, Rows
  <2>2. CASE pc[q] \notin OwnsCart
    BY <1>1, <1>2, <2>2 DEF OwnsCart
  <2> QED  BY <2>1, <2>2
<1>5. VersionInv'
  BY <1>1 DEF VersionInv
<1>6. ReservedInv'
  BY <1>1, <1>2 DEF ReservedInv, Rows
<1>11. r \notin orders /\ reply[r].status \notin Refusals
  BY NoOrderYet DEF OwnsCart
<1>7. OrdersInv'
  BY <1>1, <1>11 DEF OrdersInv, TypeOK
<1>8. AnswersInv'
  BY <1>1, <1>11 DEF AnswersInv, Hash
<1>9. OneOrderPerCart' /\ OrdersMatchRecords' /\ CheckedOutIffOrdered'
  BY DEF OneOrderPerCart, OrdersMatchRecords, CheckedOutIffOrdered
<1>10. StaleVersionImpossible'
  BY DEF StaleVersionImpossible
<1> QED  BY <1>3, <1>4, <1>5, <1>6, <1>7, <1>8, <1>9, <1>10

(* Locking the cart row, or refusing the cart, preserves the invariant. *)
LEMMA LockCartIInv ==
  ASSUME IInv, NEW r \in Requests, LockCart(r)
  PROVE  IInv'
<1> DEFINE c == req[r].cart
<1>1. CASE c \in Carts /\ cartStatus[c] = "ACTIVE" /\ LockRow(r, c, "lock_address")
  BY <1>1, LockRowIInv DEF LockCart, Rows
<1>2. CASE Abort(r, "cart_not_found")
  BY <1>2, AbortIInv DEF LockCart, InTransaction, Statuses, Refusals, Successes
<1>3. CASE Abort(r, "already_checked_out")
  BY <1>3, AbortIInv DEF LockCart, InTransaction, Statuses, Refusals, Successes
<1> QED  BY <1>1, <1>2, <1>3 DEF LockCart

(* So does locking the address row, or refusing the address ... *)
LEMMA LockAddressIInv ==
  ASSUME IInv, NEW r \in Requests, LockAddress(r)
  PROVE  IInv'
<1> DEFINE a == req[r].address
<1>1. CASE a \in Addresses /\ LockRow(r, a, "lock_method")
  BY <1>1, LockRowIInv DEF LockAddress, Rows
<1>2. CASE Abort(r, "address_not_found")
  BY <1>2, AbortIInv DEF LockAddress, InTransaction, OwnsCart, Statuses, Refusals, Successes
<1> QED  BY <1>1, <1>2 DEF LockAddress

(* ... and the payment method row. *)
LEMMA LockMethodIInv ==
  ASSUME IInv, NEW r \in Requests, LockMethod(r)
  PROVE  IInv'
<1> DEFINE m == req[r].method
<1>1. CASE m \in PaymentMethods /\ LockRow(r, m, "read_items")
  BY <1>1, LockRowIInv DEF LockMethod, Rows
<1>2. CASE Abort(r, "method_invalid")
  BY <1>2, AbortIInv DEF LockMethod, InTransaction, OwnsCart, Statuses, Refusals, Successes
<1> QED  BY <1>1, <1>2 DEF LockMethod

(* A step of a transaction that stays inside it, answers nothing and locks *)
(* or writes no row preserves the parts of the invariant about orders.     *)
LEMMA StaysInTransaction ==
  ASSUME IInv, NEW r \in Requests, NEW phase \in OwnsCart,
         pc[r] \in OwnsCart, Goto(r, phase),
         UNCHANGED <<req, reply, record, cartStatus, orders>>
  PROVE  /\ OrdersInv' /\ AnswersInv' /\ OneOrderPerCart' /\ OrdersMatchRecords'
         /\ CheckedOutIffOrdered' /\ StaleVersionImpossible'
<1> USE DEF IInv
<1>1. /\ pc'[r] = phase
      /\ \A q \in Requests \ {r} : pc'[q] = pc[q]
  BY GotoType DEF Phases, OwnsCart
<1>2. r \notin orders /\ reply[r].status \notin Refusals
  BY NoOrderYet
<1>3. OrdersInv'
  BY <1>1, <1>2 DEF OrdersInv, OwnsCart, TypeOK
<1>4. AnswersInv'
  BY <1>1, <1>2 DEF AnswersInv, Hash
<1>5. OneOrderPerCart' /\ OrdersMatchRecords' /\ CheckedOutIffOrdered'
  BY DEF OneOrderPerCart, OrdersMatchRecords, CheckedOutIffOrdered
<1>6. StaleVersionImpossible'
  BY DEF StaleVersionImpossible
<1> QED  BY <1>3, <1>4, <1>5, <1>6

(* Reading the cart's lines and coupons preserves the invariant. *)
LEMMA ReadItemsIInv ==
  ASSUME IInv, NEW r \in Requests, ReadItems(r)
  PROVE  IInv'
<1> DEFINE items == cartItems[req[r].cart]
<1>1. CASE Abort(r, "cart_empty")
  BY <1>1, AbortIInv DEF ReadItems, InTransaction, OwnsCart, Statuses, Refusals, Successes
<1>2. CASE ~Abort(r, "cart_empty")
  <2>1. /\ pc[r] = "read_items"
        /\ lines' = [lines EXCEPT ![r] = items]
        /\ UNCHANGED <<req, reply, redisVars, dbVars, rowOwner, seenVersion, dispatched,
                       bounds>>
    BY <1>2 DEF ReadItems
  <2>2. TypeOK /\ OwnersInv /\ VersionInv /\ ReservedInv
    BY DEF IInv
  <2> DEFINE ReadOn ==
        /\ todo' \in [Requests -> SUBSET (Products \cup Coupons)]
        /\ target' \in [Requests -> Products \cup Coupons \cup {None}]
        /\ \A q \in Requests \ {r} : todo'[q] = todo[q] /\ target'[q] = target[q]
        /\ \/ Goto(r, "revalidate")
           \/ /\ Goto(r, "lock_coupons")
              /\ target'[r] \in todo'[r] /\ todo'[r] \subseteq Coupons
  <2>3. ReadOn
    <3>1. CASE Goto(r, "revalidate") /\ UNCHANGED <<todo, target>>
      BY <2>2, <3>1 DEF TypeOK
    <3>2. ASSUME NEW applied \in CouponSets, NEW q \in applied,
                 todo' = [todo EXCEPT ![r] = applied],
                 target' = [target EXCEPT ![r] = q],
                 Goto(r, "lock_coupons")
          PROVE  ReadOn
      <4>1. applied \subseteq Coupons
        BY CouponAssumption
      <4> QED  BY <2>2, <3>2, <4>1 DEF TypeOK
    <3> QED  BY <1>2, <3>1, <3>2 DEF ReadItems
  <2>4. PICK phase \in {"revalidate", "lock_coupons"} : Goto(r, phase)
    BY <2>3
  <2>5. /\ pc' \in [Requests -> Phases]
        /\ pc'[r] = phase
        /\ \A q \in Requests \ {r} : pc'[q] = pc[q]
    BY <2>2, <2>4, GotoType DEF Phases
  <2>6. items \in [Products -> Nat]
    BY <2>1, <2>2, StockAssumption DEF OwnersInv, OwnsCart, TypeOK
  <2>7. /\ lines' \in [Requests -> [Products -> Nat]]
        /\ \A q \in Requests \ {r} : lines'[q] = lines[q]
    BY <2>1, <2>2, <2>6 DEF TypeOK
  <2>8. TypeOK'
    BY <2>1, <2>2, <2>3, <2>5, <2>7 DEF TypeOK, redisVars, dbVars, bounds
  <2>9. OwnersInv'
    BY <2>1, <2>2, <2>5 DEF OwnersInv, OwnsCart, dbVars
  <2>10. VersionInv'
    BY <2>1, <2>2, <2>5 DEF VersionInv, dbVars
  <2>11. pc'[r] = "lock_coupons" => target'[r] \in todo'[r] /\ todo'[r] \subseteq Coupons
    BY <2>2, <2>3 DEF Goto, TypeOK
  <2>12. ReservedInv'
    BY <2>1, <2>2, <2>3, <2>5, <2>7, <2>11 DEF ReservedInv, dbVars
  <2> QED  BY <2>1, <2>4, <2>8, <2>9, <2>10, <2>12, StaysInTransaction
           DEF IInv, OwnsCart, dbVars
<1> QED  BY <1>1, <1>2

(* Locking a coupon row preserves the invariant. *)
LEMMA LockCouponIInv ==
  ASSUME IInv, NEW r \in Requests, LockCoupon(r)
  PROVE  IInv'
<1> DEFINE c == target[r]
           rest == todo[r] \ {c}
<1>1. /\ pc[r] = "lock_coupons"
      /\ rowOwner[c] = None
      /\ rowOwner' = [rowOwner EXCEPT ![c] = r]
      /\ todo' = [todo EXCEPT ![r] = rest]
      /\ \/ rest = {} /\ target' = [target EXCEPT ![r] = None] /\ Goto(r, "revalidate")
         \/ (\E n \in rest : target' = [target EXCEPT ![r] = n]) /\ UNCHANGED pc
      /\ UNCHANGED <<req, reply, redisVars, dbVars, lines, seenVersion, dispatched, bounds>>
  BY DEF LockCoupon
<1>2. TypeOK /\ OwnersInv /\ VersionInv /\ ReservedInv
  BY DEF IInv
<1>3. c \in todo[r] /\ todo[r] \subseteq Coupons /\ c \in Rows
  BY <1>1, <1>2 DEF ReservedInv, Rows
<1>4. /\ rowOwner' \in [Rows -> Owners]
      /\ rowOwner'[c] = r
      /\ \A x \in Rows : rowOwner[x] # None => rowOwner'[x] = rowOwner[x]
  BY <1>1, <1>2, <1>3 DEF TypeOK, Owners
<1>5. /\ todo' \in [Requests -> SUBSET (Products \cup Coupons)]
      /\ todo'[r] = rest
      /\ \A q \in Requests \ {r} : todo'[q] = todo[q]
  BY <1>1, <1>2 DEF TypeOK
<1>6. PICK phase \in {"lock_coupons", "revalidate"} : Goto(r, phase)
  BY <1>1, <1>2 DEF Goto, TypeOK
<1>7. /\ pc' \in [Requests -> Phases]
      /\ pc'[r] = phase
      /\ \A q \in Requests \ {r} : pc'[q] = pc[q]
  BY <1>2, <1>6, GotoType DEF Phases
<1>8. /\ target' \in [Requests -> Products \cup Coupons \cup {None}]
      /\ \A q \in Requests \ {r} : target'[q] = target[q]
      /\ pc'[r] = "lock_coupons" => target'[r] \in rest
  <2>1. CASE target' = [target EXCEPT ![r] = None] /\ Goto(r, "revalidate")
    BY <1>2, <2>1 DEF TypeOK, Goto
  <2>2. CASE \E n \in rest : target' = [target EXCEPT ![r] = n]
    BY <1>2, <1>3, <2>2 DEF TypeOK
  <2> QED  BY <1>1, <2>1, <2>2
<1>9. TypeOK'
  BY <1>1, <1>2, <1>4, <1>5, <1>7, <1>8 DEF TypeOK, redisVars, dbVars, bounds
<1>10. OwnersInv'
  BY <1>1, <1>2, <1>4, <1>7, NoneAssumption DEF OwnersInv, OwnsCart, Rows, dbVars
<1>11. VersionInv'
  BY <1>1, <1>2, <1>7 DEF VersionInv, dbVars
<1>12. ReservedInv'
  BY <1>1, <1>2, <1>3, <1>4, <1>5, <1>7, <1>8, NoneAssumption DEF ReservedInv, Rows, dbVars
<1> QED  BY <1>1, <1>6, <1>9, <1>10, <1>11, <1>12, StaysInTransaction DEF IInv, OwnsCart, dbVars

(* Revalidating the coupons and starting the reservation loop. *)
LEMMA RevalidateCouponsIInv ==
  ASSUME IInv, NEW r \in Requests, RevalidateCoupons(r)
  PROVE  IInv'
<1>1. CASE Abort(r, "coupon_invalid")
  BY <1>1, AbortIInv
     DEF RevalidateCoupons, InTransaction, OwnsCart, Statuses, Refusals, Successes
<1>2. CASE ~Abort(r, "coupon_invalid")
  <2>1. /\ pc[r] = "revalidate"
        /\ seenVersion' = [seenVersion EXCEPT ![r] = cartVersion[req[r].cart] + 1]
        /\ todo' = [todo EXCEPT ![r] = {p \in Products : lines[r][p] > 0}]
        /\ \E p \in todo'[r] : target' = [target EXCEPT ![r] = p]
        /\ Goto(r, "reserve")
        /\ UNCHANGED <<req, reply, redisVars, dbVars, rowOwner, lines, dispatched, bounds>>
    BY <1>2 DEF RevalidateCoupons
  <2>2. TypeOK /\ OwnersInv /\ VersionInv /\ ReservedInv
    BY DEF IInv
  <2>3. /\ pc' \in [Requests -> Phases]
        /\ pc'[r] = "reserve"
        /\ \A q \in Requests \ {r} : pc'[q] = pc[q]
    BY <2>1, <2>2, GotoType DEF Phases
  <2>4. req[r].cart \in Carts
    BY <2>1, <2>2 DEF OwnersInv, OwnsCart
  <2>5. /\ todo' \in [Requests -> SUBSET (Products \cup Coupons)]
        /\ todo'[r] = {p \in Products : lines[r][p] > 0}
        /\ \A q \in Requests \ {r} : todo'[q] = todo[q]
    BY <2>1, <2>2 DEF TypeOK
  <2>6. /\ target' \in [Requests -> Products \cup Coupons \cup {None}]
        /\ target'[r] \in todo'[r]
        /\ \A q \in Requests \ {r} : target'[q] = target[q]
    BY <2>1, <2>2, <2>5 DEF TypeOK
  <2>7. /\ seenVersion' \in [Requests -> Nat]
        /\ seenVersion'[r] = cartVersion[req[r].cart] + 1
        /\ \A q \in Requests \ {r} : seenVersion'[q] = seenVersion[q]
    BY <2>1, <2>2, <2>4 DEF TypeOK
  <2>8. TypeOK'
    BY <2>1, <2>2, <2>3, <2>5, <2>6, <2>7 DEF TypeOK, redisVars, dbVars, bounds
  <2>9. OwnersInv'
    BY <2>1, <2>2, <2>3 DEF OwnersInv, OwnsCart, dbVars
  <2>10. VersionInv'
    BY <2>1, <2>2, <2>3, <2>7 DEF VersionInv, dbVars
  <2>11. ReservedInv'
    BY <2>1, <2>2, <2>3, <2>5, <2>6 DEF ReservedInv, dbVars
  <2> QED  BY <2>1, <2>8, <2>9, <2>10, <2>11, StaysInTransaction DEF IInv, OwnsCart, dbVars
<1> QED  BY <1>1, <1>2

(* Reserving one product: its row is now locked with enough stock in it. *)
LEMMA ReserveStockIInv ==
  ASSUME IInv, NEW r \in Requests, ReserveStock(r)
  PROVE  IInv'
<1> DEFINE p == target[r]
           rest == todo[r] \ {p}
<1>1. CASE Abort(r, "out_of_stock")
  BY <1>1, AbortIInv
     DEF ReserveStock, InTransaction, OwnsCart, Statuses, Refusals, Successes
<1>2. CASE ~Abort(r, "out_of_stock")
  <2>1. /\ pc[r] = "reserve"
        /\ stock[p] >= lines[r][p]
        /\ rowOwner[p] = None
        /\ rowOwner' = [rowOwner EXCEPT ![p] = r]
        /\ todo' = [todo EXCEPT ![r] = rest]
        /\ \/ rest = {} /\ target' = [target EXCEPT ![r] = None] /\ Goto(r, "commit")
           \/ (\E q \in rest : target' = [target EXCEPT ![r] = q]) /\ UNCHANGED pc
        /\ UNCHANGED <<req, reply, redisVars, dbVars, lines, seenVersion, dispatched, bounds>>
    BY <1>2 DEF ReserveStock
  <2>2. TypeOK /\ OwnersInv /\ VersionInv /\ ReservedInv
    BY DEF IInv
  <2>3. p \in todo[r] /\ todo[r] \subseteq Products /\ p \in Rows
    BY <2>1, <2>2 DEF ReservedInv, Rows
  <2>4. /\ rowOwner' \in [Rows -> Owners]
        /\ rowOwner'[p] = r
        /\ \A x \in Rows : rowOwner[x] # None => rowOwner'[x] = rowOwner[x]
    BY <2>1, <2>2, <2>3 DEF TypeOK, Owners
  <2>5. /\ todo' \in [Requests -> SUBSET (Products \cup Coupons)]
        /\ todo'[r] = rest
        /\ \A q \in Requests \ {r} : todo'[q] = todo[q]
    BY <2>1, <2>2 DEF TypeOK
  <2>6. PICK phase \in {"reserve", "commit"} : Goto(r, phase)
    BY <2>1, <2>2 DEF Goto, TypeOK
  <2>7. /\ pc' \in [Requests -> Phases]
        /\ pc'[r] = phase
        /\ \A q \in Requests \ {r} : pc'[q] = pc[q]
    BY <2>2, <2>6, GotoType DEF Phases
  <2>8. /\ target' \in [Requests -> Products \cup Coupons \cup {None}]
        /\ \A q \in Requests \ {r} : target'[q] = target[q]
        /\ pc'[r] = "reserve" => target'[r] \in rest
        /\ pc'[r] = "commit" => rest = {}
    <3>1. CASE rest = {} /\ target' = [target EXCEPT ![r] = None] /\ Goto(r, "commit")
      BY <2>2, <3>1 DEF TypeOK, Goto
    <3>2. CASE (\E q \in rest : target' = [target EXCEPT ![r] = q]) /\ UNCHANGED pc
      BY <2>1, <2>2, <3>2 DEF TypeOK
    <3> QED  BY <2>1, <3>1, <3>2
  <2>9. TypeOK'
    BY <2>1, <2>2, <2>4, <2>5, <2>7, <2>8 DEF TypeOK, redisVars, dbVars, bounds
  <2>10. OwnersInv'
    BY <2>1, <2>2, <2>4, <2>7, NoneAssumption DEF OwnersInv, OwnsCart, Rows, dbVars
  <2>11. VersionInv'
    BY <2>1, <2>2, <2>7 DEF VersionInv, dbVars
  <2>12. ReservedInv'
    <3> SUFFICES ASSUME NEW q \in Requests
                 PROVE  /\ pc'[q] = "lock_coupons" =>
                             target'[q] \in todo'[q] /\ todo'[q] \subseteq Coupons
                        /\ pc'[q] = "reserve" =>
                             target'[q] \in todo'[q] /\ todo'[q] \subseteq Products
                        /\ pc'[q] = "commit" => todo'[q] = {}
                        /\ pc'[q] \in {"reserve", "commit"} =>
                             \A x \in Products \ todo'[q] :
                               lines[q][x] > 0 => rowOwner'[x] = q /\ stock[x] >= lines[q][x]
      BY <2>1 DEF ReservedInv, dbVars
    <3>1. CASE q = r
      BY <2>1, <2>2, <2>3, <2>4, <2>5, <2>6, <2>7, <2>8, <3>1, NoneAssumption
         DEF ReservedInv, Rows
    <3>2. CASE q # r
      BY <2>2, <2>4, <2>5, <2>7, <2>8, <3>2, NoneAssumption DEF ReservedInv, Rows
    <3> QED  BY <3>1, <3>2
  <2> QED  BY <2>1, <2>6, <2>9, <2>10, <2>11, <2>12, StaysInTransaction
           DEF IInv, OwnsCart, dbVars
<1> QED  BY <1>1, <1>2

(* The commit.  Its version guard cannot fail, no order of this cart or    *)
(* record of this key exists, and every unit it deducts is reserved.       *)
LEMMA CommitIInv ==
  ASSUME IInv, NEW r \in Requests, Commit(r)
  PROVE  IInv'
<1> DEFINE c == req[r].cart
           k == req[r].key
<1>1. TypeOK /\ OwnersInv /\ VersionInv /\ ReservedInv /\ OrdersInv /\ AnswersInv
  BY DEF IInv
<1>2. pc[r] = "commit" /\ c \in Carts /\ k \in Keys
  BY <1>1, RequestFacts DEF Commit, OwnersInv, OwnsCart
<1>3. CartUnchanged(r)
  BY <1>1, <1>2 DEF CartUnchanged, OwnersInv, OwnsCart, VersionInv
<1>4. CASE Abort(r, "integrity_error")
  BY <1>2, <1>4, AbortIInv
     DEF InTransaction, OwnsCart, Statuses, ServerErrors, Refusals, Successes
<1>5. CASE ~Abort(r, "integrity_error")
  <2>1. /\ cartStatus[c] = "ACTIVE"
        /\ record[k] = None
        /\ record' = [record EXCEPT ![k] = r]
        /\ orders' = orders \cup {r}
        /\ cartStatus' = [cartStatus EXCEPT ![c] = "CHECKED_OUT"]
        /\ cartVersion' = [cartVersion EXCEPT ![c] = @ + 2]
        /\ stock' = [p \in Products |-> stock[p] - lines[r][p]]
        /\ ReleaseRows(r)
        /\ Answer(r, "accepted", r)
        /\ Goto(r, "dispatch")
        /\ UNCHANGED <<req, redisVars, cartItems, localVars, dispatched, bounds>>
    BY <1>3, <1>5 DEF Commit, CartUnchanged
  <2>2. /\ pc' \in [Requests -> Phases]
        /\ pc'[r] = "dispatch"
        /\ \A q \in Requests \ {r} : pc'[q] = pc[q]
    BY <1>1, <2>1, GotoType DEF Phases
  <2>3. /\ reply' \in [Requests -> [status : Statuses, order : Owners]]
        /\ reply'[r].status = "accepted" /\ reply'[r].order = r
        /\ \A q \in Requests \ {r} : reply'[q] = reply[q]
    BY <1>1, <2>1, AnswerType DEF Statuses, Owners
  <2>4. /\ rowOwner' \in [Rows -> Owners]
        /\ \A x \in Rows : rowOwner[x] # r => rowOwner'[x] = rowOwner[x]
    BY <1>1, <2>1 DEF TypeOK, ReleaseRows, Owners
  <2>5. \A p \in Products : lines[r][p] > 0 => rowOwner[p] = r /\ stock[p] >= lines[r][p]
    BY <1>1, <1>2 DEF ReservedInv
  <2>6. /\ stock' \in [Products -> Nat]
        /\ \A p \in Products : rowOwner[p] # r => stock'[p] = stock[p]
    <3>1. \A p \in Products : lines[r][p] \in Nat /\ stock[p] \in Nat
      BY <1>1 DEF TypeOK
    <3>2. \A p \in Products : stock[p] - lines[r][p] \in Nat
      BY <2>5, <3>1
    <3>3. \A p \in Products : rowOwner[p] # r => stock[p] - lines[r][p] = stock[p]
      BY <2>5, <3>1
    <3> QED  BY <2>1, <3>2, <3>3
  <2>7. r \notin orders
    BY <1>2, NoOrderYet DEF OwnsCart
  <2>8. /\ record' \in [Keys -> Owners] /\ record'[k] = r
        /\ \A j \in Keys \ {k} : record'[j] = record[j]
    BY <1>1, <1>2, <2>1 DEF TypeOK, Owners
  <2>9. /\ cartStatus' \in [Carts -> {"ACTIVE", "CHECKED_OUT"}]
        /\ cartVersion' \in [Carts -> Nat]
        /\ cartStatus'[c] = "CHECKED_OUT"
        /\ \A d \in Carts \ {c} : cartStatus'[d] = cartStatus[d] /\ cartVersion'[d] = cartVersion[d]
    BY <1>1, <1>2, <2>1 DEF TypeOK
  <2>10. TypeOK'
    BY <1>1, <2>1, <2>2, <2>3, <2>4, <2>6, <2>8, <2>9 DEF TypeOK, redisVars, localVars, bounds
  <2>11. \A q \in Requests \ {r} : pc[q] \in OwnsCart =>
           req[q].cart \in Carts \ {c} /\ rowOwner[req[q].cart] = q
    BY <1>1, <1>2 DEF OwnersInv, OwnsCart
  <2>12. OwnersInv'
    BY <1>1, <2>1, <2>2, <2>4, <2>9, <2>11 DEF OwnersInv, OwnsCart, Rows
  <2>13. VersionInv'
    BY <1>1, <2>1, <2>2, <2>9, <2>11 DEF VersionInv, OwnsCart, localVars
  <2>14. ReservedInv'
    BY <1>1, <2>1, <2>2, <2>4, <2>6 DEF ReservedInv, Rows, localVars
  <2>15. OrdersInv'
    BY <1>1, <1>2, <2>1, <2>2 DEF OrdersInv, TypeOK
  <2>16. AnswersInv'
    <3> SUFFICES ASSUME NEW q \in Requests
                 PROVE  /\ reply'[q].status \in Successes =>
                             /\ reply'[q].order \in orders'
                             /\ Hash(reply'[q].order) = Hash(q)
                             /\ req[reply'[q].order].key = req[q].key
                        /\ reply'[q].status \in Refusals =>
                             q \notin orders' /\ pc'[q] \in {"release", "clear", "done"}
      BY <2>1 DEF AnswersInv, Hash
    <3>1. CASE q = r
      BY <2>1, <2>3, <3>1 DEF Refusals
    <3>2. CASE q # r
      BY <1>1, <2>1, <2>2, <2>3, <3>2 DEF AnswersInv
    <3> QED  BY <3>1, <3>2
  <2>17. \A o \in orders : req[o].cart # c
    BY <1>2, <2>1 DEF IInv, CheckedOutIffOrdered
  <2>18. OneOrderPerCart'
    BY <2>1, <2>17 DEF IInv, OneOrderPerCart
  <2>19. OrdersMatchRecords'
    <3>1. \A o \in orders : o \in Requests /\ req[o].key \in Keys
      BY <1>1, RequestFacts DEF TypeOK
    <3> QED  BY <2>1, <2>8, <3>1, NoneAssumption DEF IInv, OrdersMatchRecords
  <2>20. CheckedOutIffOrdered'
    BY <2>1, <2>9, <2>17 DEF IInv, CheckedOutIffOrdered
  <2>21. StaleVersionImpossible'
    BY <2>3 DEF IInv, StaleVersionImpossible
  <2> QED  BY <2>10, <2>12, <2>13, <2>14, <2>15, <2>16, <2>18, <2>19, <2>20, <2>21 DEF IInv
<1> QED  BY <1>4, <1>5

(* The transaction Postgres picks to break a deadlock rolls back. *)
LEMMA DeadlockVictimIInv ==
  ASSUME IInv, NEW r \in Requests, DeadlockVictim(r)
  PROVE  IInv'
<1>1. pc[r] \in {"lock_coupons", "reserve"}
  BY DEF DeadlockVictim, InCycle, WaitsFor
<1> QED  BY <1>1, AbortIInv
         DEF DeadlockVictim, InTransaction, OwnsCart, Statuses, ServerErrors, Successes

-----------------------------------------------------------------------------
(* The environment *)

(* A worker that dies leaves its keys and no lock. *)
LEMMA CrashIInv ==
  ASSUME IInv, NEW r \in Requests, Crash(r)
  PROVE  IInv'
<1> USE NoneAssumption DEF Crash, Goto, Answer, ReleaseRows, redisVars, dbVars, IInv
<1>1. faults' \in 0 .. MaxFaults
  BY BoundAssumption DEF Fault, TypeOK
<1>2. TypeOK'
  BY <1>1 DEF TypeOK, Phases, Owners, Statuses, ServerErrors
<1>3. OwnersInv'
  BY DEF OwnersInv, OwnsCart, TypeOK, Rows
<1>4. VersionInv'
  BY DEF VersionInv, TypeOK
<1>5. ReservedInv'
  BY DEF ReservedInv, TypeOK, Rows
<1>6. OrdersInv'
  BY DEF OrdersInv, TypeOK
<1>7. AnswersInv'
  BY DEF AnswersInv, TypeOK, Hash, Refusals, Successes
<1>8. OneOrderPerCart' /\ OrdersMatchRecords' /\ CheckedOutIffOrdered'
  BY DEF OneOrderPerCart, OrdersMatchRecords, CheckedOutIffOrdered
<1>9. StaleVersionImpossible'
  BY DEF StaleVersionImpossible, TypeOK
<1> QED  BY <1>2, <1>3, <1>4, <1>5, <1>6, <1>7, <1>8, <1>9

(* What the invariant speaks of, Redis and the cart lines aside. *)
LEMMA NothingMoves ==
  ASSUME IInv, TypeOK',
         UNCHANGED <<req, pc, reply, record, rowOwner, cartStatus, cartVersion, stock,
                     localVars, orders>>
  PROVE  IInv'
<1> USE DEF IInv, localVars
<1>1. OwnersInv' /\ VersionInv' /\ ReservedInv' /\ OrdersInv'
  BY DEF OwnersInv, VersionInv, ReservedInv, OrdersInv
<1>2. AnswersInv' /\ StaleVersionImpossible'
  BY DEF AnswersInv, Hash, StaleVersionImpossible
<1>3. OneOrderPerCart' /\ OrdersMatchRecords' /\ CheckedOutIffOrdered'
  BY DEF OneOrderPerCart, OrdersMatchRecords, CheckedOutIffOrdered
<1> QED  BY <1>1, <1>2, <1>3

(* No TTL, however short, endangers the invariant: Redis is no part of it. *)
LEMMA ExpiryIInv ==
  ASSUME IInv, (\E c \in CartIds : ExpireLock(c)) \/ (\E k \in Keys : ExpireSentinel(k))
  PROVE  IInv'
<1>1. TypeOK'
  BY DEF IInv, TypeOK, ExpireLock, ExpireSentinel, dbVars, localVars, bounds, Owners
<1> QED  BY <1>1, NothingMoves DEF ExpireLock, ExpireSentinel, dbVars

(* Other endpoints write a cart only while no checkout owns its row. *)
LEMMA EditCartIInv ==
  ASSUME IInv, NEW c \in Carts, EditCart(c)
  PROVE  IInv'
<1> USE DEF EditCart, redisVars, localVars, IInv
<1>1. TypeOK'
  <2>1. edits' \in 0 .. MaxEdits
    BY BoundAssumption DEF TypeOK
  <2>2. cartItems' \in [Carts -> Fillings] /\ cartVersion' \in [Carts -> Nat]
    BY DEF TypeOK
  <2> QED  BY <2>1, <2>2 DEF TypeOK
<1>2. OwnersInv' /\ ReservedInv' /\ OrdersInv'
  BY DEF OwnersInv, ReservedInv, OrdersInv
<1>3. VersionInv'
  <2>1. \A r \in Requests : pc[r] \in {"reserve", "commit"} => req[r].cart \in Carts \ {c}
    BY NoneAssumption DEF OwnersInv, OwnsCart
  <2> QED  BY <2>1 DEF VersionInv, TypeOK
<1>4. AnswersInv' /\ StaleVersionImpossible'
  BY DEF AnswersInv, Hash, StaleVersionImpossible
<1>5. OneOrderPerCart' /\ OrdersMatchRecords' /\ CheckedOutIffOrdered'
  BY DEF OneOrderPerCart, OrdersMatchRecords, CheckedOutIffOrdered
<1> QED  BY <1>1, <1>2, <1>3, <1>4, <1>5

-----------------------------------------------------------------------------
(* Every step preserves the invariant. *)
LEMMA NextIInv == IInv /\ [Next]_vars => IInv'
<1> SUFFICES ASSUME IInv, [Next]_vars PROVE IInv'
  OBVIOUS
<1>1. ASSUME NEW r \in Requests, CheckRecord(r) PROVE IInv'
  BY <1>1, CheckRecordIInv
<1>2. ASSUME NEW r \in Requests, Step(r) PROVE IInv'
  BY <1>2, CheckSentinelIInv, MarkInProgressIInv, AcquireLockIInv, LockCartIInv,
     LockAddressIInv, LockMethodIInv, ReadItemsIInv, LockCouponIInv, RevalidateCouponsIInv,
     ReserveStockIInv, CommitIInv, DispatchPaymentIInv, ReleaseLockIInv, ClearSentinelIInv
     DEF Step
<1>3. ASSUME NEW r \in Requests, DeadlockVictim(r) PROVE IInv'
  BY <1>3, DeadlockVictimIInv
<1>4. ASSUME NEW r \in Requests, Failure(r) PROVE IInv'
  BY <1>4, RedisFailsIInv, CleanupFailsIInv, BrokerFailsIInv, CrashIInv DEF Failure
<1>5. CASE (\E c \in CartIds : ExpireLock(c)) \/ (\E k \in Keys : ExpireSentinel(k))
  BY <1>5, ExpiryIInv
<1>6. ASSUME NEW c \in Carts, EditCart(c) PROVE IInv'
  BY <1>6, EditCartIInv
<1>7. CASE UNCHANGED vars
  <2>1. TypeOK'
    BY <1>7 DEF vars, IInv, TypeOK
  <2> QED  BY <1>7, <2>1, NothingMoves DEF vars, localVars
<1> QED  BY <1>1, <1>2, <1>3, <1>4, <1>5, <1>6, <1>7 DEF Next, Quiet

(* The invariant holds throughout checkout, its conjuncts below. *)
THEOREM Invariance == Spec => []IInv
BY InitIInv, NextIInv, PTL DEF Spec

(* Type correctness; in particular stock never becomes negative. *)
THEOREM TypeCorrect == Spec => []TypeOK
<1>1. IInv => TypeOK
  BY DEF IInv
<1> QED  BY <1>1, Invariance, PTL

(* No cart is turned into two orders. *)
THEOREM NoDoubleCheckout == Spec => []OneOrderPerCart
<1>1. IInv => OneOrderPerCart
  BY DEF IInv
<1> QED  BY <1>1, Invariance, PTL

(* No idempotency key has two orders, and its record is the order's. *)
THEOREM ExactlyOncePerKey == Spec => []OrdersMatchRecords
<1>1. IInv => OrdersMatchRecords
  BY DEF IInv
<1> QED  BY <1>1, Invariance, PTL

(* A cart is closed exactly when its order exists. *)
THEOREM ClosedWithItsOrder == Spec => []CheckedOutIffOrdered
<1>1. IInv => CheckedOutIffOrdered
  BY DEF IInv
<1> QED  BY <1>1, Invariance, PTL

(* An answer names the order its request asked for; a refusal has none. *)
THEOREM TruthfulAnswers == Spec => []AnswersAreTruthful
<1>1. IInv => AnswersAreTruthful
  BY DEF IInv, AnswersInv, AnswersAreTruthful
<1> QED  BY <1>1, Invariance, PTL

(* The version guard of step 10 never fires: the row lock is enough. *)
THEOREM VersionGuardRedundant == Spec => []StaleVersionImpossible
<1>1. IInv => StaleVersionImpossible
  BY DEF IInv
<1> QED  BY <1>1, Invariance, PTL

-----------------------------------------------------------------------------
DispatchedInv == dispatched \subseteq orders

(* Committed orders stay, and only committed orders are dispatched. *)
LEMMA OnlyOrdersDispatched == IInv /\ DispatchedInv /\ [Next]_vars => DispatchedInv'
<1> SUFFICES ASSUME IInv, dispatched \subseteq orders, [Next]_vars
             PROVE  dispatched' \subseteq orders'
  BY DEF DispatchedInv
<1> USE DEF redisVars, dbVars, localVars, bounds
<1>1. ASSUME NEW r \in Requests, NEW status, Abort(r, status)
      PROVE  dispatched' = dispatched /\ orders' = orders
  BY <1>1 DEF Abort
<1>2. ASSUME NEW r \in Requests, NEW row, NEW next, LockRow(r, row, next)
      PROVE  dispatched' = dispatched /\ orders' = orders
  BY <1>2 DEF LockRow
<1>3. ASSUME NEW r \in Requests, CheckRecord(r) \/ Step(r)
      PROVE  dispatched' \subseteq orders'
  <2>1. CASE CheckRecord(r) \/ CheckSentinel(r) \/ MarkInProgress(r) \/ AcquireLock(r)
    BY <2>1 DEF CheckRecord, CheckSentinel, MarkInProgress, AcquireLock
  <2>2. CASE LockCart(r) \/ LockAddress(r) \/ LockMethod(r)
    BY <1>1, <1>2, <2>2 DEF LockCart, LockAddress, LockMethod
  <2>3. CASE \/ ReadItems(r) \/ LockCoupon(r) \/ RevalidateCoupons(r) \/ ReserveStock(r)
             \/ Commit(r)
    BY <1>1, <2>3 DEF ReadItems, LockCoupon, RevalidateCoupons, ReserveStock, Commit
  <2>4. CASE DispatchPayment(r)
    BY <2>4 DEF DispatchPayment, IInv, OrdersInv
  <2>5. CASE ReleaseLock(r) \/ ClearSentinel(r)
    BY <2>5 DEF ReleaseLock, ClearSentinel
  <2> QED  BY <1>3, <2>1, <2>2, <2>3, <2>4, <2>5 DEF Step
<1>4. ASSUME NEW r \in Requests, DeadlockVictim(r) \/ Failure(r)
      PROVE  dispatched' \subseteq orders'
  BY <1>1, <1>4 DEF DeadlockVictim, Failure, RedisFails, CleanupFails, BrokerFails, Crash
<1>5. CASE \/ \E c \in CartIds : ExpireLock(c)
           \/ \E k \in Keys : ExpireSentinel(k)
           \/ \E c \in Carts : EditCart(c)
           \/ UNCHANGED vars
  BY <1>5 DEF ExpireLock, ExpireSentinel, EditCart, vars
<1> QED  BY <1>3, <1>4, <1>5 DEF Next, Quiet

(* A payment task exists only for an order that is committed whole. *)
THEOREM NoOrphanPaymentTask == Spec => []NoOrphanTask
<1>1. Init => DispatchedInv
  BY DEF Init, DispatchedInv
<1>2. IInv /\ DispatchedInv => NoOrphanTask
  BY DEF DispatchedInv, IInv, OrdersInv, OrdersMatchRecords, CheckedOutIffOrdered, NoOrphanTask
<1> QED  BY <1>1, <1>2, OnlyOrdersDispatched, Invariance, PTL DEF Spec

-----------------------------------------------------------------------------
(* Conservation of stock                                                   *)

(* Orders are committed one at a time, so that there are finitely many and *)
(* their units add up.                                                     *)
StockInv == IsFiniteSet(orders) /\ StockConserved

(* A step that commits nothing leaves the stock, the orders and the lines  *)
(* of the committed orders alone: what an order holds was read before it   *)
(* was committed.                                                          *)
Unsold ==
  /\ stock' = stock
  /\ orders' = orders
  /\ \A o \in orders : lines'[o] = lines[o]

LEMMA UnsoldKeepsStock ==
  ASSUME StockInv, Unsold
  PROVE  StockInv'
<1>1. ASSUME NEW p \in Products
      PROVE  [o \in orders' |-> lines'[o][p]] = [o \in orders |-> lines[o][p]]
  BY DEF Unsold
<1> QED  BY <1>1 DEF StockInv, StockConserved, UnitsSold, Unsold

(* An order takes from the stock of every product what its lines hold.     *)
LEMMA OrderTakesStock ==
  ASSUME IInv, StockInv, NEW r \in Requests, r \notin orders,
         orders' = orders \cup {r}, lines' = lines,
         stock' = [p \in Products |-> stock[p] - lines[r][p]]
  PROVE  StockInv'
<1>1. IsFiniteSet(orders')
  BY FS_AddElement DEF StockInv
<1>2. ASSUME NEW p \in Products
      PROVE  stock'[p] + UnitsSold(p)' = InitialStock[p]
  <2> DEFINE sold == [o \in orders |-> lines[o][p]]
             soldNow == [o \in orders \cup {r} |-> lines[o][p]]
  <2>1. \A o \in orders \cup {r} : lines[o][p] \in Nat
    BY DEF IInv, TypeOK
  <2>2. SumFunction(soldNow) = SumFunction(sold) + soldNow[r]
    <3>1. /\ DOMAIN sold = orders /\ DOMAIN soldNow = orders \cup {r}
          /\ \A o \in DOMAIN sold : soldNow[o] = sold[o]
          /\ \A o \in DOMAIN soldNow : soldNow[o] \in Int
      BY <2>1
    <3>2. IsFiniteSet(DOMAIN sold) /\ r \notin DOMAIN sold /\ DOMAIN soldNow = DOMAIN sold \cup {r}
      BY <3>1 DEF StockInv
    <3> HIDE DEF sold, soldNow
    <3> QED  BY <3>1, <3>2, SumFunctionAdd
  <2>3. SumFunction(sold) \in Nat
    BY <2>1, SumFunctionNat DEF StockInv
  <2>4. UnitsSold(p) = SumFunction(sold) /\ UnitsSold(p)' = SumFunction(soldNow)
    BY DEF UnitsSold
  <2>5. stock'[p] = stock[p] - lines[r][p] /\ soldNow[r] = lines[r][p] /\ stock[p] \in Nat
    BY DEF IInv, TypeOK
  <2>6. stock[p] + UnitsSold(p) = InitialStock[p]
    BY DEF StockInv, StockConserved
  <2> HIDE DEF sold, soldNow
  <2> QED  BY <2>1, <2>2, <2>3, <2>4, <2>5, <2>6
<1> QED  BY <1>1, <1>2 DEF StockInv, StockConserved

(* Only the commit sells, and only the reading of a cart rewrites lines.   *)
LEMMA SellsOrNot ==
  ASSUME IInv, [Next]_vars
  PROVE  \/ Unsold
         \/ \E r \in Requests \ orders :
              /\ orders' = orders \cup {r} /\ lines' = lines
              /\ stock' = [p \in Products |-> stock[p] - lines[r][p]]
<1> USE DEF redisVars, dbVars, localVars, bounds
<1>1. ASSUME UNCHANGED <<stock, orders, lines>> PROVE Unsold
  BY <1>1 DEF Unsold
<1>2. ASSUME NEW r \in Requests, NEW status, Abort(r, status) PROVE Unsold
  BY <1>1, <1>2 DEF Abort
<1>3. ASSUME NEW r \in Requests, NEW row, NEW next, LockRow(r, row, next) PROVE Unsold
  BY <1>1, <1>3 DEF LockRow
<1>4. ASSUME NEW r \in Requests,
             \/ CheckRecord(r) \/ CheckSentinel(r) \/ MarkInProgress(r) \/ AcquireLock(r)
             \/ DispatchPayment(r) \/ ReleaseLock(r) \/ ClearSentinel(r)
      PROVE  Unsold
  BY <1>1, <1>4 DEF CheckRecord, CheckSentinel, MarkInProgress, AcquireLock, DispatchPayment,
                    ReleaseLock, ClearSentinel
<1>5. ASSUME NEW r \in Requests, LockCart(r) \/ LockAddress(r) \/ LockMethod(r)
      PROVE  Unsold
  BY <1>2, <1>3, <1>5 DEF LockCart, LockAddress, LockMethod
<1>6. ASSUME NEW r \in Requests, ReadItems(r)
      PROVE  Unsold
  <2>1. r \notin orders
    BY <1>6 DEF ReadItems, IInv, OrdersInv
  <2>2. CASE lines' = [lines EXCEPT ![r] = cartItems[req[r].cart]] /\ UNCHANGED dbVars
    BY <2>1, <2>2 DEF Unsold, IInv, TypeOK
  <2> QED  BY <1>2, <1>6, <2>2 DEF ReadItems
<1>7. ASSUME NEW r \in Requests, LockCoupon(r) \/ RevalidateCoupons(r) \/ ReserveStock(r)
      PROVE  Unsold
  BY <1>1, <1>2, <1>7 DEF LockCoupon, RevalidateCoupons, ReserveStock
<1>8. ASSUME NEW r \in Requests, Commit(r), ~Unsold
      PROVE  /\ r \notin orders /\ orders' = orders \cup {r} /\ lines' = lines
             /\ stock' = [p \in Products |-> stock[p] - lines[r][p]]
  BY <1>2, <1>8 DEF Commit, IInv, OrdersInv
<1>9. ASSUME NEW r \in Requests, DeadlockVictim(r) \/ Failure(r)
      PROVE  Unsold
  BY <1>1, <1>2, <1>9 DEF DeadlockVictim, Failure, RedisFails, CleanupFails, BrokerFails, Crash
<1>10. CASE \/ \E c \in CartIds : ExpireLock(c)
            \/ \E k \in Keys : ExpireSentinel(k)
            \/ \E c \in Carts : EditCart(c)
            \/ UNCHANGED vars
  BY <1>1, <1>10 DEF ExpireLock, ExpireSentinel, EditCart, vars
<1> QED  BY <1>4, <1>5, <1>6, <1>7, <1>8, <1>9, <1>10 DEF Next, Step, Quiet

(* What is left of a product and what the orders took of it always add up  *)
(* to the initial stock: nothing is oversold, and no rollback leaks stock. *)
THEOREM StockIsConserved == Spec => []StockConserved
<1>1. Init => StockInv
  <2> SUFFICES ASSUME Init PROVE StockInv
    OBVIOUS
  <2>1. ASSUME NEW p \in Products PROVE UnitsSold(p) = 0 /\ InitialStock[p] \in Nat
    BY SumFunctionEmpty, StockAssumption DEF Init, UnitsSold
  <2> QED  BY <2>1, FS_EmptySet DEF Init, StockInv, StockConserved
<1>2. IInv /\ StockInv /\ [Next]_vars => StockInv'
  BY SellsOrNot, UnsoldKeepsStock, OrderTakesStock
<1>3. StockInv => StockConserved
  BY DEF StockInv
<1> QED  BY <1>1, <1>2, <1>3, Invariance, PTL DEF Spec

-----------------------------------------------------------------------------
(* Who may wait for whom                                                   *)

(* Rows are locked table by table: a row is held only by a request that is *)
(* past the statement that locks its table, or still at it in the loops    *)
(* over the coupons of step 7 and the products of step 8.                  *)
Depth(phase) ==
  CASE phase = "lock_cart"    -> 1
    [] phase = "lock_address" -> 2
    [] phase = "lock_method"  -> 3
    [] phase = "read_items"   -> 4
    [] phase = "lock_coupons" -> 5
    [] phase = "revalidate"   -> 6
    [] phase = "reserve"      -> 7
    [] phase = "commit"       -> 8
    [] OTHER -> 0

Table(x) ==
  IF x \in Carts THEN 1
  ELSE IF x \in Addresses THEN 2
  ELSE IF x \in PaymentMethods THEN 3
  ELSE IF x \in Coupons THEN 4
  ELSE 6

HeldInv == \A x \in Rows : rowOwner[x] # None => Depth(pc[rowOwner[x]]) > Table(x)

(* r sends a SELECT FOR UPDATE or an UPDATE and q has the row, a coupon or *)
(* a product in the case of WaitsFor.                                      *)
WaitsForRow(r, q) ==
  \/ pc[r] = "lock_cart" /\ req[r].cart \in Carts /\ rowOwner[req[r].cart] = q
  \/ pc[r] = "lock_address" /\ req[r].address \in Addresses /\ rowOwner[req[r].address] = q
  \/ pc[r] = "lock_method" /\ req[r].method \in PaymentMethods /\ rowOwner[req[r].method] = q
  \/ WaitsFor(r, q)

(* Every member of S waits for a member and keeps a member waiting.        *)
WaitsInCircles(S) ==
  \A s \in S : (\E t \in S : WaitsForRow(s, t)) /\ (\E t \in S : WaitsForRow(t, s))

TablesDisjoint ==
  /\ Carts \cap (Addresses \cup PaymentMethods \cup Coupons \cup Products) = {}
  /\ Addresses \cap (PaymentMethods \cup Coupons \cup Products) = {}
  /\ PaymentMethods \cap (Coupons \cup Products) = {}
  /\ Coupons \cap Products = {}

LEMMA DepthType ==
  ASSUME NEW phase
  PROVE  Depth(phase) \in 0..8
  BY DEF Depth

LEMMA HeldKept ==
  ASSUME TypeOK, HeldInv, NEW r \in Requests,
         \A q \in Requests \ {r} : pc'[q] = pc[q],
         \A x \in Rows : rowOwner'[x] \in {None, rowOwner[x], r},
         \A x \in Rows : rowOwner'[x] = r => Depth(pc'[r]) > Table(x)
  PROVE  HeldInv'
<1> SUFFICES ASSUME NEW x \in Rows, rowOwner'[x] # None
             PROVE  Depth(pc'[rowOwner'[x]]) > Table(x)
  BY DEF HeldInv, Table
<1>1. CASE rowOwner'[x] = r
  BY <1>1
<1>2. CASE rowOwner'[x] # r
  <2> DEFINE q == rowOwner[x]
  <2>1. rowOwner'[x] = q /\ q \in Requests \ {r}
    BY <1>2 DEF TypeOK, Owners
  <2>2. pc'[q] = pc[q] /\ Depth(pc[q]) > Table(x)
    BY <2>1 DEF HeldInv
  <2> HIDE DEF q
  <2>3. Depth(pc'[q]) = Depth(pc[q])
    BY <2>2 DEF Depth
  <2> QED  BY <2>1, <2>2, <2>3
<1> QED  BY <1>1, <1>2

(* Outside its transaction a request holds no row.                         *)
LEMMA HoldsNothing ==
  ASSUME TypeOK, HeldInv, NEW r \in Requests, pc[r] \notin OwnsCart
  PROVE  \A x \in Rows : rowOwner[x] # r
<1>1. Depth(pc[r]) \in {0, 1}
  BY DEF Depth, OwnsCart
<1>2. \A x \in Rows : Table(x) \in {1, 2, 3, 4, 6}
  BY DEF Table
<1> QED  BY <1>1, <1>2, NoneAssumption DEF HeldInv

(* A row is locked at the statement for its table, which the request then  *)
(* leaves, or stays at until all of its coupons or products are locked.    *)
LEMMA HeldWhenLocked ==
  ASSUME TypeOK, HeldInv, NEW r \in Requests, NEW row \in Rows,
         rowOwner' = [rowOwner EXCEPT ![row] = r],
         \A q \in Requests \ {r} : pc'[q] = pc[q],
         Depth(pc'[r]) > Table(row), Depth(pc'[r]) >= Depth(pc[r])
  PROVE  HeldInv'
<1>1. \A x \in Rows : rowOwner'[x] = IF x = row THEN r ELSE rowOwner[x]
  BY DEF TypeOK
<1>2. ASSUME NEW x \in Rows, rowOwner'[x] = r
      PROVE  Depth(pc'[r]) > Table(x)
  <2>1. CASE x = row
    BY <2>1
  <2>2. CASE x # row
    <3>1. Depth(pc[r]) > Table(x)
      BY <1>1, <1>2, <2>2, NoneAssumption DEF HeldInv
    <3>2. Depth(pc[r]) \in Int /\ Depth(pc'[r]) \in Int /\ Table(x) \in Int
      BY DepthType DEF Depth, Table
    <3> QED  BY <3>1, <3>2
  <2> QED  BY <2>1, <2>2
<1> QED  BY <1>1, <1>2, HeldKept

LEMMA HeldWhileMoving ==
  ASSUME TypeOK, HeldInv, NEW r \in Requests, NEW phase \in Phases, Goto(r, phase),
         UNCHANGED rowOwner, Depth(pc'[r]) >= Depth(pc[r])
  PROVE  HeldInv'
<1>1. \A q \in Requests \ {r} : pc'[q] = pc[q]
  BY GotoType
<1>2. ASSUME NEW x \in Rows, rowOwner'[x] = r
      PROVE  Depth(pc'[r]) > Table(x)
  <2>1. Depth(pc[r]) > Table(x)
    BY <1>2, NoneAssumption DEF HeldInv
  <2>2. Depth(pc[r]) \in Int /\ Depth(pc'[r]) \in Int /\ Table(x) \in Int
    BY DepthType DEF Depth, Table
  <2> QED  BY <2>1, <2>2
<1> QED  BY <1>1, <1>2, HeldKept

LEMMA HeldWhenReleased ==
  ASSUME TypeOK, HeldInv, NEW r \in Requests, ReleaseRows(r),
         \A q \in Requests \ {r} : pc'[q] = pc[q]
  PROVE  HeldInv'
<1>1. \A x \in Rows : rowOwner'[x] \in {None, rowOwner[x]} /\ rowOwner'[x] # r
  BY NoneAssumption DEF ReleaseRows
<1> QED  BY <1>1, HeldKept

LEMMA HeldInTransaction ==
  ASSUME TypeOK, ReservedInv, HeldInv, NEW r \in Requests,
         LockCart(r) \/ LockAddress(r) \/ LockMethod(r) \/ ReadItems(r) \/ LockCoupon(r)
           \/ RevalidateCoupons(r) \/ ReserveStock(r) \/ Commit(r) \/ DeadlockVictim(r)
  PROVE  HeldInv'
<1>1. CASE \E status : Abort(r, status)
  <2>1. ReleaseRows(r) /\ \A q \in Requests \ {r} : pc'[q] = pc[q]
    BY <1>1 DEF Abort, Goto, TypeOK
  <2> QED  BY <2>1, HeldWhenReleased
<1>2. ASSUME NEW row \in Rows, NEW phase \in OwnsCart, LockRow(r, row, phase),
             \/ pc[r] = "lock_cart" /\ row \in Carts /\ phase = "lock_address"
             \/ pc[r] = "lock_address" /\ row \in Addresses /\ phase = "lock_method"
             \/ pc[r] = "lock_method" /\ row \in PaymentMethods /\ phase = "read_items"
      PROVE  HeldInv'
  <2>1. /\ rowOwner' = [rowOwner EXCEPT ![row] = r]
        /\ pc'[r] = phase /\ \A q \in Requests \ {r} : pc'[q] = pc[q]
    BY <1>2 DEF LockRow, Goto, TypeOK
  <2>2. Depth(pc'[r]) > Table(row) /\ Depth(pc'[r]) >= Depth(pc[r])
    BY <1>2, <2>1 DEF Depth, Table
  <2> QED  BY <2>1, <2>2, HeldWhenLocked
<1>3. CASE LockCart(r) \/ LockAddress(r) \/ LockMethod(r)
  BY <1>1, <1>2, <1>3 DEF LockCart, LockAddress, LockMethod, Rows, OwnsCart
<1>4. CASE (ReadItems(r) \/ RevalidateCoupons(r)) /\ ~\E status : Abort(r, status)
  <2>1. PICK phase \in {"lock_coupons", "revalidate", "reserve"} :
          /\ Goto(r, phase) /\ UNCHANGED rowOwner
          /\ pc[r] = IF phase = "reserve" THEN "revalidate" ELSE "read_items"
    BY <1>4 DEF ReadItems, RevalidateCoupons
  <2>2. pc'[r] = phase
    BY <2>1 DEF Goto, TypeOK
  <2>3. Depth(pc'[r]) >= Depth(pc[r])
    BY <2>1, <2>2 DEF Depth
  <2> QED  BY <2>1, <2>3, HeldWhileMoving DEF Phases
<1>7. CASE LockCoupon(r)
  <2>1. /\ pc[r] = "lock_coupons" /\ pc'[r] \in {"lock_coupons", "revalidate"}
        /\ \A q \in Requests \ {r} : pc'[q] = pc[q]
        /\ rowOwner' = [rowOwner EXCEPT ![target[r]] = r]
    BY <1>7 DEF LockCoupon, Goto, TypeOK
  <2>2. target[r] \in Coupons /\ target[r] \in Rows
    BY <1>7, <2>1 DEF ReservedInv, Rows
  <2>3. Depth(pc'[r]) \in {5, 6} /\ Depth(pc[r]) = 5
    BY <2>1 DEF Depth
  <2>4. Table(target[r]) \in {1, 2, 3, 4}
    BY <2>2 DEF Table
  <2>5. Depth(pc'[r]) > Table(target[r]) /\ Depth(pc'[r]) >= Depth(pc[r])
    BY <2>3, <2>4
  <2> QED  BY <2>1, <2>2, <2>5, HeldWhenLocked
<1>5. CASE ReserveStock(r) /\ ~\E status : Abort(r, status)
  <2>1. /\ pc[r] = "reserve" /\ pc'[r] \in {"reserve", "commit"}
        /\ \A q \in Requests \ {r} : pc'[q] = pc[q]
        /\ rowOwner' = [rowOwner EXCEPT ![target[r]] = r]
    BY <1>5 DEF ReserveStock, Goto, TypeOK
  <2>2. Depth(pc'[r]) \in {7, 8} /\ Depth(pc[r]) = 7
    BY <2>1 DEF Depth
  <2>3. CASE target[r] \in Rows
    <3>1. Table(target[r]) \in {1, 2, 3, 4, 6}
      BY DEF Table
    <3>2. Depth(pc'[r]) > Table(target[r]) /\ Depth(pc'[r]) >= Depth(pc[r])
      BY <2>2, <3>1
    <3> QED  BY <2>1, <2>3, <3>2, HeldWhenLocked
  <2>4. CASE target[r] \notin Rows
    <3>1. rowOwner' = rowOwner
      BY <2>1, <2>4 DEF TypeOK
    <3>2. \A x \in Rows : Table(x) \in {1, 2, 3, 4, 6}
      BY DEF Table
    <3> QED  BY <2>1, <2>2, <3>1, <3>2, HeldKept
  <2> QED  BY <2>3, <2>4
<1>6. CASE Commit(r) /\ ~\E status : Abort(r, status)
  <2>1. ReleaseRows(r) /\ \A q \in Requests \ {r} : pc'[q] = pc[q]
    BY <1>6 DEF Commit, Goto, TypeOK
  <2> QED  BY <2>1, HeldWhenReleased
<1> QED  BY <1>1, <1>3, <1>4, <1>5, <1>6, <1>7 DEF DeadlockVictim

LEMMA NextHeldInv == IInv /\ HeldInv /\ [Next]_vars => HeldInv'
<1> SUFFICES ASSUME IInv, HeldInv, [Next]_vars PROVE HeldInv'
  OBVIOUS
<1>1. TypeOK /\ ReservedInv
  BY DEF IInv
<1>2. ASSUME NEW r \in Requests, pc[r] \notin OwnsCart, UNCHANGED rowOwner,
             \A q \in Requests \ {r} : pc'[q] = pc[q]
      PROVE  HeldInv'
  BY <1>1, <1>2, HoldsNothing, HeldKept
<1>3. ASSUME NEW r \in Requests,
             CheckRecord(r) \/ CheckSentinel(r) \/ MarkInProgress(r) \/ AcquireLock(r)
               \/ DispatchPayment(r) \/ ReleaseLock(r) \/ ClearSentinel(r)
      PROVE  HeldInv'
  BY <1>1, <1>2, <1>3
     DEF CheckRecord, CheckSentinel, MarkInProgress, AcquireLock, DispatchPayment, ReleaseLock,
         ClearSentinel, Goto, TypeOK, OwnsCart
<1>4. ASSUME NEW r \in Requests, RedisFails(r) \/ CleanupFails(r) \/ BrokerFails(r)
      PROVE  HeldInv'
  BY <1>1, <1>2, <1>4 DEF RedisFails, CleanupFails, BrokerFails, Goto, TypeOK, OwnsCart
<1>5. ASSUME NEW r \in Requests, Crash(r)
      PROVE  HeldInv'
  <2>1. ReleaseRows(r) /\ \A q \in Requests \ {r} : pc'[q] = pc[q]
    BY <1>1, <1>5 DEF Crash, Goto, TypeOK
  <2> QED  BY <1>1, <2>1, HeldWhenReleased
<1>6. CASE UNCHANGED <<pc, rowOwner>>
  BY <1>6 DEF HeldInv, Depth, Table
<1>7. CASE \/ \E c \in CartIds : ExpireLock(c)
           \/ \E k \in Keys : ExpireSentinel(k)
           \/ \E c \in Carts : EditCart(c)
           \/ UNCHANGED vars
  BY <1>6, <1>7 DEF ExpireLock, ExpireSentinel, EditCart, vars
<1> QED  BY <1>1, <1>3, <1>4, <1>5, <1>7, HeldInTransaction DEF Next, Step, Failure, Quiet

(* A waiter's row is held further on in the order of the tables, unless    *)
(* both are at the coupons of step 7, or both at the stock of step 8.      *)
LEMMA WaitsUpwards ==
  ASSUME TablesDisjoint, IInv, HeldInv, NEW r \in Requests, NEW q \in Requests,
         WaitsForRow(r, q)
  PROVE  \/ Depth(pc[q]) > Depth(pc[r])
         \/ Depth(pc[q]) = Depth(pc[r]) /\ pc[q] = pc[r] /\ pc[r] \in {"lock_coupons", "reserve"}
<1>1. ASSUME NEW x \in Rows, rowOwner[x] = q
      PROVE  Depth(pc[q]) > Table(x)
  BY <1>1, NoneAssumption DEF HeldInv
<1>2. CASE pc[r] = "lock_cart" /\ req[r].cart \in Carts /\ rowOwner[req[r].cart] = q
  BY <1>1, <1>2 DEF Depth, Table, Rows
<1>3. CASE pc[r] = "lock_address" /\ req[r].address \in Addresses /\ rowOwner[req[r].address] = q
  <2>1. Table(req[r].address) = 2 /\ Depth(pc[r]) = 2
    BY <1>3 DEF TablesDisjoint, Depth, Table
  <2> QED  BY <1>1, <1>3, <2>1 DEF Rows
<1>4. CASE pc[r] = "lock_method" /\ req[r].method \in PaymentMethods /\ rowOwner[req[r].method] = q
  <2>1. Table(req[r].method) = 3 /\ Depth(pc[r]) = 3
    BY <1>4 DEF TablesDisjoint, Depth, Table
  <2> QED  BY <1>1, <1>4, <2>1 DEF Rows
<1>5. CASE WaitsFor(r, q) /\ pc[r] = "lock_coupons"
  <2>1. target[r] \in Coupons
    BY <1>5 DEF IInv, ReservedInv
  <2>2. Table(target[r]) = 4 /\ Depth(pc[r]) = 5
    BY <1>5, <2>1 DEF TablesDisjoint, Depth, Table
  <2>3. Depth(pc[q]) > 4
    BY <1>1, <1>5, <2>1, <2>2 DEF WaitsFor, Rows
  <2>4. Depth(pc[q]) \in {5, 6, 7, 8} /\ (Depth(pc[q]) = 5 => pc[q] = "lock_coupons")
    BY <2>3 DEF Depth
  <2> QED  BY <1>5, <2>2, <2>4
<1>6. CASE WaitsFor(r, q) /\ pc[r] = "reserve"
  <2>1. target[r] \in Products
    BY <1>6 DEF IInv, ReservedInv
  <2>2. Table(target[r]) = 6 /\ Depth(pc[r]) = 7
    BY <1>6, <2>1 DEF TablesDisjoint, Depth, Table
  <2>3. Depth(pc[q]) > 6
    BY <1>1, <1>6, <2>1, <2>2 DEF WaitsFor, Rows
  <2>4. Depth(pc[q]) \in {7, 8} /\ (Depth(pc[q]) = 7 => pc[q] = "reserve")
    BY <2>3 DEF Depth
  <2> QED  BY <1>6, <2>2, <2>4
<1> QED  BY <1>2, <1>3, <1>4, <1>5, <1>6 DEF WaitsForRow, WaitsFor

(* The two ends of a circle, by depth, are at coupons or at stock; and so  *)
(* are all the others, which lie between them and wait for a row too.      *)
LEMMA CirclesAreInLoops ==
  ASSUME TablesDisjoint, IInv, HeldInv, NEW S \in SUBSET Requests, WaitsInCircles(S)
  PROVE  \A s \in S : pc[s] \in {"lock_coupons", "reserve"}
<1> SUFFICES ASSUME NEW s0 \in S PROVE pc[s0] \in {"lock_coupons", "reserve"}
  OBVIOUS
<1> DEFINE depths == {Depth(pc[s]) : s \in S}
           heights == {8 - Depth(pc[s]) : s \in S}
<1>1. \A s \in S : Depth(pc[s]) \in 0..8
  BY DepthType
<1>2. PICK low \in S : \A s \in S : Depth(pc[low]) <= Depth(pc[s])
  <2>1. depths \in SUBSET Nat /\ depths # {}
    BY <1>1
  <2>2. PICK n \in depths : \A m \in depths : n <= m
    BY <2>1, LeastNumber
  <2> QED  BY <2>2
<1>3. PICK high \in S : \A s \in S : Depth(pc[s]) <= Depth(pc[high])
  <2>1. heights \in SUBSET Nat /\ heights # {}
    BY <1>1
  <2>2. PICK n \in heights : \A m \in heights : n <= m
    BY <2>1, LeastNumber
  <2>3. PICK high \in S : n = 8 - Depth(pc[high])
    BY <2>2
  <2>4. ASSUME NEW s \in S PROVE Depth(pc[s]) <= Depth(pc[high])
    <3>1. 8 - Depth(pc[high]) <= 8 - Depth(pc[s])
      BY <2>2, <2>3
    <3> QED  BY <1>1, <3>1
  <2> QED  BY <2>4
<1>4. pc[low] \in {"lock_coupons", "reserve"}
  <2>1. PICK t \in S : WaitsForRow(t, low)
    BY DEF WaitsInCircles
  <2>2. ~(Depth(pc[low]) > Depth(pc[t]))
    BY <1>1, <1>2
  <2> QED  BY <2>1, <2>2, WaitsUpwards
<1>5. pc[high] \in {"lock_coupons", "reserve"}
  <2>1. PICK t \in S : WaitsForRow(high, t)
    BY DEF WaitsInCircles
  <2>2. ~(Depth(pc[t]) > Depth(pc[high]))
    BY <1>1, <1>3
  <2> QED  BY <2>1, <2>2, WaitsUpwards
<1>6. Depth(pc[s0]) \in 5..7
  <2>1. Depth(pc[low]) >= 5 /\ Depth(pc[high]) <= 7
    BY <1>4, <1>5 DEF Depth
  <2> QED  BY <1>1, <1>2, <1>3, <2>1
<1>7. pc[s0] \in {"lock_coupons", "revalidate", "reserve"}
  BY <1>6 DEF Depth
<1>8. pc[s0] # "revalidate"
  BY DEF WaitsInCircles, WaitsForRow, WaitsFor
<1> QED  BY <1>7, <1>8

(* Checkouts deadlock nowhere but over coupons in step 7 and over stock in *)
(* step 8, whose rows are locked in no fixed order: carts, addresses and   *)
(* payment methods are locked in one order by all, so that lock_cart,      *)
(* lock_address and lock_method never need a victim.                       *)
THEOREM OnlyCouponsAndStockDeadlock ==
  ASSUME TablesDisjoint
  PROVE  Spec => [](\A S \in SUBSET Requests :
                      WaitsInCircles(S) => \A s \in S : pc[s] \in {"lock_coupons", "reserve"})
<1>1. Init => HeldInv
  BY DEF Init, HeldInv
<1>2. IInv /\ HeldInv =>
        \A S \in SUBSET Requests :
          WaitsInCircles(S) => \A s \in S : pc[s] \in {"lock_coupons", "reserve"}
  BY CirclesAreInLoops
<1> QED  BY <1>1, <1>2, NextHeldInv, Invariance, PTL DEF Spec

-----------------------------------------------------------------------------
(* Every step leads onwards                                                *)

Position(phase) ==
  CASE phase = "idle"           -> 0
    [] phase = "check_sentinel" -> 1
    [] phase = "mark"           -> 2
    [] phase = "acquire"        -> 3
    [] phase = "lock_cart"      -> 4
    [] phase = "lock_address"   -> 5
    [] phase = "lock_method"    -> 6
    [] phase = "read_items"     -> 7
    [] phase = "lock_coupons"   -> 8
    [] phase = "revalidate"     -> 9
    [] phase = "reserve"        -> 10
    [] phase = "commit"         -> 11
    [] phase = "dispatch"       -> 12
    [] phase = "release"        -> 13
    [] phase = "clear"          -> 14
    [] OTHER -> 15

(* A step of r takes it to a later statement or, in the loops of steps 7   *)
(* and 8, to fewer coupons or products.                                    *)
Advances(r) ==
  \/ Position(pc'[r]) > Position(pc[r])
  \/ /\ pc[r] \in {"lock_coupons", "reserve"} /\ pc'[r] = pc[r]
     /\ target[r] \in todo[r] /\ todo'[r] = todo[r] \ {target[r]}

Onward(r) == Advances(r) \/ (pc'[r] = pc[r] /\ todo'[r] = todo[r])

(* What is not a step of r leaves it where it is.                          *)
LEMMA OthersStay ==
  ASSUME TypeOK, NEW r \in Requests, NEW phase, Goto(r, phase),
         UNCHANGED todo \/ \E rest : todo' = [todo EXCEPT ![r] = rest]
  PROVE  /\ pc'[r] = phase
         /\ \A q \in Requests \ {r} : Onward(q)
  BY DEF TypeOK, Goto, Onward

LEMMA AbortAdvances ==
  ASSUME TypeOK, NEW r \in Requests, NEW status, Abort(r, status), pc[r] \in InTransaction
  PROVE  \A q \in Requests : Onward(q)
<1>1. pc'[r] = "release" /\ \A q \in Requests \ {r} : Onward(q)
  BY OthersStay DEF Abort
<1> QED  BY <1>1 DEF Onward, Advances, Position, InTransaction, OwnsCart

LEMMA LockAdvances ==
  ASSUME TypeOK, NEW r \in Requests, NEW row, NEW phase, LockRow(r, row, phase),
         Position(phase) > Position(pc[r])
  PROVE  \A q \in Requests : Onward(q)
<1>1. pc'[r] = phase /\ \A q \in Requests \ {r} : Onward(q)
  BY OthersStay DEF LockRow, localVars
<1> QED  BY <1>1 DEF Onward, Advances

LEMMA TransactionAdvances ==
  ASSUME IInv, NEW r \in Requests,
         LockCart(r) \/ LockAddress(r) \/ LockMethod(r) \/ ReadItems(r) \/ LockCoupon(r)
           \/ RevalidateCoupons(r) \/ ReserveStock(r) \/ Commit(r) \/ DeadlockVictim(r)
  PROVE  \A q \in Requests : Onward(q)
<1>1. TypeOK /\ pc[r] \in InTransaction
  BY DEF IInv, LockCart, LockAddress, LockMethod, ReadItems, LockCoupon, RevalidateCoupons,
         ReserveStock, Commit, DeadlockVictim, InCycle, WaitsFor, InTransaction, OwnsCart
<1>2. CASE \E status : Abort(r, status)
  BY <1>1, <1>2, AbortAdvances
<1>3. CASE LockCart(r) \/ LockAddress(r) \/ LockMethod(r)
  BY <1>1, <1>2, <1>3, LockAdvances DEF LockCart, LockAddress, LockMethod, Position
<1>4. CASE (ReadItems(r) \/ RevalidateCoupons(r)) /\ ~\E status : Abort(r, status)
  <2>1. PICK phase \in {"lock_coupons", "revalidate", "reserve"} :
          /\ Goto(r, phase)
          /\ UNCHANGED todo \/ \E rest : todo' = [todo EXCEPT ![r] = rest]
          /\ pc[r] = IF phase = "reserve" THEN "revalidate" ELSE "read_items"
    BY <1>4 DEF ReadItems, RevalidateCoupons
  <2>2. pc'[r] = phase /\ \A q \in Requests \ {r} : Onward(q)
    BY <1>1, <2>1, OthersStay
  <2> QED  BY <2>1, <2>2 DEF Onward, Advances, Position
<1>5. CASE ReserveStock(r) /\ ~\E status : Abort(r, status)
  <2>1. /\ pc[r] = "reserve" /\ target[r] \in todo[r]
        /\ todo' = [todo EXCEPT ![r] = todo[r] \ {target[r]}]
        /\ pc' = pc \/ Goto(r, "commit")
    BY <1>5 DEF ReserveStock, IInv, ReservedInv
  <2>2. /\ pc'[r] \in {"reserve", "commit"}
        /\ todo'[r] = todo[r] \ {target[r]}
        /\ \A q \in Requests \ {r} : pc'[q] = pc[q] /\ todo'[q] = todo[q]
    BY <1>1, <2>1 DEF TypeOK, Goto
  <2> QED  BY <2>1, <2>2 DEF Onward, Advances, Position
<1>7. CASE LockCoupon(r)
  <2>1. /\ pc[r] = "lock_coupons" /\ target[r] \in todo[r]
        /\ todo' = [todo EXCEPT ![r] = todo[r] \ {target[r]}]
        /\ pc' = pc \/ Goto(r, "revalidate")
    BY <1>7 DEF LockCoupon, IInv, ReservedInv
  <2>2. /\ pc'[r] \in {"lock_coupons", "revalidate"}
        /\ todo'[r] = todo[r] \ {target[r]}
        /\ \A q \in Requests \ {r} : pc'[q] = pc[q] /\ todo'[q] = todo[q]
    BY <1>1, <2>1 DEF TypeOK, Goto
  <2> QED  BY <2>1, <2>2 DEF Onward, Advances, Position
<1>6. CASE Commit(r) /\ ~\E status : Abort(r, status)
  <2>1. pc[r] = "commit" /\ Goto(r, "dispatch") /\ UNCHANGED todo
    BY <1>6 DEF Commit, localVars
  <2>2. pc'[r] = "dispatch" /\ \A q \in Requests \ {r} : Onward(q)
    BY <1>1, <2>1, OthersStay
  <2> QED  BY <2>1, <2>2 DEF Onward, Advances, Position
<1> QED  BY <1>2, <1>3, <1>4, <1>5, <1>6, <1>7 DEF DeadlockVictim

(* No handler goes back: there is no retry inside a request, so that it    *)
(* takes at most sixteen statements and one for each coupon and product.   *)
THEOREM RequestsGoOnwards == Spec => [][\A r \in Requests : Onward(r)]_vars
<1>1. IInv /\ [Next]_vars => [\A r \in Requests : Onward(r)]_vars
  <2> SUFFICES ASSUME IInv, [Next]_vars PROVE \A r \in Requests : Onward(r)
    OBVIOUS
  <2>1. TypeOK
    BY DEF IInv
  <2>2. ASSUME NEW r \in Requests, NEW phase, Goto(r, phase), Position(phase) > Position(pc[r]),
               UNCHANGED todo \/ \E rest : todo' = [todo EXCEPT ![r] = rest]
        PROVE  \A q \in Requests : Onward(q)
    BY <2>1, <2>2, OthersStay DEF Onward, Advances
  <2>3. ASSUME NEW r \in Requests,
               CheckRecord(r) \/ CheckSentinel(r) \/ MarkInProgress(r) \/ AcquireLock(r)
                 \/ DispatchPayment(r) \/ ReleaseLock(r) \/ ClearSentinel(r)
        PROVE  \A q \in Requests : Onward(q)
    BY <2>2, <2>3
       DEF CheckRecord, CheckSentinel, MarkInProgress, AcquireLock, DispatchPayment, ReleaseLock,
           ClearSentinel, localVars, Position
  <2>4. ASSUME NEW r \in Requests, RedisFails(r) \/ CleanupFails(r) \/ BrokerFails(r)
        PROVE  \A q \in Requests : Onward(q)
    BY <2>2, <2>4 DEF RedisFails, CleanupFails, BrokerFails, localVars, Position
  <2>5. ASSUME NEW r \in Requests, Crash(r)
        PROVE  \A q \in Requests : Onward(q)
    <3>1. Position("done") > Position(pc[r])
      BY <2>1, <2>5 DEF Crash, TypeOK, Phases, Position
    <3> QED  BY <2>2, <2>5, <3>1 DEF Crash
  <2>6. CASE UNCHANGED <<pc, todo>>
    BY <2>6 DEF Onward
  <2>7. CASE \/ \E c \in CartIds : ExpireLock(c)
             \/ \E k \in Keys : ExpireSentinel(k)
             \/ \E c \in Carts : EditCart(c)
             \/ UNCHANGED vars
    BY <2>6, <2>7 DEF ExpireLock, ExpireSentinel, EditCart, localVars, vars
  <2> QED  BY <2>3, <2>4, <2>5, <2>7, TransactionAdvances DEF Next, Step, Failure, Quiet
<1> QED  BY <1>1, Invariance, PTL DEF Spec

-----------------------------------------------------------------------------
(* The Redis keys *)

(* A working request holds its lock and its sentinel. *)
KeysInv ==
  \A r \in Requests :
    /\ pc[r] \in InCritical => lock[req[r].cart] = r
    /\ pc[r] \in InFlight => sentinel[req[r].key] = r

(* The phase one request moves to, and what every other step leaves alone. *)
LEMMA KeysKept ==
  ASSUME TypeOK, KeysInv, NEW r \in Requests, UNCHANGED req,
         \A q \in Requests \ {r} : pc'[q] = pc[q],
         \A c \in CartIds : lock[c] # r /\ lock[c] # None => lock'[c] = lock[c],
         \A k \in Keys : sentinel[k] # r /\ sentinel[k] # None => sentinel'[k] = sentinel[k],
         pc'[r] \in InCritical => lock'[req[r].cart] = r,
         pc'[r] \in InFlight => sentinel'[req[r].key] = r
  PROVE  KeysInv'
<1> SUFFICES ASSUME NEW q \in Requests
             PROVE  /\ pc'[q] \in InCritical => lock'[req[q].cart] = q
                    /\ pc'[q] \in InFlight => sentinel'[req[q].key] = q
  BY DEF KeysInv
<1>1. CASE q = r
  BY <1>1
<1>2. CASE q # r
  BY <1>2, RequestFacts, NoneAssumption DEF KeysInv
<1> QED  BY <1>1, <1>2

(* While no TTL runs out under its setter, every step keeps the keys. *)
LEMMA NextKeysInv ==
  ASSUME ~EarlyExpiry, IInv, KeysInv, [Next]_vars
  PROVE  KeysInv'
<1> USE DEF redisVars, dbVars, localVars, bounds
<1>1. TypeOK
  BY DEF IInv
<1>2. ASSUME NEW r \in Requests, NEW phase \in Phases, Goto(r, phase),
             UNCHANGED <<req, lock, sentinel>>,
             phase \in InCritical => pc[r] \in InCritical,
             phase \in InFlight => pc[r] \in InFlight
      PROVE  KeysInv'
  BY <1>1, <1>2, GotoType, KeysKept DEF KeysInv
<1>3. ASSUME NEW r \in Requests, CheckRecord(r) \/ CheckSentinel(r)
      PROVE  KeysInv'
  BY <1>2, <1>3 DEF CheckRecord, CheckSentinel, Phases, InFlight, InCritical, InTransaction, OwnsCart
<1>4. ASSUME NEW r \in Requests, MarkInProgress(r)
      PROVE  KeysInv'
  <2>1. req[r].key \in Keys
    BY <1>1, RequestFacts
  <2>2. CASE Goto(r, "acquire") /\ sentinel[req[r].key] = None
    BY <1>1, <1>4, <2>1, <2>2, GotoType, KeysKept
       DEF MarkInProgress, TypeOK, Phases, InCritical, InTransaction, OwnsCart
  <2>3. CASE Goto(r, "done") /\ UNCHANGED sentinel
    BY <1>2, <1>4, <2>3
       DEF MarkInProgress, Phases, InFlight, InCritical, InTransaction, OwnsCart
  <2> QED  BY <1>4, <2>2, <2>3 DEF MarkInProgress
<1>5. ASSUME NEW r \in Requests, AcquireLock(r)
      PROVE  KeysInv'
  <2>1. req[r].cart \in CartIds
    BY <1>1, RequestFacts
  <2>2. CASE Goto(r, "lock_cart") /\ lock[req[r].cart] = None
    <3>1. pc'[r] = "lock_cart" /\ \A q \in Requests \ {r} : pc'[q] = pc[q]
      BY <1>1, <2>2, GotoType DEF Phases
    <3>2. UNCHANGED <<req, sentinel>> /\ lock' = [lock EXCEPT ![req[r].cart] = r]
      BY <1>5, <2>2, <3>1 DEF AcquireLock, Goto, TypeOK
    <3>3. sentinel[req[r].key] = r
      BY <1>5 DEF AcquireLock, KeysInv, InFlight
    <3>4. lock'[req[r].cart] = r /\ \A c \in CartIds : lock[c] # None => lock'[c] = lock[c]
      BY <1>1, <2>1, <2>2, <3>2 DEF TypeOK
    <3> QED  BY <1>1, <3>1, <3>2, <3>3, <3>4, KeysKept
  <2>3. CASE Goto(r, "clear") /\ UNCHANGED lock
    BY <1>2, <1>5, <2>3
       DEF AcquireLock, Phases, InFlight, InCritical, InTransaction, OwnsCart
  <2> QED  BY <1>5, <2>2, <2>3 DEF AcquireLock
<1>6. ASSUME NEW r \in Requests, NEW status, pc[r] \in InTransaction, Abort(r, status)
      PROVE  KeysInv'
  BY <1>2, <1>6 DEF Abort, Phases, InFlight, InCritical
<1>7. ASSUME NEW r \in Requests,
             LockCart(r) \/ LockAddress(r) \/ LockMethod(r) \/ ReadItems(r)
      PROVE  KeysInv'
  <2>1. pc[r] \in InTransaction
    BY <1>7 DEF LockCart, LockAddress, LockMethod, ReadItems, InTransaction, OwnsCart
  <2>2. ASSUME NEW row, NEW next \in {"lock_address", "lock_method", "read_items"},
               LockRow(r, row, next)
        PROVE  KeysInv'
    BY <1>2, <2>1, <2>2 DEF LockRow, Phases, InFlight, InCritical, InTransaction, OwnsCart
  <2>3. CASE \E status : Abort(r, status)
    BY <1>6, <2>1, <2>3
  <2>4. CASE ReadItems(r) /\ (Goto(r, "revalidate") \/ Goto(r, "lock_coupons"))
    BY <1>2, <2>4 DEF ReadItems, Abort, Phases, InFlight, InCritical, InTransaction, OwnsCart
  <2> QED  BY <1>7, <2>2, <2>3, <2>4 DEF LockCart, LockAddress, LockMethod, ReadItems
<1>8. ASSUME NEW r \in Requests, RevalidateCoupons(r)
      PROVE  KeysInv'
  BY <1>2, <1>6, <1>8
     DEF RevalidateCoupons, Phases, InFlight, InCritical, InTransaction, OwnsCart
<1>9. ASSUME NEW r \in Requests, LockCoupon(r) \/ ReserveStock(r)
      PROVE  KeysInv'
  <2>1. pc[r] \in InTransaction
    BY <1>9 DEF LockCoupon, ReserveStock, InTransaction, OwnsCart
  <2>2. CASE \E status : Abort(r, status)
    BY <1>6, <2>1, <2>2
  <2>3. CASE UNCHANGED <<req, lock, sentinel>>
             /\ (Goto(r, "revalidate") \/ Goto(r, "commit") \/ UNCHANGED pc)
    <3>1. CASE Goto(r, "revalidate") \/ Goto(r, "commit")
      BY <1>2, <2>1, <2>3, <3>1 DEF Phases, InFlight, InCritical, InTransaction, OwnsCart
    <3>2. CASE UNCHANGED pc
      BY <2>3, <3>2 DEF KeysInv
    <3> QED  BY <2>3, <3>1, <3>2
  <2> QED  BY <1>9, <2>2, <2>3 DEF LockCoupon, ReserveStock
<1>10. ASSUME NEW r \in Requests, Commit(r)
       PROVE  KeysInv'
  BY <1>2, <1>6, <1>10
     DEF Commit, Phases, InFlight, InCritical, InTransaction, OwnsCart
<1>11. ASSUME NEW r \in Requests, DispatchPayment(r) \/ BrokerFails(r)
       PROVE  KeysInv'
  BY <1>2, <1>11 DEF DispatchPayment, BrokerFails, Phases, InFlight, InCritical
<1>12. ASSUME NEW r \in Requests, ReleaseLock(r)
       PROVE  KeysInv'
  <2>1. pc'[r] = "clear" /\ \A q \in Requests \ {r} : pc'[q] = pc[q]
    BY <1>1, <1>12, GotoType DEF ReleaseLock, Phases
  <2>2. \A c \in CartIds : lock[c] # r => lock'[c] = lock[c]
    BY <1>1, <1>12 DEF ReleaseLock, TypeOK
  <2>3. sentinel'[req[r].key] = r
    BY <1>12 DEF ReleaseLock, KeysInv, InFlight, InCritical
  <2> QED  BY <1>1, <1>12, <2>1, <2>2, <2>3, KeysKept
           DEF ReleaseLock, InCritical, InTransaction, OwnsCart
<1>13. ASSUME NEW r \in Requests, ClearSentinel(r)
       PROVE  KeysInv'
  <2>1. pc'[r] = "done" /\ \A q \in Requests \ {r} : pc'[q] = pc[q]
    BY <1>1, <1>13, GotoType DEF ClearSentinel, Phases
  <2>2. sentinel[req[r].key] = r
    BY <1>13 DEF ClearSentinel, KeysInv, InFlight
  <2>3. \A k \in Keys : sentinel[k] # r => sentinel'[k] = sentinel[k]
    BY <1>1, <1>13, <2>2 DEF ClearSentinel, TypeOK
  <2> QED  BY <1>1, <1>13, <2>1, <2>3, KeysKept
           DEF ClearSentinel, InFlight, InCritical, InTransaction, OwnsCart
<1>14. ASSUME NEW r \in Requests, DeadlockVictim(r)
       PROVE  KeysInv'
  BY <1>6, <1>14 DEF DeadlockVictim, InCycle, WaitsFor, InTransaction, OwnsCart
<1>15. ASSUME NEW r \in Requests, RedisFails(r)
       PROVE  KeysInv'
  <2>1. req[r].cart \in CartIds /\ req[r].key \in Keys
    BY <1>1, RequestFacts
  <2>2. PICK phase \in {"clear", "done"} :
          Goto(r, phase) /\ (phase = "clear" => pc[r] = "acquire" /\ UNCHANGED sentinel)
    BY <1>15 DEF RedisFails
  <2>3. pc'[r] = phase /\ \A q \in Requests \ {r} : pc'[q] = pc[q]
    BY <1>1, <2>2, GotoType DEF Phases
  <2>4. \A c \in CartIds : lock[c] # None => lock'[c] = lock[c]
    BY <1>1, <1>15, <2>1 DEF RedisFails, TypeOK
  <2>5. \A k \in Keys : sentinel[k] # None => sentinel'[k] = sentinel[k]
    BY <1>1, <1>15, <2>1 DEF RedisFails, TypeOK
  <2>6. phase = "clear" => sentinel'[req[r].key] = r
    BY <2>2 DEF KeysInv, InFlight
  <2> QED  BY <1>1, <1>15, <2>2, <2>3, <2>4, <2>5, <2>6, KeysKept
           DEF RedisFails, InFlight, InCritical, InTransaction, OwnsCart
<1>16. ASSUME NEW r \in Requests, CleanupFails(r) \/ Crash(r)
       PROVE  KeysInv'
  BY <1>2, <1>16
     DEF CleanupFails, Crash, Phases, InFlight, InCritical, InTransaction, OwnsCart
<1>17. CASE (\E c \in CartIds : ExpireLock(c)) \/ (\E k \in Keys : ExpireSentinel(k))
  <2>1. ASSUME NEW c \in CartIds, ExpireLock(c)
        PROVE  KeysInv'
    BY <1>1, <2>1, RequestFacts
       DEF ExpireLock, MayExpire, KeysInv, TypeOK, InFlight, InCritical, InTransaction, OwnsCart
  <2>2. ASSUME NEW k \in Keys, ExpireSentinel(k)
        PROVE  KeysInv'
    BY <1>1, <2>2, RequestFacts
       DEF ExpireSentinel, MayExpire, KeysInv, TypeOK, InFlight, InCritical, InTransaction, OwnsCart
  <2> QED  BY <1>17, <2>1, <2>2
<1>18. CASE (\E c \in Carts : EditCart(c)) \/ UNCHANGED vars
  BY <1>18 DEF EditCart, vars, KeysInv
<1> QED  BY <1>3, <1>4, <1>5, <1>7, <1>8, <1>9, <1>10, <1>11, <1>12, <1>13, <1>14, <1>15,
            <1>16, <1>17, <1>18 DEF Next, Step, Failure, Quiet

(* While no TTL runs out under its setter, two checkouts of one cart never *)
(* overlap ...                                                             *)
THEOREM OneCheckoutPerCart ==
  ASSUME ~EarlyExpiry PROVE Spec => []CriticalSectionExclusive
<1>1. Init => KeysInv
  BY DEF Init, KeysInv, InFlight, InCritical, InTransaction, OwnsCart
<1>2. IInv /\ KeysInv /\ [Next]_vars => KeysInv'
  BY NextKeysInv
<1>3. KeysInv => CriticalSectionExclusive
  BY DEF KeysInv, CriticalSectionExclusive
<1> QED  BY <1>1, <1>2, <1>3, Invariance, PTL DEF Spec

(* ... nor do two requests of one key. *)
THEOREM OneRequestPerKey ==
  ASSUME ~EarlyExpiry PROVE Spec => []OneInFlightPerKey
<1>1. Init => KeysInv
  BY DEF Init, KeysInv, InFlight, InCritical, InTransaction, OwnsCart
<1>2. IInv /\ KeysInv /\ [Next]_vars => KeysInv'
  BY NextKeysInv
<1>3. KeysInv => OneInFlightPerKey
  BY DEF KeysInv, OneInFlightPerKey
<1> QED  BY <1>1, <1>2, <1>3, Invariance, PTL DEF Spec

(* A lock another request's token is in is never deleted by a request: the *)
(* Lua script of the release compares the token first.                     *)
LockKept(c) ==
  lock[c] # None /\ lock'[c] # lock[c] =>
    pc' = pc \/ (pc[lock[c]] = "release" /\ pc'[lock[c]] = "clear")

(* Every step leaves a lock to its holder. *)
LEMMA NextLockKept ==
  ASSUME TypeOK, [Next]_vars, NEW c \in CartIds
  PROVE  LockKept(c)
<1> USE DEF redisVars, dbVars, localVars, bounds
<1>1. ASSUME UNCHANGED lock PROVE LockKept(c)
  BY <1>1 DEF LockKept
<1>2. ASSUME NEW r \in Requests, NEW status, Abort(r, status) PROVE UNCHANGED lock
  BY <1>2 DEF Abort
<1>3. ASSUME NEW r \in Requests, NEW row, NEW next, LockRow(r, row, next)
      PROVE  UNCHANGED lock
  BY <1>3 DEF LockRow
<1>4. ASSUME NEW r \in Requests, CheckRecord(r) \/ Step(r) PROVE LockKept(c)
  <2>1. CASE CheckRecord(r) \/ CheckSentinel(r) \/ MarkInProgress(r)
    BY <1>1, <2>1 DEF CheckRecord, CheckSentinel, MarkInProgress
  <2>2. CASE AcquireLock(r)
    BY <2>2, RequestFacts DEF AcquireLock, LockKept, TypeOK
  <2>3. CASE LockCart(r) \/ LockAddress(r) \/ LockMethod(r)
    BY <1>1, <1>2, <1>3, <2>3 DEF LockCart, LockAddress, LockMethod
  <2>4. CASE \/ ReadItems(r) \/ LockCoupon(r) \/ RevalidateCoupons(r) \/ ReserveStock(r)
             \/ Commit(r)
    BY <1>1, <1>2, <2>4 DEF ReadItems, LockCoupon, RevalidateCoupons, ReserveStock, Commit
  <2>5. CASE DispatchPayment(r) \/ ClearSentinel(r)
    BY <1>1, <2>5 DEF DispatchPayment, ClearSentinel
  <2>6. CASE ReleaseLock(r)
    <3>1. pc'[r] = "clear" /\ pc[r] = "release"
      BY <2>6, GotoType DEF ReleaseLock, Phases
    <3>2. lock[c] # r => lock'[c] = lock[c]
      BY <2>6, RequestFacts DEF ReleaseLock, TypeOK
    <3> QED  BY <3>1, <3>2 DEF LockKept
  <2> QED  BY <1>4, <2>1, <2>2, <2>3, <2>4, <2>5, <2>6 DEF Step
<1>5. ASSUME NEW r \in Requests, DeadlockVictim(r) \/ CleanupFails(r) \/ BrokerFails(r) \/ Crash(r)
      PROVE  LockKept(c)
  BY <1>1, <1>2, <1>5 DEF DeadlockVictim, CleanupFails, BrokerFails, Crash
<1>6. ASSUME NEW r \in Requests, RedisFails(r) PROVE LockKept(c)
  BY <1>6, RequestFacts DEF RedisFails, LockKept, TypeOK
<1>7. CASE (\E d \in CartIds : ExpireLock(d)) \/ (\E k \in Keys : ExpireSentinel(k))
  BY <1>7 DEF ExpireLock, ExpireSentinel, LockKept
<1>8. CASE (\E d \in Carts : EditCart(d)) \/ UNCHANGED vars
  BY <1>1, <1>8 DEF EditCart, vars
<1> QED  BY <1>4, <1>5, <1>6, <1>7, <1>8 DEF Next, Failure, Quiet

(* The Redis lock is fenced. *)
THEOREM FencedLock == Spec => LockFreedByItsHolder
<1>1. TypeOK /\ [Next]_vars =>
        [\A c \in CartIds :
           lock[c] # None /\ lock'[c] # lock[c] =>
             pc' = pc \/ (pc[lock[c]] = "release" /\ pc'[lock[c]] = "clear")]_vars
  BY NextLockKept DEF LockKept
<1> QED  BY <1>1, TypeCorrect, PTL DEF Spec, LockFreedByItsHolder

-----------------------------------------------------------------------------
(* What is left behind *)

(* Rows are locked by open transactions; and as long as nothing has failed, *)
(* a Redis key is that of a request which has yet to give it back.         *)
LeftInv ==
  /\ \A x \in Rows : rowOwner[x] # None => pc[rowOwner[x]] \in OwnsCart
  /\ faults = 0 =>
       /\ \A k \in Keys : sentinel[k] # None =>
            pc[sentinel[k]] \in InFlight /\ req[sentinel[k]].key = k
       /\ \A c \in CartIds : lock[c] # None =>
            pc[lock[c]] \in InCritical /\ req[lock[c]].cart = c

(* What a step of r may do to rows and keys.                               *)
LEMMA LeftKept ==
  ASSUME TypeOK, LeftInv, NEW r \in Requests, UNCHANGED req,
         \A q \in Requests \ {r} : pc'[q] = pc[q],
         faults' = 0 => faults = 0,
         \A x \in Rows : rowOwner'[x] \in {None, rowOwner[x], r},
         \A x \in Rows : rowOwner'[x] = r => pc'[r] \in OwnsCart,
         faults' = 0 =>
           /\ \A k \in Keys : sentinel'[k] \in {None, sentinel[k], r}
           /\ \A k \in Keys : sentinel'[k] = r => pc'[r] \in InFlight /\ req[r].key = k
           /\ \A c \in CartIds : lock'[c] \in {None, lock[c], r}
           /\ \A c \in CartIds : lock'[c] = r => pc'[r] \in InCritical /\ req[r].cart = c
  PROVE  LeftInv'
<1>1. \A x \in Rows : rowOwner'[x] # None => pc'[rowOwner'[x]] \in OwnsCart
  BY DEF LeftInv, TypeOK, Owners
<1>2. ASSUME faults' = 0
      PROVE  /\ \A k \in Keys : sentinel'[k] # None =>
                  pc'[sentinel'[k]] \in InFlight /\ req[sentinel'[k]].key = k
             /\ \A c \in CartIds : lock'[c] # None =>
                  pc'[lock'[c]] \in InCritical /\ req[lock'[c]].cart = c
  <2>1. ASSUME NEW k \in Keys, sentinel'[k] # None
        PROVE  pc'[sentinel'[k]] \in InFlight /\ req[sentinel'[k]].key = k
    <3>1. CASE sentinel'[k] = r
      BY <1>2, <3>1
    <3>2. CASE sentinel'[k] # r
      <4>1. sentinel'[k] = sentinel[k] /\ sentinel[k] \in Requests \ {r} /\ faults = 0
        BY <1>2, <2>1, <3>2 DEF TypeOK, Owners
      <4> QED BY <2>1, <4>1 DEF LeftInv
    <3> QED BY <3>1, <3>2
  <2>2. ASSUME NEW c \in CartIds, lock'[c] # None
        PROVE  pc'[lock'[c]] \in InCritical /\ req[lock'[c]].cart = c
    <3>1. CASE lock'[c] = r
      BY <1>2, <3>1
    <3>2. CASE lock'[c] # r
      <4>1. lock'[c] = lock[c] /\ lock[c] \in Requests \ {r} /\ faults = 0
        BY <1>2, <2>2, <3>2 DEF TypeOK, Owners
      <4> QED BY <2>2, <4>1 DEF LeftInv
    <3> QED BY <3>1, <3>2
  <2> QED BY <2>1, <2>2
<1> QED BY <1>1, <1>2 DEF LeftInv

(* A step that only moves on, between phases with the same obligations.    *)
LEMMA LeftMoves ==
  ASSUME TypeOK, LeftInv, NEW r \in Requests, NEW phase \in Phases, Goto(r, phase),
         UNCHANGED <<req, sentinel, lock, rowOwner, faults>>,
         pc[r] \in OwnsCart => phase \in OwnsCart,
         pc[r] \in InFlight => phase \in InFlight,
         pc[r] \in InCritical => phase \in InCritical
  PROVE  LeftInv'
<1>1. pc'[r] = phase /\ \A q \in Requests \ {r} : pc'[q] = pc[q]
  BY GotoType
<1>2. \A x \in Rows : rowOwner'[x] = r => pc'[r] \in OwnsCart
  BY <1>1, NoneAssumption DEF LeftInv
<1>3. faults' = 0 =>
        /\ \A k \in Keys : sentinel'[k] = r => pc'[r] \in InFlight /\ req[r].key = k
        /\ \A c \in CartIds : lock'[c] = r => pc'[r] \in InCritical /\ req[r].cart = c
  BY <1>1, NoneAssumption DEF LeftInv
<1> QED BY <1>1, <1>2, <1>3, LeftKept

LEMMA LeftAborts ==
  ASSUME TypeOK, LeftInv, NEW r \in Requests, NEW status, Abort(r, status),
         pc[r] \in InTransaction
  PROVE  LeftInv'
<1>1. pc'[r] = "release" /\ \A q \in Requests \ {r} : pc'[q] = pc[q]
  BY DEF Abort, Goto, TypeOK
<1>2. UNCHANGED <<req, sentinel, lock, faults>>
  BY DEF Abort, redisVars, bounds
<1>3. \A x \in Rows : rowOwner'[x] \in {None, rowOwner[x]} /\ rowOwner'[x] # r
  BY NoneAssumption DEF Abort, ReleaseRows
<1>4. faults' = 0 =>
        /\ \A k \in Keys : sentinel'[k] = r => pc'[r] \in InFlight /\ req[r].key = k
        /\ \A c \in CartIds : lock'[c] = r => pc'[r] \in InCritical /\ req[r].cart = c
  BY <1>1, <1>2, NoneAssumption DEF LeftInv, InFlight, InCritical
<1> QED BY <1>1, <1>2, <1>3, <1>4, LeftKept

LEMMA LeftLocksRow ==
  ASSUME TypeOK, LeftInv, NEW r \in Requests, NEW row \in Rows, NEW phase \in OwnsCart,
         LockRow(r, row, phase), pc[r] \in InTransaction
  PROVE  LeftInv'
<1>1. pc'[r] = phase /\ \A q \in Requests \ {r} : pc'[q] = pc[q]
  BY DEF LockRow, Goto, TypeOK
<1>2. UNCHANGED <<req, sentinel, lock, faults>>
  BY DEF LockRow, redisVars, bounds
<1>3. \A x \in Rows : rowOwner'[x] \in {rowOwner[x], r}
  BY DEF LockRow, TypeOK
<1>4. faults' = 0 =>
        /\ \A k \in Keys : sentinel'[k] = r => pc'[r] \in InFlight /\ req[r].key = k
        /\ \A c \in CartIds : lock'[c] = r => pc'[r] \in InCritical /\ req[r].cart = c
  BY <1>1, <1>2, NoneAssumption DEF LeftInv, InFlight, InCritical, InTransaction
<1> QED BY <1>1, <1>2, <1>3, <1>4, LeftKept

LEMMA LeftInTransaction ==
  ASSUME IInv, LeftInv, NEW r \in Requests,
         LockCart(r) \/ LockAddress(r) \/ LockMethod(r) \/ ReadItems(r) \/ LockCoupon(r)
           \/ RevalidateCoupons(r) \/ ReserveStock(r) \/ Commit(r)
  PROVE  LeftInv'
<1>1. /\ TypeOK /\ pc[r] \in InTransaction
      /\ \A q \in Requests : pc[q] \in OwnsCart => q \in Requests
  BY DEF IInv, LockCart, LockAddress, LockMethod, ReadItems, LockCoupon,
     RevalidateCoupons, ReserveStock, Commit, InTransaction, OwnsCart
<1>2. CASE \E status : Abort(r, status)
  BY <1>1, <1>2, LeftAborts
<1>3. CASE LockCart(r) \/ LockAddress(r) \/ LockMethod(r)
  BY <1>1, <1>2, <1>3, LeftLocksRow DEF LockCart, LockAddress, LockMethod, Rows, OwnsCart
<1>4. CASE ReadItems(r) \/ RevalidateCoupons(r)
  <2>1. CASE \E phase \in {"lock_coupons", "revalidate", "reserve"} :
               Goto(r, phase) /\ UNCHANGED <<req, sentinel, lock, rowOwner, faults>>
    BY <1>1, <1>4, <2>1, LeftMoves
       DEF ReadItems, RevalidateCoupons, Phases, InFlight, InCritical, InTransaction, OwnsCart
  <2> QED BY <1>2, <1>4, <2>1 DEF ReadItems, RevalidateCoupons, redisVars, bounds
<1>5. CASE (LockCoupon(r) \/ ReserveStock(r)) /\ ~\E status : Abort(r, status)
  <2>1. /\ pc'[r] \in {"lock_coupons", "revalidate", "reserve", "commit"}
        /\ \A q \in Requests \ {r} : pc'[q] = pc[q]
        /\ UNCHANGED <<req, sentinel, lock, faults>>
        /\ rowOwner' = [rowOwner EXCEPT ![target[r]] = r]
    BY <1>1, <1>5 DEF LockCoupon, ReserveStock, Goto, TypeOK, redisVars, bounds
  <2>2. \A x \in Rows : rowOwner'[x] \in {rowOwner[x], r}
    BY <1>1, <2>1 DEF TypeOK
  <2>3. faults' = 0 =>
          /\ \A k \in Keys : sentinel'[k] = r => pc'[r] \in InFlight /\ req[r].key = k
          /\ \A c \in CartIds : lock'[c] = r => pc'[r] \in InCritical /\ req[r].cart = c
    BY <2>1, NoneAssumption DEF LeftInv, InFlight, InCritical, InTransaction, OwnsCart
  <2> QED BY <1>1, <2>1, <2>2, <2>3, LeftKept DEF OwnsCart
<1>6. CASE Commit(r) /\ ~\E status : Abort(r, status)
  <2>1. /\ ReleaseRows(r) /\ Goto(r, "dispatch")
        /\ UNCHANGED <<req, sentinel, lock, faults>>
    BY <1>6 DEF Commit, redisVars, bounds
  <2>2. pc'[r] = "dispatch" /\ \A q \in Requests \ {r} : pc'[q] = pc[q]
    BY <1>1, <2>1 DEF Goto, TypeOK
  <2>3. \A x \in Rows : rowOwner'[x] \in {None, rowOwner[x]} /\ rowOwner'[x] # r
    BY <2>1, NoneAssumption DEF ReleaseRows
  <2>4. faults' = 0 =>
          /\ \A k \in Keys : sentinel'[k] = r => pc'[r] \in InFlight /\ req[r].key = k
          /\ \A c \in CartIds : lock'[c] = r => pc'[r] \in InCritical /\ req[r].cart = c
    BY <2>1, <2>2, NoneAssumption DEF LeftInv, InFlight, InCritical
  <2> QED BY <1>1, <2>1, <2>2, <2>3, <2>4, LeftKept
<1> QED BY <1>2, <1>3, <1>4, <1>5, <1>6

(* The steps outside the transaction, each key set and given back.         *)
LEMMA LeftOutside ==
  ASSUME IInv, LeftInv, NEW r \in Requests,
         CheckRecord(r) \/ CheckSentinel(r) \/ MarkInProgress(r) \/ AcquireLock(r)
           \/ DispatchPayment(r) \/ ReleaseLock(r) \/ ClearSentinel(r)
  PROVE  LeftInv'
<1> USE DEF redisVars, bounds
<1>1. TypeOK
  BY DEF IInv
<1>2. /\ UNCHANGED <<req, rowOwner, faults>>
      /\ \A q \in Requests \ {r} : pc'[q] = pc[q]
      /\ pc[r] \notin OwnsCart
  BY <1>1 DEF CheckRecord, CheckSentinel, MarkInProgress, AcquireLock, DispatchPayment,
     ReleaseLock, ClearSentinel, Goto, TypeOK, OwnsCart
<1>3. \A x \in Rows : rowOwner'[x] # r
  BY <1>2, NoneAssumption DEF LeftInv
<1> DEFINE k == req[r].key
           c == req[r].cart
<1>4. k \in Keys /\ c \in CartIds
  BY <1>1, RequestFacts
<1>5. faults = 0 =>
        /\ \A j \in Keys : sentinel[j] = r => pc[r] \in InFlight /\ k = j
        /\ \A d \in CartIds : lock[d] = r => pc[r] \in InCritical /\ c = d
  BY NoneAssumption DEF LeftInv
<1> HIDE DEF k, c
<1>6. faults' = 0 =>
        /\ \A j \in Keys : sentinel'[j] \in {None, sentinel[j], r}
        /\ \A j \in Keys : sentinel'[j] = r => pc'[r] \in InFlight /\ k = j
        /\ \A d \in CartIds : lock'[d] \in {None, lock[d], r}
        /\ \A d \in CartIds : lock'[d] = r => pc'[r] \in InCritical /\ c = d
  <2>1. CASE CheckRecord(r) \/ CheckSentinel(r)
    BY <1>1, <1>2, <1>5, <2>1 DEF CheckRecord, CheckSentinel, InFlight, InCritical, InTransaction, OwnsCart
  <2>2. CASE MarkInProgress(r)
    <3>1. /\ lock' = lock /\ pc[r] = "mark"
          /\ \/ sentinel' = [sentinel EXCEPT ![k] = r] /\ pc'[r] = "acquire"
             \/ sentinel' = sentinel
      BY <1>1, <2>2 DEF MarkInProgress, Goto, TypeOK, k
    <3>2. \A j \in Keys : sentinel'[j] = sentinel[j] \/ (j = k /\ sentinel'[j] = r /\ pc'[r] = "acquire")
      BY <1>1, <3>1 DEF TypeOK
    <3> QED BY <1>2, <1>5, <3>1, <3>2 DEF InFlight, InCritical, InTransaction, OwnsCart
  <2>3. CASE AcquireLock(r)
    <3>1. /\ sentinel' = sentinel /\ pc[r] = "acquire" /\ pc'[r] \in InFlight
          /\ \/ lock' = [lock EXCEPT ![c] = r] /\ pc'[r] = "lock_cart"
             \/ lock' = lock
      BY <1>1, <2>3 DEF AcquireLock, Goto, TypeOK, InFlight, InCritical, InTransaction, c
    <3>2. \A d \in CartIds : lock'[d] = lock[d] \/ (d = c /\ lock'[d] = r /\ pc'[r] = "lock_cart")
      BY <1>1, <3>1 DEF TypeOK
    <3> QED BY <1>2, <1>5, <3>1, <3>2 DEF InFlight, InCritical, InTransaction, OwnsCart
  <2>4. CASE DispatchPayment(r)
    <3>1. UNCHANGED <<sentinel, lock>> /\ pc'[r] = "release"
      BY <1>1, <2>4 DEF DispatchPayment, Goto, TypeOK
    <3> QED BY <1>2, <1>5, <3>1 DEF InFlight, InCritical
  <2>5. CASE ReleaseLock(r)
    <3>1. /\ sentinel' = sentinel /\ pc'[r] = "clear"
          /\ \A d \in CartIds : lock'[d] = IF d = c /\ lock[d] = r THEN None ELSE lock[d]
      BY <1>1, <2>5 DEF ReleaseLock, Goto, TypeOK, c
    <3> QED BY <1>2, <1>5, <3>1, NoneAssumption DEF InFlight
  <2>6. CASE ClearSentinel(r)
    <3>1. /\ lock' = lock /\ pc[r] = "clear"
          /\ \A j \in Keys : sentinel'[j] = IF j = k THEN None ELSE sentinel[j]
      BY <1>1, <2>6 DEF ClearSentinel, TypeOK, k
    <3> QED BY <1>2, <1>5, <3>1, NoneAssumption DEF InCritical, InTransaction, OwnsCart
  <2> QED BY <2>1, <2>2, <2>3, <2>4, <2>5, <2>6
<1> QED BY <1>1, <1>2, <1>3, <1>6, LeftKept DEF k, c

(* A failure uses up the premise; a crash still frees the rows.            *)
LEMMA LeftFails ==
  ASSUME IInv, LeftInv, NEW r \in Requests, Failure(r)
  PROVE  LeftInv'
<1>1. TypeOK /\ faults \in Nat /\ faults' = faults + 1 /\ UNCHANGED req
  BY DEF IInv, TypeOK, Failure, RedisFails, CleanupFails, BrokerFails, Crash, Fault
<1>2. faults' # 0
  BY <1>1
<1>3. \A q \in Requests \ {r} : pc'[q] = pc[q]
  BY <1>1 DEF Failure, RedisFails, CleanupFails, BrokerFails, Crash, Goto, TypeOK
<1>4. /\ \A x \in Rows : rowOwner'[x] \in {None, rowOwner[x]}
      /\ \A x \in Rows : rowOwner'[x] # r
  <2>1. CASE Crash(r)
    BY <2>1, NoneAssumption DEF Crash, ReleaseRows
  <2>2. CASE RedisFails(r) \/ CleanupFails(r) \/ BrokerFails(r)
    BY <2>2, NoneAssumption DEF RedisFails, CleanupFails, BrokerFails, LeftInv, OwnsCart
  <2> QED BY <2>1, <2>2 DEF Failure
<1> QED BY <1>1, <1>2, <1>3, <1>4, LeftKept

LEMMA NextLeftInv ==
  ASSUME IInv, LeftInv, [Next]_vars
  PROVE  LeftInv'
<1>1. ASSUME NEW r \in Requests, CheckRecord(r) \/ Step(r) PROVE LeftInv'
  BY <1>1, LeftInTransaction, LeftOutside DEF Step
<1>2. ASSUME NEW r \in Requests, DeadlockVictim(r) PROVE LeftInv'
  <2>1. TypeOK /\ pc[r] \in InTransaction /\ Abort(r, "deadlock")
    BY <1>2 DEF IInv, DeadlockVictim, InCycle, WaitsFor, InTransaction, OwnsCart
  <2> QED BY <2>1, LeftAborts
<1>3. ASSUME NEW r \in Requests, Failure(r) PROVE LeftInv'
  BY <1>3, LeftFails
<1>4. CASE (\E c \in CartIds : ExpireLock(c)) \/ (\E k \in Keys : ExpireSentinel(k))
  <2>1. UNCHANGED <<req, pc, rowOwner, faults>>
    BY <1>4 DEF ExpireLock, ExpireSentinel, bounds
  <2>2. /\ \A k \in Keys : sentinel'[k] \in {None, sentinel[k]}
        /\ \A c \in CartIds : lock'[c] \in {None, lock[c]}
    BY <1>4 DEF ExpireLock, ExpireSentinel, IInv, TypeOK
  <2> QED BY <2>1, <2>2 DEF LeftInv
<1>5. CASE (\E c \in Carts : EditCart(c)) \/ UNCHANGED vars
  <2>1. UNCHANGED <<req, pc, sentinel, lock, rowOwner, faults>>
    BY <1>5 DEF EditCart, vars, redisVars
  <2> QED BY <2>1 DEF LeftInv
<1> QED BY <1>1, <1>2, <1>3, <1>4, <1>5 DEF Next, Quiet

(* Answered requests that met no failure leave no key and no lock, however *)
(* short the TTLs are.                                                     *)
THEOREM LeavesNothing == Spec => []NothingLeftBehind
<1>1. Init => LeftInv
  BY DEF Init, LeftInv
<1>2. IInv /\ LeftInv /\ [Next]_vars => LeftInv'
  BY NextLeftInv
<1>3. IInv /\ LeftInv => NothingLeftBehind
  <2> SUFFICES ASSUME IInv, LeftInv, \A r \in Requests : pc[r] = "done", faults = 0
               PROVE  /\ \A k \in Keys : sentinel[k] = None
                      /\ \A c \in CartIds : lock[c] = None
                      /\ \A x \in Rows : rowOwner[x] = None
    BY DEF NothingLeftBehind
  <2>1. "done" \notin InFlight /\ "done" \notin InCritical /\ "done" \notin OwnsCart
    BY DEF InFlight, InCritical, InTransaction, OwnsCart
  <2>2. /\ \A k \in Keys : sentinel[k] \in Requests \cup {None}
        /\ \A c \in CartIds : lock[c] \in Requests \cup {None}
        /\ \A x \in Rows : rowOwner[x] \in Requests \cup {None}
    BY DEF IInv, TypeOK, Owners
  <2> QED BY <2>1, <2>2 DEF LeftInv
<1> QED BY <1>1, <1>2, <1>3, Invariance, PTL DEF Spec

-----------------------------------------------------------------------------
(* The refinement *)

(* What a request that leaves its transaction will answer: 202 for its own *)
(* dispatched order, or a refusal or an error, which name none.            *)
Accepted(r) == [status |-> "accepted", order |-> r]
Rejections == (Refusals \ {"conflict"}) \cup ServerErrors
Rejected(r) == \E status \in Rejections : reply[r] = [status |-> status, order |-> None]

DecidedInv ==
  \A r \in Requests :
    /\ pc[r] = "dispatch" => reply[r] = Accepted(r)
    /\ pc[r] \in {"release", "clear"} =>
         (reply[r] = Accepted(r) /\ r \in orders \cap dispatched) \/ Rejected(r)
    /\ pc[r] \in {"lock_coupons", "revalidate", "reserve", "commit"} => lines[r] # NoLines
    /\ r \in dispatched => pc[r] \in {"release", "clear", "done"}

RInv == IInv /\ DecidedInv

(* A step of r leaves the other requests' answers, orders and lines alone. *)
OnlyOf(r) ==
  /\ UNCHANGED req
  /\ \A q \in Requests \ {r} :
       /\ pc'[q] = pc[q] /\ reply'[q] = reply[q] /\ lines'[q] = lines[q]
       /\ (q \in dispatched') = (q \in dispatched)
       /\ (q \in orders') = (q \in orders)

LEMMA OthersDecided ==
  ASSUME DecidedInv, NEW r \in Requests, OnlyOf(r),
         pc'[r] = "dispatch" => reply'[r] = Accepted(r),
         pc'[r] \in {"release", "clear"} =>
           (reply'[r] = Accepted(r) /\ r \in orders' \cap dispatched') \/ Rejected(r)',
         pc'[r] \in {"lock_coupons", "revalidate", "reserve", "commit"} => lines'[r] # NoLines,
         r \in dispatched' => pc'[r] \in {"release", "clear", "done"}
  PROVE  DecidedInv'
<1> SUFFICES ASSUME NEW q \in Requests
             PROVE  /\ pc'[q] = "dispatch" => reply'[q] = Accepted(q)
                    /\ pc'[q] \in {"release", "clear"} =>
                         \/ reply'[q] = Accepted(q) /\ q \in orders' \cap dispatched'
                         \/ Rejected(q)'
                    /\ pc'[q] \in {"lock_coupons", "revalidate", "reserve", "commit"} => lines'[q] # NoLines
                    /\ q \in dispatched' => pc'[q] \in {"release", "clear", "done"}
  BY DEF DecidedInv, Accepted, NoLines
<1>1. CASE q = r
  BY <1>1
<1>2. CASE q # r
  BY <1>2 DEF DecidedInv, OnlyOf, Rejected
<1> QED BY <1>1, <1>2

placed == <<req, record, orders, cartStatus, stock, dispatched>>

(* A step that neither answers nor writes what clients can see.            *)
LEMMA QuietMaps ==
  ASSUME IInv, NEW r \in Requests, OnlyOf(r), UNCHANGED placed,
         r \notin orders \/ lines'[r] = lines[r],
         pc[r] # "done", pc'[r] # "done"
  PROVE  UNCHANGED Abstract!vars
<1>1. ReceivedAnswer' = ReceivedAnswer
  BY DEF ReceivedAnswer, OnlyOf, Pending
<1>2. LinesSold' = LinesSold
  BY DEF LinesSold, OnlyOf, placed, NoLines
<1>3. ClosedCarts' = ClosedCarts
  BY DEF ClosedCarts, placed
<1> QED BY <1>1, <1>2, <1>3 DEF Abstract!vars, placed

(* The step that sends the answer.                                         *)
LEMMA AnswerMaps ==
  ASSUME IInv, NEW r \in Requests, OnlyOf(r), UNCHANGED placed, UNCHANGED lines,
         pc[r] # "done", pc'[r] = "done",
         NEW status, NEW order, reply'[r] = [status |-> status, order |-> order]
  PROVE  Abstract!Answered(r, status, order)
<1>1. ReceivedAnswer[r].status = "pending"
  BY DEF ReceivedAnswer, Pending
<1>2. ReceivedAnswer' = [ReceivedAnswer EXCEPT ![r] = [status |-> status, order |-> order]]
  BY DEF ReceivedAnswer, OnlyOf, Pending
<1>3. LinesSold' = LinesSold /\ ClosedCarts' = ClosedCarts
  BY DEF LinesSold, ClosedCarts, placed, NoLines
<1> QED BY <1>1, <1>2, <1>3 DEF Abstract!Answered, Abstract!Open, placed

(* A refusal comes from a request without an order, an error from any.     *)
LEMMA RejectionMaps ==
  ASSUME IInv, NEW r \in Requests, OnlyOf(r), UNCHANGED placed, UNCHANGED lines,
         pc[r] # "done", pc'[r] = "done", Rejected(r)',
         reply'[r].status \in Refusals => r \notin orders
  PROVE  Abstract!Next
<1>1. PICK status \in Rejections : reply'[r] = [status |-> status, order |-> None]
  BY DEF Rejected
<1>2. Abstract!Answered(r, status, None)
  BY <1>1, AnswerMaps
<1>3. CASE status \in ServerErrors
  <2>1. Abstract!Fail(r)
    BY <1>2, <1>3 DEF Abstract!Fail
  <2> QED BY <2>1 DEF Abstract!Next
<1>4. CASE status \in Refusals \ {"conflict"}
  <2>1. Abstract!Refuse(r)
    BY <1>1, <1>2, <1>4 DEF Abstract!Refuse
  <2> QED BY <2>1 DEF Abstract!Next
<1> QED BY <1>1, <1>3, <1>4 DEF Rejections

Mapped == DecidedInv' /\ [Abstract!Next]_(Abstract!vars)

-----------------------------------------------------------------------------
(* A rollback keeps its refusal for later.                                 *)
LEMMA AbortMaps ==
  ASSUME RInv, NEW r \in Requests, NEW status \in Rejections, Abort(r, status),
         pc[r] \in InTransaction
  PROVE  Mapped
<1>1. /\ TypeOK /\ IInv /\ DecidedInv
  BY DEF RInv, IInv
<1>2. pc'[r] = "release" /\ reply'[r] = [status |-> status, order |-> None]
  BY <1>1 DEF Abort, Goto, Answer, TypeOK
<1>3. OnlyOf(r) /\ UNCHANGED placed /\ UNCHANGED lines
  BY <1>1 DEF Abort, Goto, Answer, OnlyOf, placed, dbVars, TypeOK
<1>4. r \notin dispatched
  BY <1>1 DEF DecidedInv, InTransaction, OwnsCart
<1>5. Rejected(r)'
  BY <1>2 DEF Rejected
<1>6. DecidedInv'
  BY <1>1, <1>2, <1>3, <1>4, <1>5, OthersDecided DEF placed
<1>7. UNCHANGED Abstract!vars
  BY <1>1, <1>2, <1>3, QuietMaps DEF InTransaction, OwnsCart
<1> QED BY <1>6, <1>7 DEF Mapped

(* A step inside the request that moves it on, without an answer.          *)
LEMMA MoveMaps ==
  ASSUME RInv, NEW r \in Requests, NEW phase \in Phases, Goto(r, phase),
         UNCHANGED <<req, record, orders, cartStatus, stock, dispatched, reply>>,
         \A q \in Requests \ {r} : lines'[q] = lines[q],
         r \notin orders \/ lines'[r] = lines[r],
         pc[r] # "done", phase \notin {"done", "dispatch"},
         phase \in {"release", "clear"} =>
           (reply[r] = Accepted(r) /\ r \in orders \cap dispatched) \/ Rejected(r),
         phase \in {"lock_coupons", "revalidate", "reserve", "commit"} => lines'[r] # NoLines,
         r \in dispatched => phase \in {"release", "clear"}
  PROVE  Mapped
<1>1. /\ TypeOK /\ IInv /\ DecidedInv
  BY DEF RInv, IInv
<1>2. pc'[r] = phase /\ OnlyOf(r) /\ UNCHANGED placed
  BY <1>1 DEF Goto, TypeOK, OnlyOf, placed
<1>3. DecidedInv'
  BY <1>1, <1>2, OthersDecided DEF placed, Rejected
<1>4. UNCHANGED Abstract!vars
  BY <1>1, <1>2, QuietMaps
<1> QED BY <1>3, <1>4 DEF Mapped

(* A refusal or an error, sent at once or once the sentinel is cleared.    *)
LEMMA RejectMaps ==
  ASSUME RInv, NEW r \in Requests, NEW phase \in {"done", "clear"}, Goto(r, phase),
         NEW status \in Rejections, Answer(r, status, None),
         UNCHANGED <<req, record, orders, cartStatus, stock, dispatched, lines>>,
         pc[r] # "done", phase # "done" => r \notin dispatched,
         status \in Refusals => r \notin orders
  PROVE  Mapped
<1>1. /\ TypeOK /\ IInv /\ DecidedInv
  BY DEF RInv, IInv
<1>2. /\ pc'[r] = phase /\ reply'[r] = [status |-> status, order |-> None]
      /\ OnlyOf(r) /\ UNCHANGED placed
  BY <1>1 DEF Goto, Answer, TypeOK, OnlyOf, placed
<1>3. Rejected(r)'
  BY <1>2 DEF Rejected
<1>4. DecidedInv'
  BY <1>1, <1>2, <1>3, OthersDecided DEF placed
<1>5. CASE phase = "clear"
  <2>1. UNCHANGED Abstract!vars
    BY <1>1, <1>2, <1>5, QuietMaps
  <2> QED BY <1>4, <2>1 DEF Mapped
<1>6. CASE phase = "done"
  <2>1. Abstract!Next
    BY <1>1, <1>2, <1>3, <1>6, RejectionMaps
  <2> QED BY <1>4, <2>1 DEF Mapped
<1> QED BY <1>5, <1>6

-----------------------------------------------------------------------------
(* Statement by statement *)

LEMMA CheckRecordMaps ==
  ASSUME RInv, NEW r \in Requests, CheckRecord(r)
  PROVE  Mapped
<1> DEFINE o == record[req[r].key]
<1>1. /\ TypeOK /\ IInv /\ DecidedInv /\ pc[r] = "idle" /\ r \notin orders /\ r \notin dispatched
      /\ UNCHANGED <<req, record, orders, cartStatus, stock, dispatched, lines>>
  BY DEF RInv, IInv, OrdersInv, DecidedInv, CheckRecord, dbVars, localVars
<1>2. CASE o = None
  BY <1>1, <1>2, MoveMaps DEF CheckRecord, Phases
<1>3. CASE o # None
  <2>1. PICK status \in {"replay", "conflict"}, order \in {o, None} :
          /\ Goto(r, "done") /\ Answer(r, status, order)
          /\ status = "replay" => order = o /\ Hash(o) = Hash(r)
          /\ status = "conflict" => order = None /\ Hash(o) # Hash(r)
    BY <1>3 DEF CheckRecord
  <2>2. /\ pc'[r] = "done" /\ reply'[r] = [status |-> status, order |-> order]
        /\ OnlyOf(r) /\ UNCHANGED placed
    BY <1>1, <2>1 DEF Goto, Answer, TypeOK, OnlyOf, placed
  <2>3. DecidedInv'
    BY <1>1, <2>2, OthersDecided
  <2>4. Abstract!Answered(r, status, order)
    BY <1>1, <2>2, AnswerMaps
  <2>5. Abstract!Payload(o) = Hash(o) /\ Abstract!Payload(r) = Hash(r)
    BY DEF Hash, Abstract!Payload
  <2>6. Abstract!Replay(r) \/ Abstract!Conflict(r)
    BY <1>1, <1>3, <2>1, <2>4, <2>5 DEF Abstract!Replay, Abstract!Conflict
  <2> QED BY <2>3, <2>6 DEF Mapped, Abstract!Next
<1> QED BY <1>2, <1>3

LEMMA SentinelMaps ==
  ASSUME RInv, NEW r \in Requests, CheckSentinel(r) \/ MarkInProgress(r) \/ AcquireLock(r)
  PROVE  Mapped
<1>1. /\ r \notin orders /\ r \notin dispatched
      /\ pc[r] \in {"check_sentinel", "mark", "acquire"}
      /\ UNCHANGED <<req, record, orders, cartStatus, stock, dispatched, lines>>
  BY DEF RInv, IInv, OrdersInv, DecidedInv, CheckSentinel, MarkInProgress, AcquireLock,
     dbVars, localVars
<1>2. \/ \E phase \in {"mark", "acquire", "lock_cart"} : Goto(r, phase) /\ UNCHANGED reply
      \/ Goto(r, "done") /\ Answer(r, "in_progress", None)
      \/ Goto(r, "clear") /\ Answer(r, "locked", None)
  BY DEF CheckSentinel, MarkInProgress, AcquireLock
<1>3. "in_progress" \in Rejections /\ "locked" \in Rejections
  BY DEF Rejections, Refusals
<1> QED BY <1>1, <1>2, <1>3, MoveMaps, RejectMaps DEF Phases

(* Row locks, lines and reservations are seen by nobody until the COMMIT.  *)
LEMMA TransactionMaps ==
  ASSUME RInv, NEW r \in Requests,
         LockCart(r) \/ LockAddress(r) \/ LockMethod(r) \/ ReadItems(r) \/ LockCoupon(r)
           \/ RevalidateCoupons(r) \/ ReserveStock(r)
  PROVE  Mapped
<1>1. /\ TypeOK /\ DecidedInv /\ r \notin orders /\ r \notin dispatched
      /\ pc[r] \in InTransaction
  BY DEF RInv, IInv, TypeOK, OrdersInv, DecidedInv, LockCart, LockAddress, LockMethod, ReadItems,
     LockCoupon, RevalidateCoupons, ReserveStock, InTransaction, OwnsCart
<1>2. CASE \E status \in Rejections : Abort(r, status)
  BY <1>1, <1>2, AbortMaps
<1>3. {"cart_not_found", "already_checked_out", "address_not_found", "method_invalid",
       "cart_empty", "coupon_invalid", "out_of_stock"} \subseteq Rejections
  BY DEF Rejections, Refusals
<1>4. CASE \E row, phase : phase \in {"lock_address", "lock_method", "read_items"} /\ LockRow(r, row, phase)
  BY <1>1, <1>4, MoveMaps DEF LockRow, dbVars, localVars, Phases, InTransaction, OwnsCart
<1>5. ASSUME ReadItems(r), lines'[r] # NoLines, UNCHANGED reply,
             NEW phase \in {"lock_coupons", "revalidate"}, Goto(r, phase)
      PROVE  Mapped
  BY <1>1, <1>5, MoveMaps
     DEF ReadItems, Abort, dbVars, bounds, Phases, TypeOK, InTransaction, OwnsCart
<1>6. CASE (LockCoupon(r) \/ RevalidateCoupons(r) \/ ReserveStock(r)) /\ ~\E status \in Rejections : Abort(r, status)
  <2>1. /\ UNCHANGED <<req, record, orders, cartStatus, stock, dispatched, reply, lines>>
        /\ pc[r] \in {"lock_coupons", "revalidate", "reserve"}
        /\ \/ Goto(r, "revalidate") \/ Goto(r, "reserve") \/ Goto(r, "commit")
           \/ UNCHANGED pc /\ pc[r] # "revalidate"
    BY <1>3, <1>6 DEF LockCoupon, RevalidateCoupons, ReserveStock, dbVars
  <2>2. UNCHANGED pc /\ pc[r] # "revalidate" => Goto(r, "lock_coupons") \/ Goto(r, "reserve")
    BY <1>1, <2>1 DEF Goto, TypeOK
  <2>3. \E phase \in {"lock_coupons", "revalidate", "reserve", "commit"} : Goto(r, phase)
    BY <2>1, <2>2
  <2>4. lines[r] # NoLines
    BY <1>1, <2>1 DEF DecidedInv
  <2> QED BY <1>1, <2>1, <2>3, <2>4, MoveMaps DEF Phases
<1>7. CASE ReadItems(r)
  <2>1. CASE Abort(r, "cart_empty")
    BY <1>2, <1>3, <2>1
  <2>2. CASE ~Abort(r, "cart_empty")
    <3>1. /\ lines'[r] # NoLines /\ UNCHANGED reply
          /\ Goto(r, "revalidate") \/ Goto(r, "lock_coupons")
      BY <1>1, <1>7, <2>2 DEF ReadItems, TypeOK
    <3> QED BY <1>5, <1>7, <3>1
  <2> QED BY <2>1, <2>2
<1>8. CASE LockCart(r) \/ LockAddress(r) \/ LockMethod(r)
  <2>1. \/ \E status \in Rejections : Abort(r, status)
        \/ \E row, phase : phase \in {"lock_address", "lock_method", "read_items"} /\ LockRow(r, row, phase)
    BY <1>3, <1>8 DEF LockCart, LockAddress, LockMethod
  <2> QED BY <1>2, <1>4, <2>1
<1> QED BY <1>2, <1>6, <1>7, <1>8

(* The COMMIT is the one step that places the order.                       *)
LEMMA CommitMaps ==
  ASSUME RInv, NEW r \in Requests, Commit(r)
  PROVE  Mapped
<1> DEFINE c == req[r].cart
           k == req[r].key
<1>1. /\ TypeOK /\ IInv /\ DecidedInv /\ pc[r] = "commit" /\ r \notin orders /\ r \notin dispatched
      /\ c \in Carts /\ cartStatus[c] = "ACTIVE" /\ lines[r] # NoLines
      /\ \A p \in Products : lines[r][p] > 0 => stock[p] >= lines[r][p]
  BY DEF RInv, IInv, Commit, OrdersInv, DecidedInv, OwnersInv, OwnsCart, ReservedInv
<1>2. CASE \E status \in Rejections : Abort(r, status)
  BY <1>1, <1>2, AbortMaps DEF InTransaction, OwnsCart
<1>3. CASE ~\E status \in Rejections : Abort(r, status)
  <2>1. /\ record[k] = None
        /\ record' = [record EXCEPT ![k] = r]
        /\ orders' = orders \cup {r}
        /\ cartStatus' = [cartStatus EXCEPT ![c] = "CHECKED_OUT"]
        /\ stock' = [p \in Products |-> stock[p] - lines[r][p]]
        /\ Answer(r, "accepted", r)
        /\ Goto(r, "dispatch")
        /\ UNCHANGED <<req, lines, dispatched>>
    BY <1>3 DEF Commit, Rejections, Refusals, ServerErrors, localVars
  <2>2. pc'[r] = "dispatch" /\ reply'[r] = Accepted(r) /\ OnlyOf(r)
    BY <1>1, <2>1 DEF Goto, Answer, TypeOK, OnlyOf, Accepted
  <2>3. DecidedInv'
    BY <1>1, <2>1, <2>2, OthersDecided
  <2>4. ReceivedAnswer' = ReceivedAnswer
    BY <1>1, <2>2 DEF ReceivedAnswer, OnlyOf, Pending
  <2>5. ReceivedAnswer[r].status = "pending"
    BY <1>1 DEF ReceivedAnswer, Pending
  <2>6. /\ LinesSold'[r] = lines[r]
        /\ \A q \in Requests \ {r} : LinesSold'[q] = LinesSold[q]
    BY <2>1 DEF LinesSold, NoLines
  <2>7. c \in Carts \ ClosedCarts /\ ClosedCarts' = ClosedCarts \cup {c}
    BY <1>1, <2>1 DEF ClosedCarts, TypeOK
  <2>8. \A p \in Products : LinesSold'[r][p] <= stock[p]
    BY <1>1, <2>6 DEF TypeOK
  <2>9. stock' = [p \in Products |-> stock[p] - LinesSold'[r][p]]
    BY <2>1, <2>6
  <2>10. LinesSold'[r] # Abstract!NoLines
    BY <1>1, <2>6 DEF NoLines, Abstract!NoLines
  <2>11. Abstract!Place(r)
    BY <1>1, <2>1, <2>4, <2>5, <2>6, <2>7, <2>8, <2>9, <2>10 DEF Abstract!Place, Abstract!Open
  <2> QED BY <2>3, <2>11 DEF Mapped, Abstract!Next
<1> QED BY <1>2, <1>3

LEMMA DispatchMaps ==
  ASSUME RInv, NEW r \in Requests, DispatchPayment(r)
  PROVE  Mapped
<1>1. /\ TypeOK /\ IInv /\ DecidedInv /\ pc[r] = "dispatch" /\ r \in orders
      /\ r \notin dispatched /\ reply[r] = Accepted(r)
  BY DEF RInv, IInv, DispatchPayment, OrdersInv, DecidedInv
<1>2. /\ dispatched' = dispatched \cup {r} /\ pc'[r] = "release" /\ OnlyOf(r)
      /\ UNCHANGED <<req, reply, record, orders, cartStatus, stock, lines>>
  BY <1>1 DEF DispatchPayment, Goto, TypeOK, OnlyOf, dbVars, localVars
<1>3. DecidedInv'
  BY <1>1, <1>2, OthersDecided
<1>4. /\ ReceivedAnswer' = ReceivedAnswer /\ ReceivedAnswer[r].status = "pending"
      /\ LinesSold' = LinesSold /\ ClosedCarts' = ClosedCarts
  BY <1>1, <1>2 DEF ReceivedAnswer, Pending, OnlyOf, LinesSold, ClosedCarts, NoLines
<1>5. Abstract!Dispatch(r)
  BY <1>1, <1>2, <1>4 DEF Abstract!Dispatch, Abstract!Open
<1> QED BY <1>3, <1>5 DEF Mapped, Abstract!Next

(* The keys are given back; what was decided is sent with the last DEL.    *)
LEMMA CleanupMaps ==
  ASSUME RInv, NEW r \in Requests, ReleaseLock(r) \/ ClearSentinel(r) \/ CleanupFails(r)
  PROVE  Mapped
<1>1. /\ TypeOK /\ IInv /\ DecidedInv /\ pc[r] \in {"release", "clear"}
      /\ (reply[r] = Accepted(r) /\ r \in orders \cap dispatched) \/ Rejected(r)
      /\ UNCHANGED <<req, reply, record, orders, cartStatus, stock, dispatched, lines>>
  BY DEF RInv, IInv, DecidedInv, ReleaseLock, ClearSentinel, CleanupFails, dbVars, localVars
<1>2. Goto(r, "clear") \/ (pc[r] = "clear" /\ Goto(r, "done"))
  BY DEF ReleaseLock, ClearSentinel, CleanupFails
<1>3. CASE Goto(r, "clear")
  BY <1>1, <1>3, MoveMaps DEF Phases
<1>4. CASE pc[r] = "clear" /\ Goto(r, "done")
  <2>1. pc'[r] = "done" /\ OnlyOf(r) /\ UNCHANGED placed
    BY <1>1, <1>4 DEF Goto, TypeOK, OnlyOf, placed
  <2>2. DecidedInv'
    BY <1>1, <2>1, OthersDecided
  <2>3. CASE reply[r] = Accepted(r) /\ r \in orders \cap dispatched
    <3>1. Abstract!Answered(r, "accepted", r)
      BY <1>1, <2>1, <2>3, AnswerMaps DEF Accepted
    <3>2. Abstract!Accept(r)
      BY <2>3, <3>1 DEF Abstract!Accept
    <3> QED BY <2>2, <3>2 DEF Mapped, Abstract!Next
  <2>4. CASE Rejected(r)
    <3>1. Rejected(r)' /\ (reply'[r].status \in Refusals => r \notin orders)
      BY <1>1, <2>4 DEF Rejected, IInv, AnswersInv
    <3>2. Abstract!Next
      BY <1>1, <2>1, <3>1, RejectionMaps
    <3> QED BY <2>2, <3>2 DEF Mapped
  <2> QED BY <1>1, <2>3, <2>4
<1> QED BY <1>2, <1>3, <1>4

(* Failures: an error, and an order only if it was committed before.       *)
LEMMA FailureMaps ==
  ASSUME RInv, NEW r \in Requests, Failure(r) \/ DeadlockVictim(r)
  PROVE  Mapped
<1> USE DEF dbVars, localVars
<1>1. /\ TypeOK /\ IInv /\ DecidedInv
      /\ {"redis_error", "dispatch_failed", "deadlock", "no_answer"} \subseteq Rejections \ Refusals
  BY DEF RInv, IInv, Rejections, Refusals, ServerErrors
<1>2. CASE RedisFails(r)
  <2>1. pc[r] \in {"check_sentinel", "mark", "acquire"} /\ r \notin dispatched
    BY <1>1, <1>2 DEF RedisFails, DecidedInv
  <2>2. Goto(r, "done") \/ Goto(r, "clear")
    BY <1>2 DEF RedisFails
  <2> QED BY <1>1, <1>2, <2>1, <2>2, RejectMaps DEF RedisFails
<1>3. CASE CleanupFails(r)
  BY <1>3, CleanupMaps
<1>4. CASE BrokerFails(r)
  <2>1. /\ pc[r] = "dispatch" /\ r \notin dispatched /\ pc'[r] = "release" /\ OnlyOf(r)
        /\ reply'[r] = [status |-> "dispatch_failed", order |-> None]
        /\ UNCHANGED placed /\ UNCHANGED lines
    BY <1>1, <1>4 DEF BrokerFails, DecidedInv, Goto, Answer, TypeOK, OnlyOf, placed
  <2>2. Rejected(r)'
    BY <1>1, <2>1 DEF Rejected
  <2>3. DecidedInv'
    BY <1>1, <2>1, <2>2, OthersDecided DEF placed
  <2>4. UNCHANGED Abstract!vars
    BY <1>1, <2>1, QuietMaps
  <2> QED BY <2>3, <2>4 DEF Mapped
<1>5. CASE Crash(r)
  BY <1>1, <1>5, RejectMaps DEF Crash
<1>6. CASE DeadlockVictim(r)
  <2>1. pc[r] \in {"lock_coupons", "reserve"} /\ Abort(r, "deadlock")
    BY <1>6 DEF DeadlockVictim, InCycle, WaitsFor
  <2> QED BY <1>1, <2>1, AbortMaps DEF InTransaction, OwnsCart
<1> QED BY <1>2, <1>3, <1>4, <1>5, <1>6 DEF Failure

LEMMA StepMaps ==
  ASSUME RInv, [Next]_vars
  PROVE  Mapped
<1>1. ASSUME NEW r \in Requests, CheckRecord(r) \/ Step(r) \/ DeadlockVictim(r) \/ Failure(r)
      PROVE  Mapped
  BY <1>1, CheckRecordMaps, SentinelMaps, TransactionMaps, CommitMaps, DispatchMaps, CleanupMaps,
     FailureMaps DEF Step
<1>2. CASE \/ \E c \in CartIds : ExpireLock(c)
           \/ \E key \in Keys : ExpireSentinel(key)
           \/ \E c \in Carts : EditCart(c)
           \/ UNCHANGED vars
  <2>1. UNCHANGED <<req, pc, reply, record, cartStatus, stock, lines, orders, dispatched>>
    BY <1>2 DEF ExpireLock, ExpireSentinel, EditCart, vars, dbVars, localVars
  <2>2. DecidedInv'
    BY <2>1 DEF RInv, DecidedInv, Rejected
  <2>3. UNCHANGED Abstract!vars
    BY <2>1 DEF Abstract!vars, ReceivedAnswer, LinesSold, ClosedCarts
  <2> QED BY <2>2, <2>3 DEF Mapped
<1> QED BY <1>1, <1>2 DEF Next, Quiet

(* Locks, sentinels, TTLs, transactions and failures are invisible: to its *)
(* clients, checkout is the indivisible step of AtomicCheckout.            *)
THEOREM CheckoutIsAtomic == Spec => ImplementsAtomicCheckout
<1>1. Init => DecidedInv /\ Abstract!Init
  <2> SUFFICES ASSUME Init PROVE DecidedInv /\ Abstract!Init
    OBVIOUS
  <2>1. DecidedInv
    BY DEF Init, DecidedInv
  <2>2. /\ ReceivedAnswer = [r \in Requests |-> [status |-> "pending", order |-> None]]
        /\ LinesSold = [r \in Requests |-> Abstract!NoLines]
        /\ ClosedCarts = {}
    BY DEF Init, ReceivedAnswer, Pending, LinesSold, NoLines, Abstract!NoLines, ClosedCarts
  <2>3. stock \in [Products -> Nat]
    BY StockAssumption DEF Init
  <2> QED BY <2>1, <2>2, <2>3 DEF Init, Abstract!Init
<1>2. IInv /\ DecidedInv /\ [Next]_vars => DecidedInv' /\ [Abstract!Next]_(Abstract!vars)
  BY StepMaps DEF RInv, Mapped
<1> QED BY <1>1, <1>2, Invariance, PTL DEF Spec, ImplementsAtomicCheckout, Abstract!Spec
=============================================================================
