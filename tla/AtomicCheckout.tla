--------------------------- MODULE AtomicCheckout ---------------------------
(***************************************************************************)
(* What checkout promises its clients, with no lock, no sentinel and no    *)
(* transaction: each order is placed in one indivisible step that takes    *)
(* its stock, closes its cart and files its answer under its key; every    *)
(* request is answered once, and no answer contradicts the ledger.         *)
(* Checkout is shown to implement it.                                      *)
(***************************************************************************)
EXTENDS Integers

CONSTANTS Requests, Carts, Products, Keys, None, Successes, Refusals, ServerErrors

VARIABLES
  req,         \* what each request carries
  answer,      \* the answer each request got, its status "pending" before it
  ledger,      \* key -> the order stored under it, or None
  orders,      \* placed orders, each named by the request that placed it
  sold,        \* the lines of each order
  closed,      \* carts turned into an order
  stock,
  dispatched   \* orders handed to the payment worker

vars == <<req, answer, ledger, orders, sold, closed, stock, dispatched>>

Payload(r) == <<req[r].cart, req[r].address, req[r].method>>
NoLines == [p \in Products |-> 0]
Open(r) == answer[r].status = "pending"

Init ==
  /\ answer = [r \in Requests |-> [status |-> "pending", order |-> None]]
  /\ ledger = [k \in Keys |-> None]
  /\ orders = {}
  /\ sold = [r \in Requests |-> NoLines]
  /\ closed = {}
  /\ stock \in [Products -> Nat]
  /\ dispatched = {}

(* The one step that matters: an open request whose cart is open and whose *)
(* key is unused turns the cart into an order, stock permitting.           *)
Place(r) ==
  /\ Open(r)
  /\ r \notin orders
  /\ req[r].cart \in Carts \ closed
  /\ ledger[req[r].key] = None
  /\ sold'[r] # NoLines
  /\ \A q \in Requests \ {r} : sold'[q] = sold[q]
  /\ \A p \in Products : sold'[r][p] <= stock[p]
  /\ stock' = [p \in Products |-> stock[p] - sold'[r][p]]
  /\ closed' = closed \cup {req[r].cart}
  /\ ledger' = [ledger EXCEPT ![req[r].key] = r]
  /\ orders' = orders \cup {r}
  /\ UNCHANGED <<req, answer, dispatched>>

(* A payment is dispatched while its request is open, at most once. *)
Dispatch(r) ==
  /\ Open(r)
  /\ r \in orders \ dispatched
  /\ dispatched' = dispatched \cup {r}
  /\ UNCHANGED <<req, answer, ledger, orders, sold, closed, stock>>

Answered(r, status, order) ==
  /\ Open(r)
  /\ answer' = [answer EXCEPT ![r] = [status |-> status, order |-> order]]
  /\ UNCHANGED <<req, ledger, orders, sold, closed, stock, dispatched>>

(* 202 for the order this request placed, its payment dispatched. *)
Accept(r) == r \in orders /\ r \in dispatched /\ Answered(r, "accepted", r)

(* 202 again for a payload stored under its key, 409 for another one. *)
Replay(r) ==
  LET o == ledger[req[r].key] IN
  r \notin orders /\ o # None /\ Payload(o) = Payload(r) /\ Answered(r, "replay", o)

Conflict(r) ==
  LET o == ledger[req[r].key] IN
  r \notin orders /\ o # None /\ Payload(o) # Payload(r) /\ Answered(r, "conflict", None)

(* Any other 4xx: the request has changed nothing. *)
Refuse(r) ==
  \E status \in Refusals \ {"conflict"} :
    r \notin orders /\ Answered(r, status, None)

(* A 5xx or no answer at all: its order may or may not have been placed. *)
Fail(r) == \E status \in ServerErrors : Answered(r, status, None)

Next ==
  \E r \in Requests :
    Place(r) \/ Dispatch(r) \/ Accept(r) \/ Replay(r) \/ Conflict(r) \/ Refuse(r) \/ Fail(r)

Spec == Init /\ [][Next]_vars
=============================================================================
