----------------------------- MODULE ActiveCart -----------------------------
(***************************************************************************)
(* The cart endpoints of one customer (apps/cart/views.py) over the cart   *)
(* services (apps/cart/services.py).  No request names a cart: each finds  *)
(* the customer's ACTIVE one, or inserts it, and only then opens the       *)
(* transaction that writes to that row by its primary key, whatever became *)
(* of the cart in between.  A checkout closes the cart, so that the next   *)
(* request, the retry of a checkout included, meets another one.  The      *)
(* checkout service is a single step here, as in AtomicCheckout; Coupon    *)
(* has the uses of a coupon and TenantRequests the address book itself.    *)
(***************************************************************************)
EXTENDS CartTotals, FiniteSets, Sequences

CONSTANTS
  Workers,
  Products,
  PriceAt,      \* Product.price over time
  Coupons,
  CouponOf,     \* coupon -> its row: type, value, starts, ends, rules
  Gateways,     \* the registered gateway slugs
  Keys,         \* idempotency keys
  Bodies,       \* bound: the requests the customer may send
  Openings,     \* bound: and the first ones of a customer without a cart
  Basket,       \* the products another customer has in a cart already,
  Home,         \* and the country of that customer's default address
  MaxCarts,
  MaxRequests,  \* bound: requests other than reads
  MaxTime,      \* bound: the clock of the prices and the validity windows
  MaxFaults     \* bound

Kinds == {"read", "add_product", "remove_product", "add_coupon", "remove_coupon",
          "add_address", "add_payment_method", "set_business_details", "checkout"}

ASSUME ActiveCartAssumption ==
  /\ Basket \subseteq Products
  /\ PriceAt \in [0..MaxTime -> [Products -> Nat]]
  /\ \A b \in Bodies :
       /\ b.kind \in Kinds
       /\ b.kind = "checkout" => b.arg \in Keys
       /\ b.kind = "add_coupon" => b.arg \in Coupons
  /\ Openings \in Seq(SUBSET Bodies)
  /\ None \notin Keys

(* The check constraints ck_cartitem_qty_pos, ck_coupon_value_pos and      *)
(* ck_coupon_pct_lte_100.                                                  *)
ASSUME QuantityAssumption ==
  /\ IsFiniteSet(Basket)
  /\ \A b \in Bodies : b.kind = "add_product" => b.quantity \in Nat \ {0}

ASSUME CouponAssumption ==
  \A c \in Coupons :
    /\ CouponOf[c].value \in Nat \ {0}
    /\ CouponOf[c].type = "PERCENTAGE" => CouponOf[c].value <= 10000

ASSUME BoundAssumption ==
  /\ {MaxCarts, MaxTime, MaxRequests, MaxFaults} \subseteq Nat
  /\ Len(Openings) <= MaxRequests

Carts == 1..MaxCarts

VARIABLES
  pc,        \* the statement each worker executes next
  job,       \* the request it serves and the values it holds
  reply,     \* the answer to its last request
  carts,     \* cart rows, "unborn" before they are inserted
  orders,    \* key -> the order of its idempotency record, or None
  saved,     \* how many addresses and payment methods were inserted
  default,   \* the customer's default address and its country
  now,
  begun,
  faults

vars == <<pc, job, reply, carts, orders, saved, default, now, begun, faults>>
rows == <<carts, orders, saved, default>>

NoLines == [p \in {} |-> None]
NoCoupons == [c \in {} |-> None]
Unborn ==
  [status |-> "unborn", lines |-> NoLines, coupons |-> NoCoupons, subtotal |-> 0,
   discount |-> 0, total |-> 0, address |-> None, method |-> None, details |-> None]
Fresh == [Unborn EXCEPT !.status = "ACTIVE"]

NoDefault == [address |-> None, country |-> None]
NoJob == [body |-> None, cart |-> None, price |-> 0, address |-> None, method |-> None,
          demoted |-> None, closed |-> {}, recorded |-> FALSE]
NoReply == [status |-> "none", cart |-> None]

ActiveCarts == {c \in Carts : carts[c].status = "ACTIVE"}
Closed == {c \in Carts : carts[c].status = "CHECKED_OUT"}

(* f with x mapped to v. *)
Put(f, x, v) == [y \in DOMAIN f \cup {x} |-> IF y = x THEN v ELSE f[y]]
Without(f, x) == Restrict(f, DOMAIN f \ {x})

(* A customer who has chosen everything a checkout asks for. *)
Prepared ==
  Recalculated([Fresh EXCEPT !.lines = [p \in Basket |-> [quantity |-> 1, price |-> PriceAt[0][p]]],
                             !.address = 1, !.method = 2])

Init ==
  /\ pc = [w \in Workers |-> "idle"]
  /\ job = [w \in Workers |-> NoJob]
  /\ reply = [w \in Workers |-> NoReply]
  /\ \/ /\ carts = [c \in Carts |-> Unborn]
        /\ default = NoDefault
        /\ begun = 0
     \/ /\ carts = [c \in Carts |-> IF c = 1 THEN Prepared ELSE Unborn]
        /\ default = [address |-> 1, country |-> Home]
        /\ begun = Len(Openings)
  /\ orders = [k \in Keys |-> None]
  /\ saved = 2
  /\ now = 0
  /\ faults = 0

-----------------------------------------------------------------------------
Goto(w, phase) == pc' = [pc EXCEPT ![w] = phase]

Keep(w, j) == job' = [job EXCEPT ![w] = j]

(* The request is over; a checkout's answer names the cart of its order.   *)
AnswerWith(w, status, cart) ==
  /\ reply' = [reply EXCEPT ![w] = [status |-> status, cart |-> cart]]
  /\ Goto(w, "idle")
  /\ Keep(w, NoJob)

Answer(w, status) == AnswerWith(w, status, None)

(* An UPDATE of the cart row and of the rows under it, and its COMMIT.     *)
Write(w, cart) ==
  /\ carts' = [carts EXCEPT ![job[w].cart] = cart]
  /\ Answer(w, "200")
  /\ UNCHANGED <<orders, saved, default, now, begun, faults>>

Serves(w, phase, kind) == pc[w] = phase /\ job[w].body.kind = kind

Sendable == IF begun < Len(Openings) THEN Openings[begun + 1] ELSE Bodies

(* A request that passed its serializer reaches its view.  "closed" and    *)
(* "recorded" are history: the carts already checked out, and whether the  *)
(* key of a checkout already has its order.                                *)
Begin(w) ==
  /\ pc[w] = "idle"
  /\ \E b \in Sendable :
       /\ b.kind = "read" \/ begun < MaxRequests
       /\ begun' = IF b.kind = "read" THEN begun ELSE begun + 1
       /\ Keep(w, [NoJob EXCEPT !.body = b, !.closed = Closed,
                                !.recorded = b.kind = "checkout" /\ orders[b.arg] # None])
       /\ Goto(w, CASE b.kind = "add_product" -> "product"
                    [] b.kind = "checkout" -> "replay"
                    [] OTHER -> "get")
  /\ reply' = [reply EXCEPT ![w] = NoReply]
  /\ UNCHANGED <<rows, now, faults>>

(* Product.objects.get: the price is the one of this moment. *)
ReadProduct(w) ==
  LET p == job[w].body.arg IN
  /\ pc[w] = "product"
  /\ \/ p \notin Products /\ Answer(w, "404")
     \/ /\ p \in Products
        /\ Keep(w, [job[w] EXCEPT !.price = PriceAt[now][p]])
        /\ Goto(w, "get")
        /\ UNCHANGED reply
  /\ UNCHANGED <<rows, now, begun, faults>>

(* Mutation: the cart is resolved before the record is looked for. *)
ReplayAfterResolving(w) ==
  /\ pc[w] = "replay"
  /\ Goto(w, "get")
  /\ UNCHANGED <<job, reply, rows, now, begun, faults>>

(* checkout: a SUCCEEDED record of the key is the answer, before the cart  *)
(* is resolved and whatever the request is for.                            *)
ReplayFastPath(w) ==
  LET o == orders[job[w].body.arg] IN
  /\ pc[w] = "replay"
  /\ \/ o # None /\ AnswerWith(w, "202", o.cart)
     \/ o = None /\ Goto(w, "get") /\ UNCHANGED <<job, reply>>
  /\ UNCHANGED <<rows, now, begun, faults>>

(* The cart is found: a read is answered, a checkout refused that lacks an *)
(* address or a method, the others go on with what they read of the row.   *)
Resolve(w, c, row) ==
  LET kind == job[w].body.kind IN
  \/ kind = "read" /\ Answer(w, "200")
  \/ /\ kind = "checkout"
     /\ row.address = None \/ row.method = None
     /\ Answer(w, "422")
  \/ /\ kind # "read"
     /\ kind = "checkout" => row.address # None /\ row.method # None
     /\ Keep(w, [job[w] EXCEPT !.cart = c, !.address = row.address, !.method = row.method])
     /\ Goto(w, CASE kind \in {"add_address", "add_payment_method"} -> "save"
                  [] kind = "checkout" -> "checkout"
                  [] OTHER -> "write")
     /\ UNCHANGED reply

(* Mutation: any cart of the customer will do. *)
GetAnyCart(w) ==
  /\ pc[w] = "get"
  /\ \/ ActiveCarts \cup Closed = {} /\ Goto(w, "insert") /\ UNCHANGED <<job, reply>>
     \/ \E c \in ActiveCarts \cup Closed : Resolve(w, c, carts[c])
  /\ UNCHANGED <<rows, now, begun, faults>>

(* get_or_create: SELECT the cart WHERE status = ACTIVE. *)
GetCart(w) ==
  /\ pc[w] = "get"
  /\ \/ ActiveCarts = {} /\ Goto(w, "insert") /\ UNCHANGED <<job, reply>>
     \/ \E c \in ActiveCarts : Resolve(w, c, carts[c])
  /\ UNCHANGED <<rows, now, begun, faults>>

IsNextCart(c) ==
  carts[c].status = "unborn" /\ \A d \in Carts : carts[d].status = "unborn" => c <= d

(* INSERT of the customer's next cart, with the defaults of its columns.   *)
Insert(w) == \E c \in Carts :
  /\ IsNextCart(c)
  /\ carts' = [carts EXCEPT ![c] = Fresh]
  /\ Resolve(w, c, Fresh)

(* Mutation: the unique index is not there. *)
InsertSecondCart(w) ==
  /\ pc[w] = "insert"
  /\ Insert(w)
  /\ UNCHANGED <<orders, saved, default, now, begun, faults>>

(* Mutation: the index holds every cart of the customer. *)
InsertFirstCart(w) ==
  /\ pc[w] = "insert"
  /\ \/ ActiveCarts \cup Closed = {} /\ Insert(w)
     \/ /\ ActiveCarts \cup Closed # {}
        /\ Goto(w, "get_again")
        /\ UNCHANGED <<carts, job, reply>>
  /\ UNCHANGED <<orders, saved, default, now, begun, faults>>

(* get_or_create: INSERT; the index uq_cart_one_active_per_tenant_user     *)
(* refuses a second ACTIVE cart.                                           *)
InsertCart(w) ==
  /\ pc[w] = "insert"
  /\ \/ ActiveCarts = {} /\ Insert(w)
     \/ /\ ActiveCarts # {}
        /\ Goto(w, "get_again")
        /\ UNCHANGED <<carts, job, reply>>
  /\ UNCHANGED <<orders, saved, default, now, begun, faults>>

(* get_or_create: the loser's second SELECT; with nothing to find either,  *)
(* the IntegrityError goes up.                                             *)
GetCartAgain(w) ==
  /\ pc[w] = "get_again"
  /\ \/ ActiveCarts = {} /\ Answer(w, "500")
     \/ \E c \in ActiveCarts : Resolve(w, c, carts[c])
  /\ UNCHANGED <<rows, now, begun, faults>>

-----------------------------------------------------------------------------
(* add-address, add-payment-method: a transaction of its own for the new   *)
(* row, before the one that selects it.                                    *)

(* A new default address: the UPDATE demotes the one there is.             *)
DemoteDefault(w) ==
  /\ Serves(w, "save", "add_address")
  /\ Keep(w, [job[w] EXCEPT !.demoted = default.address])
  /\ Goto(w, "insert_address")
  /\ UNCHANGED <<reply, rows, now, begun, faults>>

(* The INSERT: uq_address_one_default_per_user refuses it when a default   *)
(* the UPDATE did not see has been committed, and nothing maps that error. *)
SaveAddress(w) ==
  LET b == job[w].body
      collides == b.is_default /\ default.address # job[w].demoted
  IN  /\ pc[w] = "insert_address"
      /\ \/ collides /\ Answer(w, "500") /\ UNCHANGED <<saved, default>>
         \/ /\ ~collides
            /\ saved' = saved + 1
            /\ default' = IF b.is_default THEN [address |-> saved + 1, country |-> b.arg]
                                          ELSE default
            /\ Keep(w, [job[w] EXCEPT !.address = saved + 1])
            /\ Goto(w, "write")
            /\ UNCHANGED reply
      /\ UNCHANGED <<carts, orders, now, begun, faults>>

SavePaymentMethod(w) ==
  /\ Serves(w, "save", "add_payment_method")
  /\ \/ job[w].body.arg \notin Gateways /\ Answer(w, "422") /\ UNCHANGED saved
     \/ /\ job[w].body.arg \in Gateways
        /\ saved' = saved + 1
        /\ Keep(w, [job[w] EXCEPT !.method = saved + 1])
        /\ Goto(w, "write")
        /\ UNCHANGED reply
  /\ UNCHANGED <<carts, orders, default, now, begun, faults>>

-----------------------------------------------------------------------------
(* The mutators.  Each locks the row by its primary key and never looks at *)
(* its status.                                                             *)

Row(w) == carts[job[w].cart]

(* A line keeps the price of its first unit. *)
AddProduct(w) ==
  LET b == job[w].body
      lines == Row(w).lines
      line == IF b.arg \in DOMAIN lines
                THEN [lines[b.arg] EXCEPT !.quantity = @ + b.quantity]
                ELSE [quantity |-> b.quantity, price |-> job[w].price]
  IN  /\ Serves(w, "write", "add_product")
      /\ Write(w, Recalculated([Row(w) EXCEPT !.lines = Put(lines, b.arg, line)]))

RemoveProduct(w) ==
  /\ Serves(w, "write", "remove_product")
  /\ Write(w, Recalculated([Row(w) EXCEPT !.lines = Without(@, job[w].body.arg)]))

(* The validator, for the cart as it is and the customer's country now.    *)
StillValid(c, cart) == Valid(CouponOf[c], cart.subtotal, default.country, now)

(* At most one coupon of a type, and none twice. *)
Stacks(c, cart) == \A d \in DOMAIN cart.coupons : CouponOf[d].type # CouponOf[c].type

AddCoupon(w) ==
  LET c == job[w].body.arg
      cart == Row(w)
  IN  /\ Serves(w, "write", "add_coupon")
      /\ Stacks(c, cart)
      /\ StillValid(c, cart)
      /\ Write(w, Recalculated([cart EXCEPT !.coupons = Put(@, c, Discount(CouponOf[c], cart))]))

(* Refused by one of these rules, or by is_active or the usage cap, which  *)
(* may say no at any time.                                                 *)
RefuseCoupon(w) ==
  /\ Serves(w, "write", "add_coupon")
  /\ Answer(w, "422")
  /\ UNCHANGED <<rows, now, begun, faults>>

RemoveCoupon(w) ==
  /\ Serves(w, "write", "remove_coupon")
  /\ Write(w, Recalculated([Row(w) EXCEPT !.coupons = Without(@, job[w].body.arg)]))

SetAddress(w) ==
  /\ Serves(w, "write", "add_address")
  /\ Write(w, [Row(w) EXCEPT !.address = job[w].address])

SetPaymentMethod(w) ==
  /\ Serves(w, "write", "add_payment_method")
  /\ Write(w, [Row(w) EXCEPT !.method = job[w].method])

(* All three fields are assigned, the ones the body left out as blanks.    *)
SetBusinessDetails(w) ==
  /\ Serves(w, "write", "set_business_details")
  /\ Write(w, [Row(w) EXCEPT !.details = job[w].body.arg])

-----------------------------------------------------------------------------
(* checkout: the service, with the ids the view read when it resolved the  *)
(* cart.                                                                   *)

RequestHash(w) == <<job[w].cart, job[w].address, job[w].method>>

OrderOf(w, cart) ==
  [cart |-> job[w].cart, hash |-> RequestHash(w), lines |-> cart.lines,
   coupons |-> cart.coupons, subtotal |-> cart.subtotal, discount |-> cart.discount,
   total |-> cart.total, details |-> cart.details]

(* A twin's order was committed after the fast path: it replays when it is *)
(* of the same payload, otherwise the request is a conflict.               *)
ReplayOrConflict(w) ==
  LET o == orders[job[w].body.arg] IN
  /\ pc[w] = "checkout"
  /\ o # None
  /\ IF o.hash = RequestHash(w) THEN AnswerWith(w, "202", o.cart) ELSE Answer(w, "409")
  /\ UNCHANGED <<rows, now, begun, faults>>

(* The lock, the sentinel, the cart's status; no lines, a coupon that does *)
(* not hold any more, no stock.                                            *)
RefuseCheckout(w) ==
  /\ pc[w] = "checkout"
  /\ orders[job[w].body.arg] = None
  /\ \E status \in {"409", "422"} : Answer(w, status)
  /\ UNCHANGED <<rows, now, begun, faults>>

(* Mutation: the coupons are not put to the validator again. *)
PlaceUnvalidated(w) ==
  /\ pc[w] = "checkout"
  /\ orders[job[w].body.arg] = None
  /\ Row(w).status = "ACTIVE"
  /\ DOMAIN Row(w).lines # {}
  /\ orders' = [orders EXCEPT ![job[w].body.arg] = OrderOf(w, Row(w))]
  /\ carts' = [carts EXCEPT ![job[w].cart].status = "CHECKED_OUT"]
  /\ AnswerWith(w, "202", job[w].cart)
  /\ UNCHANGED <<saved, default, now, begun, faults>>

PlaceOrder(w) ==
  LET cart == Recalculated(Row(w)) IN
  /\ pc[w] = "checkout"
  /\ orders[job[w].body.arg] = None
  /\ Row(w).status = "ACTIVE"
  /\ DOMAIN Row(w).lines # {}
  /\ \A c \in DOMAIN Row(w).coupons : StillValid(c, Row(w))
  /\ orders' = [orders EXCEPT ![job[w].body.arg] = OrderOf(w, cart)]
  /\ carts' = [carts EXCEPT ![job[w].cart] = [cart EXCEPT !.status = "CHECKED_OUT"]]
  /\ AnswerWith(w, "202", job[w].cart)
  /\ UNCHANGED <<saved, default, now, begun, faults>>

-----------------------------------------------------------------------------
(* The environment *)

(* Prices change and validity windows end. *)
PassTime ==
  /\ now < MaxTime
  /\ now' = now + 1
  /\ UNCHANGED <<pc, job, reply, rows, begun, faults>>

Fault == faults < MaxFaults /\ faults' = faults + 1

(* A statement raises: its transaction is gone, those before it stay. *)
StepFails(w) ==
  /\ Fault
  /\ pc[w] # "idle"
  /\ Answer(w, "500")
  /\ UNCHANGED <<rows, now, begun>>

(* The worker dies or its answer is lost; what it committed stays. *)
Crash(w) ==
  /\ Fault
  /\ pc[w] # "idle"
  /\ Goto(w, "idle")
  /\ Keep(w, NoJob)
  /\ UNCHANGED <<reply, rows, now, begun>>

-----------------------------------------------------------------------------
Find(w) ==
  \/ ReadProduct(w) \/ ReplayFastPath(w) \/ GetCart(w) \/ InsertCart(w) \/ GetCartAgain(w)
  \/ DemoteDefault(w) \/ SaveAddress(w) \/ SavePaymentMethod(w)

Mutate(w) ==
  \/ AddProduct(w) \/ RemoveProduct(w) \/ AddCoupon(w) \/ RefuseCoupon(w) \/ RemoveCoupon(w)
  \/ SetAddress(w) \/ SetPaymentMethod(w) \/ SetBusinessDetails(w)

Checkout(w) == ReplayOrConflict(w) \/ RefuseCheckout(w) \/ PlaceOrder(w)

Next ==
  \/ \E w \in Workers :
       Begin(w) \/ Find(w) \/ Mutate(w) \/ Checkout(w) \/ StepFails(w) \/ Crash(w)
  \/ PassTime

Spec == Init /\ [][Next]_vars

-----------------------------------------------------------------------------
(* Properties *)

(* A customer has one ACTIVE cart at most, however many requests find none *)
(* and insert theirs at the same time (uq_cart_one_active_per_tenant_user).*)
OneActiveCart == Cardinality(ActiveCarts) <= 1

Amounts(x) == {x.subtotal, x.discount, x.total}

(* In particular ck_cart_*_nonneg and ck_order_*_nonneg never refuse a row *)
(* ("payable can never be negative").                                      *)
TypeOK ==
  /\ pc \in [Workers -> {"idle", "product", "replay", "get", "insert", "get_again",
                         "save", "insert_address", "write", "checkout"}]
  /\ \A w \in Workers :
       /\ job[w].cart \in Carts \cup {None}
       /\ pc[w] \in {"save", "insert_address", "write", "checkout"} => job[w].cart \in Carts
       /\ pc[w] # "idle" => job[w].body \in Bodies
  /\ \A c \in Carts :
       /\ carts[c].status \in {"unborn", "ACTIVE", "CHECKED_OUT"}
       /\ DOMAIN carts[c].lines \subseteq Products
       /\ DOMAIN carts[c].coupons \subseteq Coupons
       /\ Amounts(carts[c]) \subseteq Nat
  /\ OneActiveCart
  /\ \A k \in Keys : orders[k] # None => orders[k].cart \in Carts /\ Amounts(orders[k]) \subseteq Nat
  /\ saved \in Nat
  /\ now \in 0..MaxTime
  /\ begun \in 0..MaxRequests
  /\ faults \in 0..MaxFaults

InSync(x) ==
  /\ x.subtotal = Subtotal(x.lines)
  /\ x.discount = SumFunction(x.coupons)
  /\ x.total = Payable(x.subtotal, x.discount)

MinimumMet(c, subtotal) ==
  "min_total" \in DOMAIN CouponOf[c].rules => subtotal >= CouponOf[c].rules["min_total"]

(* The denormalised totals follow every edit, and an order carries what    *)
(* its lines and discounts add up to: lines taken away after a coupon was  *)
(* applied do not leave it on an order below the coupon's minimum.         *)
OrdersAddUp ==
  /\ \A c \in Carts : InSync(carts[c])
  /\ \A k \in Keys : orders[k] # None =>
       /\ InSync(orders[k])
       /\ \A c \in DOMAIN orders[k].coupons : MinimumMet(c, orders[k].subtotal)

(* "A checked-out cart is effectively immutable": a request writes to one  *)
(* only when the cart was closed while that request was being served.      *)
LateEditsOverlap ==
  [][\A c \in Closed : carts'[c] # carts[c] =>
       \E w \in Workers :
         pc[w] = "write" /\ pc'[w] = "idle" /\ job[w].cart = c /\ c \notin job[w].closed]_vars

(* "Repeating the request with the same key returns the stored 202": once  *)
(* the order is committed, whatever the customer's cart has become.        *)
RetriesReplay ==
  [][\A w \in Workers : job[w].recorded /\ reply'[w] # reply[w] /\ faults' = faults =>
       reply'[w] = [status |-> "202", cart |-> orders[job[w].body.arg].cart]]_vars

(* "The loser retries with another GET, returning the winner's cart": the  *)
(* IntegrityError reaches the customer only when that cart was checked out *)
(* while the loser was being served.                                       *)
LoserFindsWinner ==
  [][\A w \in Workers :
       pc[w] = "get_again" /\ reply'[w].status = "500" /\ reply'[w] # reply[w] /\ faults' = faults =>
         Closed # job[w].closed]_vars
=============================================================================
