-------------------------- MODULE ActiveCartProofs --------------------------
(***************************************************************************)
(* Proofs about ActiveCart and the arithmetic of CartTotals, for any       *)
(* number of workers, products, coupons, carts, requests and failures.     *)
(***************************************************************************)
EXTENDS ActiveCart, SumTheorems, TLAPS

(***************************************************************************)
(* The arithmetic                                                          *)
(***************************************************************************)

(* The customer never pays a negative amount nor more than the subtotal.   *)
THEOREM PayableBounds ==
  ASSUME NEW subtotal \in Nat, NEW discount \in Nat
  PROVE  Payable(subtotal, discount) \in 0..subtotal
  BY DEF Payable

(* The rounded amount is within half a cent of the exact one, and a half   *)
(* is rounded up.                                                          *)
THEOREM RoundingExact ==
  ASSUME NEW n \in Nat, NEW d \in Nat \ {0}
  PROVE  /\ 2 * n - d < 2 * d * RoundHalfUp(n, d)
         /\ 2 * d * RoundHalfUp(n, d) <= 2 * n + d
  BY DEF RoundHalfUp

(* A percentage of at most 100 % takes at most the subtotal, rounding      *)
(* included.                                                               *)
THEOREM PercentageBounds ==
  ASSUME NEW subtotal \in Nat, NEW value \in Nat, value <= 10000
  PROVE  /\ PercentageDiscount(subtotal, value) \in Nat
         /\ PercentageDiscount(subtotal, value) <= subtotal
<1> DEFINE product == subtotal * value
<1>1. product \in Nat /\ product <= subtotal * 10000
  OBVIOUS
<1> HIDE DEF product
<1>2. LET share == (2 * product + 10000) \div 20000 IN share \in Nat /\ share <= subtotal
  BY <1>1
<1> QED BY <1>2 DEF PercentageDiscount, RoundHalfUp, product

(* A fixed coupon takes at most its value, and with the coupons that were  *)
(* there before it at most the subtotal.                                   *)
THEOREM FixedBounds ==
  ASSUME NEW subtotal \in Nat, NEW value \in Nat, NEW already \in 0..subtotal
  PROVE  /\ FixedDiscount(subtotal, value, already) \in 0..value
         /\ already + FixedDiscount(subtotal, value, already) <= subtotal
  BY DEF FixedDiscount

-----------------------------------------------------------------------------
(***************************************************************************)
(* Rows                                                                    *)
(***************************************************************************)

IsRow(x) ==
  x = [status |-> x.status, lines |-> x.lines, coupons |-> x.coupons, subtotal |-> x.subtotal,
       discount |-> x.discount, total |-> x.total, address |-> x.address, method |-> x.method,
       details |-> x.details]

(* recalculate_cart leaves a row in sync, and touches its totals only.     *)
LEMMA RecalculatedRow ==
  ASSUME NEW x, IsRow(x)
  PROVE  /\ IsRow(Recalculated(x))
         /\ InSync(Recalculated(x))
         /\ Recalculated(x).status = x.status
         /\ Recalculated(x).lines = x.lines
         /\ Recalculated(x).coupons = x.coupons
         /\ Recalculated(x).subtotal = Subtotal(x.lines)
<1> DEFINE subtotal == Subtotal(x.lines)
           discount == SumFunction(x.coupons)
           total == Payable(subtotal, discount)
<1>1. Recalculated(x) = [x EXCEPT !.subtotal = subtotal, !.discount = discount, !.total = total]
  BY DEF Recalculated
<1> HIDE DEF subtotal, discount, total
<1>2. Recalculated(x) =
        [status |-> x.status, lines |-> x.lines, coupons |-> x.coupons, subtotal |-> subtotal,
         discount |-> discount, total |-> total, address |-> x.address, method |-> x.method,
         details |-> x.details]
  BY <1>1 DEF IsRow
<1> QED BY <1>2 DEF IsRow, InSync, subtotal, discount, total

LEMMA FreshRow ==
  /\ IsRow(Unborn) /\ InSync(Unborn) /\ Unborn.status = "unborn"
  /\ IsRow(Fresh) /\ InSync(Fresh) /\ Fresh.status = "ACTIVE"
<1>1. Subtotal(NoLines) = 0
  BY SumFunctionEmpty DEF Subtotal, NoLines
<1>2. SumFunction(NoCoupons) = 0
  BY SumFunctionEmpty DEF NoCoupons
<1>3. Payable(0, 0) = 0
  BY DEF Payable
<1> QED BY <1>1, <1>2, <1>3 DEF Fresh, Unborn, IsRow, InSync

LEMMA PreparedRow ==
  /\ IsRow(Prepared) /\ InSync(Prepared) /\ Prepared.status = "ACTIVE"
  /\ Prepared.lines = [p \in Basket |-> [quantity |-> 1, price |-> PriceAt[0][p]]]
  /\ Prepared.coupons = NoCoupons
<1> DEFINE basket == [p \in Basket |-> [quantity |-> 1, price |-> PriceAt[0][p]]]
           row == [Fresh EXCEPT !.lines = basket, !.address = 1, !.method = 2]
<1>1. Prepared = Recalculated(row)
  BY DEF Prepared
<1> HIDE DEF basket
<1>2. IsRow(row) /\ row.status = "ACTIVE" /\ row.lines = basket /\ row.coupons = NoCoupons
  <2>1. \A x : IsRow(x) => LET y == [x EXCEPT !.address = 1] IN
          IsRow(y) /\ y.status = x.status /\ y.lines = x.lines /\ y.coupons = x.coupons
    BY DEF IsRow
  <2>2. \A x : IsRow(x) => LET y == [x EXCEPT !.method = 2] IN
          IsRow(y) /\ y.status = x.status /\ y.lines = x.lines /\ y.coupons = x.coupons
    BY DEF IsRow
  <2> DEFINE filled == [Fresh EXCEPT !.lines = basket]
             addressed == [filled EXCEPT !.address = 1]
  <2>3. /\ IsRow(filled) /\ filled.status = "ACTIVE"
        /\ filled.lines = basket /\ filled.coupons = NoCoupons
    <3>1. IsRow(Fresh) /\ Fresh.status = "ACTIVE" /\ Fresh.coupons = NoCoupons
      BY FreshRow DEF Fresh, Unborn
    <3>2. \A x : IsRow(x) => LET y == [x EXCEPT !.lines = basket] IN
            IsRow(y) /\ y.status = x.status /\ y.lines = basket /\ y.coupons = x.coupons
      BY DEF IsRow
    <3> QED BY <3>1, <3>2
  <2>4. row = [addressed EXCEPT !.method = 2]
    OBVIOUS
  <2> HIDE DEF row, filled
  <2>5. /\ IsRow(addressed) /\ addressed.status = "ACTIVE"
        /\ addressed.lines = basket /\ addressed.coupons = NoCoupons
    BY <2>1, <2>3
  <2> HIDE DEF addressed
  <2> QED BY <2>2, <2>4, <2>5
<1> HIDE DEF row
<1> QED BY <1>1, <1>2, RecalculatedRow DEF basket

(* An edit of the rows under the cart is recalculated; an edit of its      *)
(* address, method or details leaves the totals alone.                     *)
LEMMA EditedRow ==
  ASSUME NEW x, IsRow(x), NEW y
  PROVE  /\ IsRow(Recalculated([x EXCEPT !.lines = y]))
         /\ InSync(Recalculated([x EXCEPT !.lines = y]))
         /\ Recalculated([x EXCEPT !.lines = y]).status = x.status
         /\ IsRow(Recalculated([x EXCEPT !.coupons = y]))
         /\ InSync(Recalculated([x EXCEPT !.coupons = y]))
         /\ Recalculated([x EXCEPT !.coupons = y]).status = x.status
<1>1. /\ IsRow([x EXCEPT !.lines = y]) /\ [x EXCEPT !.lines = y].status = x.status
      /\ IsRow([x EXCEPT !.coupons = y]) /\ [x EXCEPT !.coupons = y].status = x.status
  BY DEF IsRow
<1> QED BY <1>1, RecalculatedRow

LEMMA DetailedRow ==
  ASSUME NEW x, IsRow(x), InSync(x), NEW y, NEW z,
         \/ z = [x EXCEPT !.address = y]
         \/ z = [x EXCEPT !.method = y]
         \/ z = [x EXCEPT !.details = y]
  PROVE  IsRow(z) /\ InSync(z) /\ z.status = x.status
  BY DEF IsRow, InSync

-----------------------------------------------------------------------------
(***************************************************************************)
(* The invariant                                                           *)
(***************************************************************************)

Phases == {"idle", "product", "replay", "get", "insert", "get_again", "save", "insert_address",
           "write", "checkout"}

IsJob(j) ==
  j = [body |-> j.body, cart |-> j.cart, price |-> j.price, address |-> j.address,
       method |-> j.method, demoted |-> j.demoted, closed |-> j.closed, recorded |-> j.recorded]

Shape ==
  /\ pc \in [Workers -> Phases]
  /\ job = [w \in Workers |-> job[w]] /\ \A w \in Workers : IsJob(job[w])
  /\ reply = [w \in Workers |-> reply[w]]
  /\ carts = [c \in Carts |-> carts[c]]
  /\ orders = [k \in Keys |-> orders[k]]
  /\ begun \in Nat /\ faults \in Nat

RowsInv ==
  /\ \A c \in Carts :
       /\ IsRow(carts[c]) /\ InSync(carts[c])
       /\ carts[c].status \in {"unborn", "ACTIVE", "CHECKED_OUT"}
  /\ \A c, d \in ActiveCarts : c = d

OrdersInv ==
  \A k \in Keys : orders[k] # None =>
    /\ InSync(orders[k])
    /\ \A c \in DOMAIN orders[k].coupons : MinimumMet(c, orders[k].subtotal)

(* A worker knows which carts were closed when its request came; the cart  *)
(* it writes to was not.  A checkout whose key had its order goes no       *)
(* further than its first statement.  The loser of two INSERTs finds the   *)
(* winner's cart, or that one has been closed since.                       *)
JobInv(w) ==
  LET j == job[w] IN
  /\ pc[w] = "idle" => j = NoJob
  /\ pc[w] # "idle" => j.body \in Bodies
  /\ j.closed \subseteq Closed
  /\ pc[w] \in {"save", "insert_address", "write", "checkout"} =>
       j.cart \in Carts \ j.closed /\ carts[j.cart].status # "unborn"
  /\ pc[w] \in {"replay", "checkout"} => j.body.kind = "checkout"
  /\ j.recorded => pc[w] = "replay" /\ orders[j.body.arg] # None
  /\ pc[w] = "get_again" => ActiveCarts # {} \/ Closed # j.closed

IInv == Shape /\ RowsInv /\ OrdersInv /\ \A w \in Workers : JobInv(w)

Acts(w) == Begin(w) \/ Find(w) \/ Mutate(w) \/ Checkout(w) \/ StepFails(w) \/ Crash(w)

LEMMA InitIInv == Init => IInv
<1> SUFFICES ASSUME Init PROVE IInv
  OBVIOUS
<1>1. Shape
  <2>1. Len(Openings) \in Nat
    BY ActiveCartAssumption
  <2>2. begun \in Nat
    BY <2>1 DEF Init
  <2>3. carts = [c \in Carts |-> carts[c]]
    BY DEF Init
  <2> QED BY <2>2, <2>3 DEF Init, Shape, Phases, NoJob, IsJob
<1>2. IsRow(Prepared) /\ InSync(Prepared) /\ Prepared.status = "ACTIVE"
  BY PreparedRow
<1>3. RowsInv
  <2>1. ASSUME carts = [c \in Carts |-> Unborn] PROVE RowsInv
    BY <2>1, FreshRow DEF RowsInv, ActiveCarts
  <2>2. ASSUME carts = [c \in Carts |-> IF c = 1 THEN Prepared ELSE Unborn] PROVE RowsInv
    <3>1. \A c \in Carts : carts[c] = IF c = 1 THEN Prepared ELSE Unborn
      BY <2>2
    <3>2. \A c \in Carts : /\ IsRow(carts[c]) /\ InSync(carts[c])
                           /\ carts[c].status \in {"unborn", "ACTIVE", "CHECKED_OUT"}
                           /\ carts[c].status = "ACTIVE" => c = 1
      BY <1>2, <3>1, FreshRow
    <3> QED BY <3>2 DEF RowsInv, ActiveCarts
  <2> QED BY <2>1, <2>2 DEF Init
<1>4. OrdersInv
  BY DEF Init, OrdersInv
<1>5. ASSUME NEW w \in Workers PROVE JobInv(w)
  BY <1>5 DEF Init, JobInv, NoJob
<1> QED BY <1>1, <1>3, <1>4, <1>5 DEF IInv

-----------------------------------------------------------------------------
(***************************************************************************)
(* What the steps do to the carts                                          *)
(***************************************************************************)

Born(w) ==
  /\ pc[w] = "insert" /\ ActiveCarts = {}
  /\ \E c \in Carts : carts[c].status = "unborn" /\ carts' = [carts EXCEPT ![c] = Fresh]

Becomes(w, x) == IsRow(x) /\ InSync(x) /\ carts' = [carts EXCEPT ![job[w].cart] = x]

Edited(w) ==
  /\ pc[w] = "write" /\ pc'[w] = "idle"
  /\ \E x : Becomes(w, x) /\ x.status = carts[job[w].cart].status

Ordered(w) ==
  /\ pc[w] = "checkout" /\ carts[job[w].cart].status = "ACTIVE"
  /\ \E x : Becomes(w, x) /\ x.status = "CHECKED_OUT"

LEMMA WrittenRow ==
  ASSUME IInv, NEW w \in Workers, NEW x, IsRow(x), InSync(x), x.status = carts[job[w].cart].status,
         pc[w] = "write", Write(w, x)
  PROVE  Edited(w)
  BY DEF IInv, Shape, Write, Answer, AnswerWith, Goto, Edited, Becomes

LEMMA MutateEdits ==
  ASSUME IInv, NEW w \in Workers, Mutate(w)
  PROVE  Edited(w) \/ UNCHANGED carts
<1>1. pc[w] = "write" \/ UNCHANGED carts
  BY DEF Mutate, AddProduct, RemoveProduct, AddCoupon, RefuseCoupon, RemoveCoupon, SetAddress,
         SetPaymentMethod, SetBusinessDetails, Serves
<1>2. pc[w] = "write" => IsRow(Row(w)) /\ InSync(Row(w)) /\ Row(w).status = carts[job[w].cart].status
  BY DEF IInv, JobInv, RowsInv, Row
<1> SUFFICES ASSUME pc[w] = "write" PROVE Edited(w) \/ UNCHANGED carts
  BY <1>1
<1>3. CASE AddProduct(w)
  <2>1. PICK y : Write(w, Recalculated([Row(w) EXCEPT !.lines = y]))
    BY <1>3 DEF AddProduct
  <2> QED BY <1>2, <2>1, EditedRow, WrittenRow
<1>4. CASE RemoveProduct(w)
  <2>1. PICK y : Write(w, Recalculated([Row(w) EXCEPT !.lines = y]))
    BY <1>4 DEF RemoveProduct
  <2> QED BY <1>2, <2>1, EditedRow, WrittenRow
<1>5. CASE AddCoupon(w)
  <2>1. PICK y : Write(w, Recalculated([Row(w) EXCEPT !.coupons = y]))
    BY <1>5 DEF AddCoupon
  <2> QED BY <1>2, <2>1, EditedRow, WrittenRow
<1>6. CASE RemoveCoupon(w)
  <2>1. PICK y : Write(w, Recalculated([Row(w) EXCEPT !.coupons = y]))
    BY <1>6 DEF RemoveCoupon
  <2> QED BY <1>2, <2>1, EditedRow, WrittenRow
<1>7. CASE SetAddress(w)
  <2>1. Write(w, [Row(w) EXCEPT !.address = job[w].address])
    BY <1>7 DEF SetAddress
  <2> QED BY <1>2, <2>1, DetailedRow, WrittenRow
<1>8. CASE SetPaymentMethod(w)
  <2>1. Write(w, [Row(w) EXCEPT !.method = job[w].method])
    BY <1>8 DEF SetPaymentMethod
  <2> QED BY <1>2, <2>1, DetailedRow, WrittenRow
<1>9. CASE SetBusinessDetails(w)
  <2>1. Write(w, [Row(w) EXCEPT !.details = job[w].body.arg])
    BY <1>9 DEF SetBusinessDetails
  <2> QED BY <1>2, <2>1, DetailedRow, WrittenRow
<1>10. CASE RefuseCoupon(w)
  BY <1>10 DEF RefuseCoupon, rows
<1> QED BY <1>3, <1>4, <1>5, <1>6, <1>7, <1>8, <1>9, <1>10 DEF Mutate

LEMMA OrderCloses ==
  ASSUME IInv, NEW w \in Workers, PlaceOrder(w)
  PROVE  Ordered(w)
<1> DEFINE r == Recalculated(Row(w))
<1>1. pc[w] = "checkout" /\ Row(w).status = "ACTIVE" /\ IsRow(Row(w))
  BY DEF PlaceOrder, IInv, JobInv, RowsInv, Row
<1>2. IsRow(r) /\ InSync(r)
  BY <1>1, RecalculatedRow
<1> DEFINE x == [r EXCEPT !.status = "CHECKED_OUT"]
<1>3. carts' = [carts EXCEPT ![job[w].cart] = x]
  BY DEF PlaceOrder
<1> HIDE DEF r
<1>4. IsRow(x) /\ InSync(x) /\ x.status = "CHECKED_OUT"
  BY <1>2 DEF IsRow, InSync
<1> QED BY <1>1, <1>3, <1>4 DEF Ordered, Becomes, Row

LEMMA CartSteps ==
  ASSUME IInv, NEW w \in Workers, Acts(w)
  PROVE  Born(w) \/ Edited(w) \/ Ordered(w) \/ UNCHANGED carts
<1>1. CASE Mutate(w)
  BY <1>1, MutateEdits
<1>2. CASE PlaceOrder(w)
  BY <1>2, OrderCloses
<1>3. CASE InsertCart(w)
  BY <1>3 DEF InsertCart, Insert, IsNextCart, Born
<1> QED BY <1>1, <1>2, <1>3 DEF Acts, Begin, Find, ReadProduct, ReplayFastPath, GetCart, GetCartAgain,
       DemoteDefault, SaveAddress, SavePaymentMethod, Checkout, ReplayOrConflict, RefuseCheckout,
       StepFails, Crash, rows

(* Carts are born, closed, and never anything else. *)
LEMMA CartsProgress ==
  ASSUME IInv, NEW w \in Workers, Born(w) \/ Edited(w) \/ Ordered(w) \/ UNCHANGED carts
  PROVE  /\ carts' = [c \in Carts |-> carts'[c]]
         /\ RowsInv'
         /\ Closed \subseteq Closed'
         /\ \A c \in Carts : carts[c].status # "unborn" => carts'[c].status # "unborn"
         /\ ActiveCarts \subseteq ActiveCarts' \/ Closed' # Closed
<1>1. RowsInv /\ carts = [c \in Carts |-> carts[c]] /\ JobInv(w)
  BY DEF IInv, Shape
<1>2. CASE UNCHANGED carts
  BY <1>1, <1>2 DEF RowsInv, ActiveCarts, Closed
<1>3. CASE Born(w)
  <2>1. PICK c \in Carts : carts[c].status = "unborn" /\ carts' = [carts EXCEPT ![c] = Fresh]
    BY <1>3 DEF Born
  <2>2. /\ carts' = [d \in Carts |-> carts'[d]]
        /\ \A d \in Carts : carts'[d] = IF d = c THEN Fresh ELSE carts[d]
    BY <1>1, <2>1
  <2>3. ActiveCarts = {} /\ ActiveCarts' = {c}
    BY <1>3, <2>2, FreshRow DEF Born, ActiveCarts
  <2>4. Closed \subseteq Closed'
    BY <2>1, <2>2 DEF Closed
  <2>5. RowsInv'
    BY <1>1, <2>2, <2>3, FreshRow DEF RowsInv
  <2> QED BY <2>2, <2>3, <2>4, <2>5, FreshRow
<1>4. ASSUME Edited(w) \/ Ordered(w)
      PROVE  /\ carts' = [d \in Carts |-> carts'[d]]
             /\ RowsInv' /\ Closed \subseteq Closed'
             /\ \A d \in Carts : carts[d].status # "unborn" => carts'[d].status # "unborn"
             /\ ActiveCarts \subseteq ActiveCarts' \/ Closed' # Closed
  <2> DEFINE c == job[w].cart
  <2>1. c \in Carts /\ carts[c].status # "unborn"
    BY <1>1, <1>4 DEF Edited, Ordered, JobInv
  <2>2. PICK x : /\ Becomes(w, x)
                 /\ \/ x.status = carts[c].status
                    \/ carts[c].status = "ACTIVE" /\ x.status = "CHECKED_OUT"
    BY <1>4 DEF Edited, Ordered
  <2>3. /\ carts' = [d \in Carts |-> carts'[d]]
        /\ \A d \in Carts : carts'[d] = IF d = c THEN x ELSE carts[d]
    BY <1>1, <2>2 DEF Becomes
  <2>4. ActiveCarts' \subseteq ActiveCarts /\ Closed \subseteq Closed'
    BY <2>1, <2>2, <2>3 DEF ActiveCarts, Closed
  <2>5. ActiveCarts \subseteq ActiveCarts' \/ Closed' # Closed
    BY <2>1, <2>2, <2>3 DEF ActiveCarts, Closed
  <2>6. \A d \in Carts : /\ IsRow(carts'[d]) /\ InSync(carts'[d])
                         /\ carts'[d].status \in {"unborn", "ACTIVE", "CHECKED_OUT"}
    BY <1>1, <2>1, <2>2, <2>3 DEF RowsInv, Becomes
  <2>7. RowsInv'
    BY <1>1, <2>4, <2>6 DEF RowsInv
  <2> QED BY <2>1, <2>2, <2>3, <2>4, <2>5, <2>7
<1> QED BY <1>2, <1>3, <1>4

-----------------------------------------------------------------------------
(***************************************************************************)
(* What the steps do to the workers                                        *)
(***************************************************************************)

(* The worker's next statement, job and answer, the others' left alone.    *)
Moves(w) ==
  \E phase \in Phases : \E j, r :
    /\ IsJob(j)
    /\ pc' = [pc EXCEPT ![w] = phase]
    /\ job' = [job EXCEPT ![w] = j]
    /\ reply' = [reply EXCEPT ![w] = r]

LEMMA JobUpdates ==
  ASSUME NEW j, IsJob(j), NEW x, NEW y, NEW z
  PROVE  /\ IsJob([j EXCEPT !.cart = x, !.address = y, !.method = z])
         /\ IsJob([j EXCEPT !.body = x, !.closed = y, !.recorded = z])
<1> DEFINE fields == {"body", "cart", "price", "address", "method", "demoted", "closed",
                      "recorded"}
<1>1. DOMAIN j = fields
  BY DEF IsJob
<1>2. j = [f \in fields |-> j[f]]
  BY <1>1 DEF IsJob
<1>3. ASSUME NEW i, i = [f \in fields |-> i[f]] PROVE IsJob(i)
  BY <1>3 DEF IsJob
<1> QED BY <1>2, <1>3

LEMMA AnswerMoves ==
  ASSUME NEW w, NEW status, NEW cart, AnswerWith(w, status, cart)
  PROVE  Moves(w)
<1>1. IsJob(NoJob) /\ "idle" \in Phases
  BY DEF IsJob, NoJob, Phases
<1> QED BY <1>1 DEF AnswerWith, Goto, Keep, Moves

LEMMA KeepMoves ==
  ASSUME Shape, NEW w \in Workers, NEW phase \in Phases, NEW j, IsJob(j),
         Goto(w, phase), Keep(w, j), UNCHANGED reply
  PROVE  Moves(w)
<1>1. reply' = [reply EXCEPT ![w] = reply[w]]
  BY DEF Shape
<1> QED BY <1>1 DEF Goto, Keep, Moves

LEMMA GotoMoves ==
  ASSUME Shape, NEW w \in Workers, NEW phase \in Phases, Goto(w, phase), UNCHANGED <<job, reply>>
  PROVE  Moves(w)
<1>1. /\ job' = [job EXCEPT ![w] = job[w]] /\ IsJob(job[w])
      /\ reply' = [reply EXCEPT ![w] = reply[w]]
  BY DEF Shape
<1> QED BY <1>1 DEF Goto, Moves

LEMMA ResolveMoves ==
  ASSUME Shape, NEW w \in Workers, NEW c, NEW row, Resolve(w, c, row)
  PROVE  Moves(w)
<1>1. IsJob([job[w] EXCEPT !.cart = c, !.address = row.address, !.method = row.method])
  <2>1. IsJob(job[w])
    BY DEF Shape
  <2> QED BY <2>1, JobUpdates
<1>2. {"save", "checkout", "write"} \subseteq Phases
  BY DEF Phases
<1> QED BY <1>1, <1>2, AnswerMoves, KeepMoves DEF Resolve, Answer

LEMMA ActsMove ==
  ASSUME Shape, NEW w \in Workers, Acts(w)
  PROVE  Moves(w)
<1>0. IsJob(job[w])
  BY DEF Shape
<1>1. CASE Begin(w)
  <2>1. PICK b \in Sendable :
          /\ Keep(w, [NoJob EXCEPT !.body = b, !.closed = Closed,
                        !.recorded = b.kind = "checkout" /\ orders[b.arg] # None])
          /\ Goto(w, CASE b.kind = "add_product" -> "product"
                       [] b.kind = "checkout" -> "replay"
                       [] OTHER -> "get")
    BY <1>1 DEF Begin
  <2> DEFINE j == [NoJob EXCEPT !.body = b, !.closed = Closed,
                     !.recorded = b.kind = "checkout" /\ orders[b.arg] # None]
  <2>2. IsJob(j)
    <3>1. IsJob(NoJob)
      BY DEF IsJob, NoJob
    <3> QED BY <3>1, JobUpdates
  <2>3. PICK phase \in Phases : Goto(w, phase)
    BY <2>1 DEF Phases
  <2>4. reply' = [reply EXCEPT ![w] = NoReply]
    BY <1>1 DEF Begin
  <2> QED BY <2>1, <2>2, <2>3, <2>4 DEF Goto, Keep, Moves
<1>2. CASE ReadProduct(w)
  <2>1. IsJob([job[w] EXCEPT !.price = PriceAt[now][job[w].body.arg]]) /\ "get" \in Phases
    BY <1>0 DEF IsJob, Phases
  <2> QED BY <1>2, <2>1, AnswerMoves, KeepMoves DEF ReadProduct, Answer
<1>3. CASE ReplayFastPath(w)
  <2>1. "get" \in Phases
    BY DEF Phases
  <2> QED BY <1>3, <2>1, AnswerMoves, GotoMoves DEF ReplayFastPath
<1>4. CASE GetCart(w) \/ InsertCart(w) \/ GetCartAgain(w)
  <2>1. "insert" \in Phases /\ "get_again" \in Phases
    BY DEF Phases
  <2> QED BY <1>4, <2>1, AnswerMoves, GotoMoves, ResolveMoves
          DEF GetCart, InsertCart, Insert, GetCartAgain, Answer
<1>5. CASE DemoteDefault(w)
  <2>1. IsJob([job[w] EXCEPT !.demoted = default.address]) /\ "insert_address" \in Phases
    BY <1>0 DEF IsJob, Phases
  <2> QED BY <1>5, <2>1, KeepMoves DEF DemoteDefault
<1>11. CASE SaveAddress(w)
  <2>1. IsJob([job[w] EXCEPT !.address = saved + 1]) /\ "write" \in Phases
    BY <1>0 DEF IsJob, Phases
  <2> QED BY <1>11, <2>1, AnswerMoves, KeepMoves DEF SaveAddress, Answer
<1>6. CASE SavePaymentMethod(w)
  <2>1. IsJob([job[w] EXCEPT !.method = saved + 1]) /\ "write" \in Phases
    BY <1>0 DEF IsJob, Phases
  <2> QED BY <1>6, <2>1, AnswerMoves, KeepMoves DEF SavePaymentMethod, Answer
<1>7. CASE Mutate(w)
  BY <1>7, AnswerMoves
     DEF Mutate, AddProduct, RemoveProduct, AddCoupon, RefuseCoupon, RemoveCoupon, SetAddress,
         SetPaymentMethod, SetBusinessDetails, Write, Answer
<1>8. CASE Checkout(w)
  BY <1>8, AnswerMoves DEF Checkout, ReplayOrConflict, RefuseCheckout, PlaceOrder, Answer
<1>9. CASE StepFails(w)
  BY <1>9, AnswerMoves DEF StepFails, Answer
<1>10. CASE Crash(w)
  <2>1. IsJob(NoJob) /\ "idle" \in Phases
    BY DEF IsJob, NoJob, Phases
  <2> QED BY <1>10, <2>1, KeepMoves DEF Crash, rows
<1> QED BY <1>1, <1>2, <1>3, <1>4, <1>5, <1>6, <1>7, <1>8, <1>9, <1>10, <1>11 DEF Acts, Find

LEMMA MovesShape ==
  ASSUME Shape, NEW w \in Workers, Moves(w)
  PROVE  /\ pc' \in [Workers -> Phases]
         /\ job' = [v \in Workers |-> job'[v]] /\ \A v \in Workers : IsJob(job'[v])
         /\ reply' = [v \in Workers |-> reply'[v]]
         /\ \A v \in Workers \ {w} : pc'[v] = pc[v] /\ job'[v] = job[v] /\ reply'[v] = reply[v]
<1>1. PICK phase \in Phases : \E j, r :
        /\ IsJob(j)
        /\ pc' = [pc EXCEPT ![w] = phase]
        /\ job' = [job EXCEPT ![w] = j]
        /\ reply' = [reply EXCEPT ![w] = r]
  BY DEF Moves
<1>2. PICK j, r :
        /\ IsJob(j)
        /\ pc' = [pc EXCEPT ![w] = phase]
        /\ job' = [job EXCEPT ![w] = j]
        /\ reply' = [reply EXCEPT ![w] = r]
  BY <1>1
<1>3. \A v \in Workers : IsJob(job'[v])
  BY <1>2 DEF Shape
<1> QED BY <1>1, <1>2, <1>3 DEF Shape

-----------------------------------------------------------------------------
(***************************************************************************)
(* Orders                                                                  *)
(***************************************************************************)

LEMMA OrderSteps ==
  ASSUME IInv, NEW w \in Workers, Acts(w)
  PROVE  \/ UNCHANGED orders
         \/ PlaceOrder(w) /\ job[w].body.arg \in Keys
<1>1. PlaceOrder(w) => job[w].body.arg \in Keys
  BY ActiveCartAssumption DEF PlaceOrder, IInv, JobInv
<1> QED BY <1>1 DEF Acts, Begin, Find, ReadProduct, ReplayFastPath, GetCart, InsertCart, GetCartAgain,
       DemoteDefault, SaveAddress, SavePaymentMethod, Mutate, AddProduct, RemoveProduct, AddCoupon,
       RefuseCoupon,
       RemoveCoupon, SetAddress, SetPaymentMethod, SetBusinessDetails, Write, Checkout,
       ReplayOrConflict, RefuseCheckout, StepFails, Crash, rows

(* An order, once recorded under its key, stays. *)
LEMMA OrdersStay ==
  ASSUME IInv, NEW w \in Workers, Acts(w)
  PROVE  /\ orders' = [k \in Keys |-> orders'[k]]
         /\ \A k \in Keys : orders[k] # None => orders'[k] = orders[k]
<1>1. orders = [k \in Keys |-> orders[k]]
  BY DEF IInv, Shape
<1>2. CASE UNCHANGED orders
  BY <1>1, <1>2
<1>3. CASE PlaceOrder(w) /\ job[w].body.arg \in Keys
  BY <1>1, <1>3 DEF PlaceOrder
<1> QED BY <1>2, <1>3, OrderSteps

LEMMA OrderInSync ==
  ASSUME IInv, NEW w \in Workers, PlaceOrder(w)
  PROVE  LET o == OrderOf(w, Recalculated(Row(w))) IN
         /\ InSync(o)
         /\ \A c \in DOMAIN o.coupons : MinimumMet(c, o.subtotal)
<1> DEFINE cart == Row(w)
           r == Recalculated(cart)
           o == OrderOf(w, r)
<1>1. IsRow(cart) /\ InSync(cart)
  BY DEF PlaceOrder, IInv, JobInv, RowsInv, Row
<1>2. /\ InSync(r) /\ r.lines = cart.lines /\ r.coupons = cart.coupons
      /\ r.subtotal = cart.subtotal
  BY <1>1, RecalculatedRow DEF InSync
<1>3. \A c \in DOMAIN cart.coupons : StillValid(c, cart)
  BY DEF PlaceOrder
<1>4. \A c \in DOMAIN cart.coupons : MinimumMet(c, cart.subtotal)
  BY <1>3 DEF StillValid, Valid, RuleHolds, MinimumMet
<1> HIDE DEF cart, r
<1>5. /\ o.lines = r.lines /\ o.coupons = r.coupons /\ o.subtotal = r.subtotal
      /\ o.discount = r.discount /\ o.total = r.total
  BY DEF OrderOf
<1>6. InSync(o)
  BY <1>2, <1>5 DEF InSync
<1>7. \A c \in DOMAIN o.coupons : MinimumMet(c, o.subtotal)
  BY <1>2, <1>4, <1>5
<1> QED BY <1>6, <1>7 DEF cart, r

LEMMA OrdersInductive ==
  ASSUME IInv, NEW w \in Workers, Acts(w)
  PROVE  OrdersInv'
<1>1. OrdersInv /\ orders = [k \in Keys |-> orders[k]]
  BY DEF IInv, Shape
<1>2. CASE UNCHANGED orders
  BY <1>1, <1>2 DEF OrdersInv, InSync, MinimumMet
<1>3. CASE PlaceOrder(w) /\ job[w].body.arg \in Keys
  <2> DEFINE o == OrderOf(w, Recalculated(Row(w)))
  <2>1. orders' = [orders EXCEPT ![job[w].body.arg] = o]
    BY <1>3 DEF PlaceOrder
  <2>2. InSync(o) /\ \A c \in DOMAIN o.coupons : MinimumMet(c, o.subtotal)
    BY <1>3, OrderInSync
  <2> HIDE DEF o
  <2>3. \A k \in Keys : orders'[k] = o \/ orders'[k] = orders[k]
    BY <1>1, <2>1
  <2> SUFFICES ASSUME NEW k \in Keys, orders'[k] # None
               PROVE  /\ InSync(orders'[k])
                      /\ \A c \in DOMAIN orders'[k].coupons : MinimumMet(c, orders'[k].subtotal)
    BY DEF OrdersInv, InSync, MinimumMet
  <2> QED BY <1>1, <2>2, <2>3 DEF OrdersInv
<1> QED BY <1>2, <1>3, OrderSteps

-----------------------------------------------------------------------------
(***************************************************************************)
(* Jobs                                                                    *)
(***************************************************************************)

(* What a worker knows of carts and orders stays true while it waits.      *)
LEMMA WaitingJob ==
  ASSUME IInv, NEW w \in Workers, Acts(w), NEW v \in Workers, pc'[v] = pc[v], job'[v] = job[v]
  PROVE  JobInv(v)'
<1> DEFINE j == job[v]
<1>1. JobInv(v)
  BY DEF IInv
<1>2. /\ Closed \subseteq Closed'
      /\ \A c \in Carts : carts[c].status # "unborn" => carts'[c].status # "unborn"
      /\ ActiveCarts \subseteq ActiveCarts' \/ Closed' # Closed
  BY CartSteps, CartsProgress
<1>3. pc[v] = "replay" => j.body.arg \in Keys
  BY <1>1, ActiveCartAssumption DEF JobInv
<1>4. j.recorded => pc[v] = "replay" /\ orders'[j.body.arg] # None
  BY <1>1, <1>3, OrdersStay DEF JobInv
<1>5. pc[v] = "get_again" => ActiveCarts' # {} \/ Closed' # j.closed
  BY <1>1, <1>2 DEF JobInv
<1>6. j.closed \subseteq Closed'
  BY <1>1, <1>2 DEF JobInv
<1> QED BY <1>1, <1>2, <1>4, <1>5, <1>6 DEF JobInv

LEMMA AnsweredJob ==
  ASSUME Shape, NEW w \in Workers, NEW status, NEW cart, AnswerWith(w, status, cart)
  PROVE  /\ JobInv(w)' /\ pc'[w] = "idle"
         /\ reply'[w] = [status |-> status, cart |-> cart]
<1>1. pc'[w] = "idle" /\ job'[w] = NoJob /\ reply'[w] = [status |-> status, cart |-> cart]
  BY DEF AnswerWith, Goto, Keep, Shape
<1> QED BY <1>1 DEF JobInv, NoJob

LEMMA ResolvedJob ==
  ASSUME Shape, NEW w \in Workers, JobInv(w), NEW c \in Carts, NEW row, Resolve(w, c, row),
         pc[w] \in {"get", "insert", "get_again"},
         c \notin job[w].closed, carts'[c].status # "unborn", Closed \subseteq Closed'
  PROVE  JobInv(w)'
<1> DEFINE kind == job[w].body.kind
           j == [job[w] EXCEPT !.cart = c, !.address = row.address, !.method = row.method]
<1>1. CASE \E status : Answer(w, status)
  BY <1>1, AnsweredJob DEF Answer
<1>2. CASE Keep(w, j) /\ kind # "read"
           /\ Goto(w, CASE kind \in {"add_address", "add_payment_method"} -> "save"
                        [] kind = "checkout" -> "checkout"
                        [] OTHER -> "write")
  <2>1. IsJob(job[w]) /\ ~job[w].recorded
    BY DEF Shape, JobInv
  <2>2. j.body = job[w].body /\ j.closed = job[w].closed /\ j.cart = c /\ j.recorded = job[w].recorded
    BY <2>1 DEF IsJob
  <2>3. IsJob(j)
    BY <2>1, JobUpdates
  <2> HIDE DEF j
  <2>4. PICK phase \in {"save", "checkout", "write"} :
          Goto(w, phase) /\ (phase = "checkout" => kind = "checkout")
    BY <1>2
  <2>5. pc'[w] = phase /\ job'[w] = j
    BY <1>2, <2>4 DEF Goto, Keep, Shape
  <2> QED BY <2>1, <2>2, <2>4, <2>5 DEF JobInv
<1> QED BY <1>1, <1>2 DEF Resolve

LEMMA BegunJob ==
  ASSUME IInv, NEW w \in Workers, Begin(w)
  PROVE  JobInv(w)' /\ begun' \in Nat /\ reply'[w] = NoReply
<1> DEFINE Sent(b) == [NoJob EXCEPT !.body = b, !.closed = Closed,
                         !.recorded = b.kind = "checkout" /\ orders[b.arg] # None]
<1>1. Shape
  BY DEF IInv
<1>2. Sendable \subseteq Bodies
  <2>1. CASE begun < Len(Openings)
    <3>1. begun + 1 \in 1..Len(Openings)
      BY <1>1, <2>1, ActiveCartAssumption DEF Shape
    <3>2. Openings[begun + 1] \in SUBSET Bodies
      BY <3>1, ActiveCartAssumption
    <3> QED BY <2>1, <3>2 DEF Sendable
  <2> QED BY <2>1 DEF Sendable
<1>3. PICK b \in Sendable :
        /\ begun' = IF b.kind = "read" THEN begun ELSE begun + 1
        /\ Keep(w, Sent(b))
        /\ Goto(w, CASE b.kind = "add_product" -> "product"
                     [] b.kind = "checkout" -> "replay"
                     [] OTHER -> "get")
  BY DEF Begin
<1>4. /\ Sent(b).body = b /\ Sent(b).closed = Closed
      /\ Sent(b).recorded <=> b.kind = "checkout" /\ orders[b.arg] # None
  BY DEF NoJob
<1>5. UNCHANGED <<carts, orders>> /\ reply' = [reply EXCEPT ![w] = NoReply]
  BY DEF Begin, rows
<1>6. Closed' = Closed
  BY <1>5 DEF Closed
<1> HIDE DEF Sent
<1>7. job'[w] = Sent(b) /\ reply'[w] = NoReply
  BY <1>1, <1>3, <1>5 DEF Keep, Shape
<1>8. /\ pc'[w] \in {"product", "replay", "get"}
      /\ pc'[w] = "replay" <=> b.kind = "checkout"
  BY <1>1, <1>3 DEF Goto, Shape
<1>9. JobInv(w)'
  BY <1>2, <1>4, <1>5, <1>6, <1>7, <1>8 DEF JobInv
<1> QED BY <1>1, <1>3, <1>7, <1>9 DEF Shape

LEMMA ResolvingJob ==
  ASSUME IInv, NEW w \in Workers, GetCart(w) \/ InsertCart(w) \/ GetCartAgain(w)
  PROVE  JobInv(w)'
<1>1. Shape /\ JobInv(w) /\ RowsInv
  BY DEF IInv
<1>2. Closed \subseteq Closed'
  <2>1. Acts(w)
    BY DEF Acts, Find
  <2> QED BY <2>1, CartSteps, CartsProgress
<1>3. ASSUME NEW c \in ActiveCarts, Resolve(w, c, carts[c]), UNCHANGED carts, pc[w] \in {"get", "get_again"}
      PROVE  JobInv(w)'
  <2>1. c \in Carts /\ c \notin job[w].closed /\ carts'[c].status # "unborn"
    BY <1>1, <1>3 DEF ActiveCarts, JobInv, Closed
  <2> QED BY <1>1, <1>2, <1>3, <2>1, ResolvedJob
<1>4. CASE GetCart(w)
  <2>1. CASE Goto(w, "insert") /\ UNCHANGED <<job, reply>>
    <3>1. pc'[w] = "insert" /\ job'[w] = job[w]
      BY <1>1, <2>1 DEF Goto, Shape
    <3> QED BY <1>1, <1>2, <1>4, <3>1 DEF GetCart, JobInv
  <2> QED BY <1>3, <1>4, <2>1 DEF GetCart, rows
<1>5. CASE InsertCart(w)
  <2>1. CASE Insert(w)
    <3>1. PICK c \in Carts : IsNextCart(c) /\ carts' = [carts EXCEPT ![c] = Fresh] /\ Resolve(w, c, Fresh)
      BY <2>1 DEF Insert
    <3>2. carts'[c].status = "ACTIVE"
      BY <1>1, <3>1, FreshRow DEF Shape
    <3>3. c \notin job[w].closed
      BY <1>1, <3>1 DEF IsNextCart, JobInv, Closed
    <3> QED BY <1>1, <1>2, <1>5, <3>1, <3>2, <3>3, ResolvedJob DEF InsertCart
  <2>2. CASE ActiveCarts # {} /\ Goto(w, "get_again") /\ UNCHANGED <<carts, job, reply>>
    <3>1. pc'[w] = "get_again" /\ job'[w] = job[w] /\ ActiveCarts' # {}
      BY <1>1, <2>2 DEF Goto, Shape, ActiveCarts
    <3> QED BY <1>1, <1>2, <1>5, <3>1 DEF InsertCart, JobInv
  <2> QED BY <1>5, <2>1, <2>2 DEF InsertCart
<1>6. CASE GetCartAgain(w)
  BY <1>1, <1>3, <1>6, AnsweredJob DEF GetCartAgain, Answer, rows
<1> QED BY <1>4, <1>5, <1>6

LEMMA OwnJob ==
  ASSUME IInv, NEW w \in Workers, Acts(w)
  PROVE  JobInv(w)'
<1>1. Shape /\ JobInv(w) /\ IsJob(job[w])
  BY DEF IInv, Shape
<1>2. /\ Closed \subseteq Closed'
      /\ \A c \in Carts : carts[c].status # "unborn" => carts'[c].status # "unborn"
  BY CartSteps, CartsProgress
<1>3. CASE Begin(w)
  BY <1>3, BegunJob
<1>4. CASE ReadProduct(w)
  <2> DEFINE j == [job[w] EXCEPT !.price = PriceAt[now][job[w].body.arg]]
  <2>1. j.body = job[w].body /\ j.closed = job[w].closed /\ j.recorded = job[w].recorded
    BY <1>1 DEF IsJob
  <2>2. CASE Keep(w, j) /\ Goto(w, "get")
    <3> HIDE DEF j
    <3>1. pc'[w] = "get" /\ job'[w] = j
      BY <1>1, <2>2 DEF Keep, Goto, Shape
    <3> QED BY <1>1, <1>2, <1>4, <2>1, <3>1 DEF ReadProduct, JobInv
  <2> QED BY <1>1, <1>4, <2>2, AnsweredJob DEF ReadProduct, Answer
<1>5. CASE ReplayFastPath(w)
  <2>1. CASE orders[job[w].body.arg] = None /\ Goto(w, "get") /\ UNCHANGED <<job, reply>>
    <3>1. pc'[w] = "get" /\ job'[w] = job[w] /\ ~job[w].recorded
      BY <1>1, <2>1 DEF Goto, Shape, JobInv
    <3> QED BY <1>1, <1>2, <1>5, <3>1 DEF ReplayFastPath, JobInv
  <2> QED BY <1>1, <1>5, <2>1, AnsweredJob DEF ReplayFastPath
<1>6. CASE GetCart(w) \/ InsertCart(w) \/ GetCartAgain(w)
  BY <1>6, ResolvingJob
<1>7. CASE SaveAddress(w)
  <2> DEFINE j == [job[w] EXCEPT !.address = saved + 1]
  <2>1. j.body = job[w].body /\ j.closed = job[w].closed /\ j.cart = job[w].cart
        /\ j.recorded = job[w].recorded
    BY <1>1 DEF IsJob
  <2>2. CASE Keep(w, j) /\ Goto(w, "write")
    <3> HIDE DEF j
    <3>1. pc'[w] = "write" /\ job'[w] = j
      BY <1>1, <2>2 DEF Keep, Goto, Shape
    <3> QED BY <1>1, <1>2, <1>7, <2>1, <3>1 DEF SaveAddress, JobInv
  <2> QED BY <1>1, <1>7, <2>2, AnsweredJob DEF SaveAddress, Answer
<1>13. CASE DemoteDefault(w)
  <2> DEFINE j == [job[w] EXCEPT !.demoted = default.address]
  <2>1. j.body = job[w].body /\ j.closed = job[w].closed /\ j.cart = job[w].cart
        /\ j.recorded = job[w].recorded
    BY <1>1 DEF IsJob
  <2> HIDE DEF j
  <2>2. pc'[w] = "insert_address" /\ job'[w] = j
    BY <1>1, <1>13 DEF DemoteDefault, Keep, Goto, Shape, j
  <2> QED BY <1>1, <1>2, <1>13, <2>1, <2>2 DEF DemoteDefault, Serves, rows, JobInv
<1>8. CASE SavePaymentMethod(w)
  <2> DEFINE j == [job[w] EXCEPT !.method = saved + 1]
  <2>1. j.body = job[w].body /\ j.closed = job[w].closed /\ j.cart = job[w].cart
        /\ j.recorded = job[w].recorded
    BY <1>1 DEF IsJob
  <2>2. CASE Keep(w, j) /\ Goto(w, "write")
    <3> HIDE DEF j
    <3>1. pc'[w] = "write" /\ job'[w] = j
      BY <1>1, <2>2 DEF Keep, Goto, Shape
    <3> QED BY <1>1, <1>2, <1>8, <2>1, <3>1 DEF SavePaymentMethod, Serves, JobInv
  <2> QED BY <1>1, <1>8, <2>2, AnsweredJob DEF SavePaymentMethod, Answer
<1>9. CASE Mutate(w)
  BY <1>1, <1>9, AnsweredJob
     DEF Mutate, AddProduct, RemoveProduct, AddCoupon, RefuseCoupon, RemoveCoupon, SetAddress,
         SetPaymentMethod, SetBusinessDetails, Write, Answer
<1>10. CASE Checkout(w)
  BY <1>1, <1>10, AnsweredJob DEF Checkout, ReplayOrConflict, RefuseCheckout, PlaceOrder, Answer
<1>11. CASE StepFails(w)
  BY <1>1, <1>11, AnsweredJob DEF StepFails, Answer
<1>12. CASE Crash(w)
  <2>1. pc'[w] = "idle" /\ job'[w] = NoJob
    BY <1>1, <1>12 DEF Crash, Goto, Keep, Shape
  <2> QED BY <2>1 DEF JobInv, NoJob
<1> QED BY <1>3, <1>4, <1>5, <1>6, <1>7, <1>8, <1>9, <1>10, <1>11, <1>12, <1>13 DEF Acts, Find

-----------------------------------------------------------------------------
(***************************************************************************)
(* The theorems                                                            *)
(***************************************************************************)

LEMMA ActsInductive ==
  ASSUME IInv, NEW w \in Workers, Acts(w)
  PROVE  IInv'
<1>1. Shape'
  <2>1. Shape /\ Moves(w)
    BY ActsMove DEF IInv
  <2>2. begun' \in Nat /\ faults' \in Nat
    <3>1. CASE Begin(w)
      BY <2>1, <3>1, BegunJob DEF Begin, Shape
    <3>2. CASE StepFails(w) \/ Crash(w)
      BY <2>1, <3>2 DEF StepFails, Crash, Fault, Shape
    <3>3. CASE UNCHANGED <<begun, faults>>
      BY <2>1, <3>3 DEF Shape
    <3> QED BY <3>1, <3>2, <3>3 DEF Acts, Find, ReadProduct, ReplayFastPath, GetCart, InsertCart,
               GetCartAgain, DemoteDefault, SaveAddress, SavePaymentMethod, Mutate, AddProduct, RemoveProduct,
               AddCoupon, RefuseCoupon, RemoveCoupon, SetAddress, SetPaymentMethod,
               SetBusinessDetails, Write, Checkout, ReplayOrConflict, RefuseCheckout, PlaceOrder
  <2>3. carts' = [c \in Carts |-> carts'[c]] /\ orders' = [k \in Keys |-> orders'[k]]
    BY CartSteps, CartsProgress, OrdersStay
  <2> QED BY <2>1, <2>2, <2>3, MovesShape DEF Shape
<1>2. RowsInv' /\ OrdersInv'
  BY CartSteps, CartsProgress, OrdersInductive
<1>3. ASSUME NEW v \in Workers \ {w} PROVE JobInv(v)'
  <2>1. pc'[v] = pc[v] /\ job'[v] = job[v]
    BY ActsMove, MovesShape DEF IInv
  <2> QED BY <2>1, WaitingJob
<1> QED BY <1>1, <1>2, <1>3, OwnJob DEF IInv

LEMMA IdleInductive ==
  ASSUME IInv, UNCHANGED <<pc, job, reply, carts, orders, begun, faults>>
  PROVE  IInv'
<1>1. Shape'
  BY DEF IInv, Shape
<1>2. ActiveCarts' = ActiveCarts /\ Closed' = Closed
  BY DEF ActiveCarts, Closed
<1>3. RowsInv'
  BY <1>2 DEF IInv, RowsInv, InSync
<1>4. OrdersInv'
  BY DEF IInv, OrdersInv, InSync, MinimumMet
<1>5. ASSUME NEW w \in Workers PROVE JobInv(w)'
  <2>1. JobInv(w)
    BY DEF IInv
  <2> QED BY <1>2, <2>1 DEF JobInv
<1> QED BY <1>1, <1>3, <1>4, <1>5 DEF IInv

LEMMA IInvInductive == IInv /\ [Next]_vars => IInv'
  BY ActsInductive, IdleInductive DEF Next, Acts, PassTime, rows, vars

LEMMA IInvHolds == Spec => []IInv
  BY InitIInv, IInvInductive, PTL DEF Spec

(* However many requests insert a cart at the same time, the customer has  *)
(* one ACTIVE cart at most.                                                *)
THEOREM OneActiveCartAlways == Spec => []OneActiveCart
<1>1. IInv => OneActiveCart
  <2> SUFFICES ASSUME IInv PROVE Cardinality(ActiveCarts) <= 1
    BY DEF OneActiveCart
  <2>1. CASE ActiveCarts = {}
    BY <2>1, FS_EmptySet
  <2>2. CASE ActiveCarts # {}
    <3>1. PICK c \in ActiveCarts : TRUE
      BY <2>2
    <3>2. ActiveCarts = {c}
      BY <3>1 DEF IInv, RowsInv
    <3> QED BY <3>2, FS_Singleton
  <2> QED BY <2>1, <2>2
<1> QED BY <1>1, IInvHolds, PTL

(* The totals of every cart and order are those of its lines and coupons,  *)
(* and no order is below the minimum of a coupon it carries.               *)
THEOREM OrdersAlwaysAddUp == Spec => []OrdersAddUp
<1>1. IInv => OrdersAddUp
  BY DEF IInv, RowsInv, OrdersInv, OrdersAddUp
<1> QED BY <1>1, IInvHolds, PTL

(* Only a request that was under way when a cart was closed writes to it   *)
(* afterwards.                                                             *)
THEOREM LateEditsAreOverlaps == Spec => LateEditsOverlap
<1> DEFINE A == \A c \in Closed : carts'[c] # carts[c] =>
         \E w \in Workers :
           pc[w] = "write" /\ pc'[w] = "idle" /\ job[w].cart = c /\ c \notin job[w].closed
<1>1. IInv /\ [Next]_vars => [A]_vars
  <2> SUFFICES ASSUME IInv, [Next]_vars, NEW c \in Closed, carts'[c] # carts[c]
               PROVE  \E w \in Workers :
                        pc[w] = "write" /\ pc'[w] = "idle" /\ job[w].cart = c /\ c \notin job[w].closed
    BY DEF A
  <2>1. PICK w \in Workers : Acts(w)
    BY DEF Next, PassTime, rows, vars, Acts
  <2>2. /\ c \in Carts /\ carts[c].status = "CHECKED_OUT"
        /\ carts = [d \in Carts |-> carts[d]]
    BY DEF Closed, IInv, Shape
  <2>3. CASE Born(w)
    BY <2>2, <2>3 DEF Born
  <2>4. CASE Ordered(w)
    BY <2>2, <2>4 DEF Ordered, Becomes
  <2>5. CASE Edited(w)
    <3>1. job[w].cart = c
      BY <2>2, <2>5 DEF Edited, Becomes
    <3> QED BY <2>5, <3>1 DEF Edited, IInv, JobInv
  <2> QED BY <2>1, <2>3, <2>4, <2>5, CartSteps
<1>2. Spec => [][A]_vars
  BY <1>1, IInvHolds, PTL DEF Spec
<1> QED BY <1>2 DEF LateEditsOverlap

(* Once its order is committed, a repeated checkout gets the stored 202,   *)
(* whatever has become of the customer's cart.                             *)
THEOREM RetriesGetTheStoredAnswer == Spec => RetriesReplay
<1> DEFINE A == \A w \in Workers : job[w].recorded /\ reply'[w] # reply[w] /\ faults' = faults =>
         reply'[w] = [status |-> "202", cart |-> orders[job[w].body.arg].cart]
<1>1. IInv /\ [Next]_vars => [A]_vars
  <2> SUFFICES ASSUME IInv, [Next]_vars, NEW w \in Workers, job[w].recorded,
                      reply'[w] # reply[w], faults' = faults
               PROVE  reply'[w] = [status |-> "202", cart |-> orders[job[w].body.arg].cart]
    BY DEF A
  <2>1. PICK v \in Workers : Acts(v)
    BY DEF Next, PassTime, vars, Acts
  <2>2. v = w
    BY <2>1, ActsMove, MovesShape DEF IInv
  <2>3. pc[w] = "replay" /\ orders[job[w].body.arg] # None
    BY DEF IInv, JobInv
  <2>4. ~StepFails(w) /\ ~Crash(w)
    BY DEF StepFails, Crash, Fault, IInv, Shape
  <2>5. ReplayFastPath(w)
    BY <2>1, <2>2, <2>3, <2>4
       DEF Acts, Begin, Find, ReadProduct, GetCart, InsertCart, GetCartAgain, DemoteDefault,
           SaveAddress, SavePaymentMethod, Serves, Mutate, AddProduct, RemoveProduct, AddCoupon, RefuseCoupon,
           RemoveCoupon, SetAddress, SetPaymentMethod, SetBusinessDetails, Checkout,
           ReplayOrConflict, RefuseCheckout, PlaceOrder
  <2> QED BY <2>3, <2>5, AnsweredJob DEF ReplayFastPath, IInv
<1>2. Spec => [][A]_vars
  BY <1>1, IInvHolds, PTL DEF Spec
<1> QED BY <1>2 DEF RetriesReplay

(* The loser of two INSERTs is answered with an error only when the        *)
(* winner's cart was closed in the meantime.                               *)
THEOREM LoserIsAnswered == Spec => LoserFindsWinner
<1> DEFINE A == \A w \in Workers :
         pc[w] = "get_again" /\ reply'[w].status = "500" /\ reply'[w] # reply[w] /\ faults' = faults =>
           Closed # job[w].closed
<1>1. IInv /\ [Next]_vars => [A]_vars
  <2> SUFFICES ASSUME IInv, [Next]_vars, NEW w \in Workers, pc[w] = "get_again",
                      reply'[w].status = "500", reply'[w] # reply[w], faults' = faults
               PROVE  Closed # job[w].closed
    BY DEF A
  <2>1. PICK v \in Workers : Acts(v)
    BY DEF Next, PassTime, vars, Acts
  <2>2. v = w
    BY <2>1, ActsMove, MovesShape DEF IInv
  <2>3. ~StepFails(w) /\ ~Crash(w)
    BY DEF StepFails, Crash, Fault, IInv, Shape
  <2>4. GetCartAgain(w)
    BY <2>1, <2>2, <2>3
       DEF Acts, Begin, Find, ReadProduct, ReplayFastPath, GetCart, InsertCart, DemoteDefault,
           SaveAddress, SavePaymentMethod, Serves, Mutate, AddProduct, RemoveProduct, AddCoupon,
           RefuseCoupon, RemoveCoupon, SetAddress, SetPaymentMethod, SetBusinessDetails, Checkout,
           ReplayOrConflict, RefuseCheckout, PlaceOrder
  <2>5. ASSUME NEW status, NEW cart, AnswerWith(w, status, cart) PROVE status = "500"
    <3>1. Shape
      BY DEF IInv
    <3>2. reply'[w] = [status |-> status, cart |-> cart]
      BY <2>5, <3>1, AnsweredJob
    <3> QED BY <3>2
  <2>6. \A c, row : ~Resolve(w, c, row)
    <3> SUFFICES ASSUME NEW c, NEW row, Resolve(w, c, row) PROVE FALSE
      OBVIOUS
    <3>1. \/ Answer(w, "200")
          \/ Answer(w, "422")
          \/ UNCHANGED reply
      BY DEF Resolve
    <3> QED BY <2>5, <3>1 DEF Answer
  <2>7. ActiveCarts = {}
    BY <2>4, <2>6 DEF GetCartAgain
  <2> QED BY <2>7 DEF IInv, JobInv
<1>2. Spec => [][A]_vars
  BY <1>1, IInvHolds, PTL DEF Spec
<1> QED BY <1>2 DEF LoserFindsWinner
-----------------------------------------------------------------------------
(***************************************************************************)
(* The amounts                                                             *)
(***************************************************************************)

(* The rows under a cart: finitely many lines of products, none negative,  *)
(* and at most one discount of each type.                                  *)
IsLines(l) ==
  /\ IsFiniteSet(DOMAIN l) /\ DOMAIN l \subseteq Products
  /\ \A p \in DOMAIN l : l[p].quantity \in Nat /\ l[p].price \in Nat

IsDiscounts(d) ==
  /\ IsFiniteSet(DOMAIN d) /\ DOMAIN d \subseteq Coupons
  /\ \A c \in DOMAIN d : d[c] \in Nat
  /\ \A c, e \in DOMAIN d : CouponOf[c].type = CouponOf[e].type => c = e

ContentsInv ==
  \A c \in Carts : IsLines(carts[c].lines) /\ IsDiscounts(carts[c].coupons)

(* A product and its price are known from ReadProduct on.                  *)
PricedInv(w) ==
  /\ job[w].cart \in Carts \cup {None}
  /\ pc[w] \notin {"idle", "product"} /\ job[w].body.kind = "add_product" =>
       job[w].body.arg \in Products /\ job[w].price \in Nat

(* An order closes its cart, and no other order is of that cart.           *)
PlacedInv ==
  /\ \A k \in Keys : orders[k] # None =>
       /\ orders[k].cart \in Closed
       /\ IsLines(orders[k].lines) /\ IsDiscounts(orders[k].coupons)
  /\ \A k, l \in Keys :
       orders[k] # None /\ orders[l] # None /\ orders[k].cart = orders[l].cart => k = l

CountersInv ==
  saved \in Nat /\ now \in 0..MaxTime /\ begun \in 0..MaxRequests /\ faults \in 0..MaxFaults

AmountsInv == ContentsInv /\ (\A w \in Workers : PricedInv(w)) /\ PlacedInv /\ CountersInv

(* What a cart or an order in sync carries is not negative, and its total  *)
(* is no more than its subtotal.                                           *)
LEMMA AmountsOfRow ==
  ASSUME NEW x, InSync(x), IsLines(x.lines), IsDiscounts(x.coupons)
  PROVE  Amounts(x) \subseteq Nat /\ x.total \in 0..x.subtotal
<1> DEFINE sums == [p \in DOMAIN x.lines |-> x.lines[p].quantity * x.lines[p].price]
<1>1. x.subtotal \in Nat
  <2>1. IsFiniteSet(DOMAIN sums) /\ \A p \in DOMAIN sums : sums[p] \in Nat
    BY DEF IsLines
  <2>2. x.subtotal = SumFunction(sums)
    BY DEF InSync, Subtotal
  <2> HIDE DEF sums
  <2> QED BY <2>1, <2>2, SumFunctionNat
<1>2. x.discount \in Nat
  BY SumFunctionNat DEF InSync, IsDiscounts
<1>3. x.total \in 0..x.subtotal
  BY <1>1, <1>2, PayableBounds DEF InSync
<1> QED BY <1>1, <1>2, <1>3 DEF Amounts

LEMMA LineAdded ==
  ASSUME NEW l, IsLines(l), NEW p \in Products, NEW line,
         line.quantity \in Nat, line.price \in Nat
  PROVE  IsLines(Put(l, p, line))
<1>1. IsFiniteSet(DOMAIN l \cup {p})
  BY FS_AddElement DEF IsLines
<1> QED BY <1>1 DEF IsLines, Put

LEMMA LineRemoved ==
  ASSUME NEW l, IsLines(l), NEW p
  PROVE  IsLines(Without(l, p))
<1>1. IsFiniteSet(DOMAIN l \ {p})
  BY FS_Subset DEF IsLines
<1> QED BY <1>1 DEF IsLines, Without, Restrict

(* A discount takes a natural number of cents, whatever the cart.          *)
LEMMA DiscountIsNat ==
  ASSUME NEW x, InSync(x), IsLines(x.lines), IsDiscounts(x.coupons), NEW c \in Coupons
  PROVE  Discount(CouponOf[c], x) \in Nat
<1> DEFINE worth == CouponOf[c].value
           already == SumFunction(x.coupons)
<1>1. x.subtotal \in Nat /\ already \in Nat
  BY AmountsOfRow DEF Amounts, InSync
<1>2. worth \in Nat \ {0} /\ (CouponOf[c].type = "PERCENTAGE" => worth <= 10000)
  BY CouponAssumption
<1> HIDE DEF worth, already
<1>3. FixedDiscount(x.subtotal, worth, already) \in Nat
  BY <1>1, <1>2 DEF FixedDiscount
<1>4. ASSUME CouponOf[c].type = "PERCENTAGE"
      PROVE  PercentageDiscount(x.subtotal, worth) \in Nat
  BY <1>1, <1>2, <1>4, PercentageBounds
<1> QED BY <1>3, <1>4 DEF Discount, worth, already

LEMMA CouponAdded ==
  ASSUME NEW d, IsDiscounts(d), NEW c \in Coupons, NEW amount \in Nat,
         \A e \in DOMAIN d : CouponOf[e].type # CouponOf[c].type
  PROVE  IsDiscounts(Put(d, c, amount))
<1>1. IsFiniteSet(DOMAIN d \cup {c})
  BY FS_AddElement DEF IsDiscounts
<1> QED BY <1>1 DEF IsDiscounts, Put

LEMMA CouponRemoved ==
  ASSUME NEW d, IsDiscounts(d), NEW c
  PROVE  IsDiscounts(Without(d, c))
<1>1. IsFiniteSet(DOMAIN d \ {c})
  BY FS_Subset DEF IsDiscounts
<1> QED BY <1>1 DEF IsDiscounts, Without, Restrict

LEMMA InitAmounts == Init => AmountsInv
<1> SUFFICES ASSUME Init PROVE AmountsInv
  OBVIOUS
<1>1. IsLines(NoLines) /\ IsDiscounts(NoCoupons)
  BY FS_EmptySet DEF IsLines, IsDiscounts, NoLines, NoCoupons
<1>2. Unborn.lines = NoLines /\ Unborn.coupons = NoCoupons
  BY DEF Unborn
<1>3. IsLines(Prepared.lines) /\ IsDiscounts(Prepared.coupons)
  <2> DEFINE basket == [p \in Basket |-> [quantity |-> 1, price |-> PriceAt[0][p]]]
  <2>1. \A p \in Basket : PriceAt[0][p] \in Nat
    BY ActiveCartAssumption, BoundAssumption
  <2>2. IsLines(basket)
    BY <2>1, ActiveCartAssumption, QuantityAssumption DEF IsLines
  <2> QED BY <1>1, <2>2, PreparedRow
<1>4. ContentsInv
  BY <1>1, <1>2, <1>3 DEF Init, ContentsInv
<1>5. ASSUME NEW w \in Workers PROVE PricedInv(w)
  BY <1>5 DEF Init, PricedInv, NoJob
<1>6. PlacedInv
  BY DEF Init, PlacedInv
<1>7. CountersInv
  <2>1. Len(Openings) \in Nat
    BY ActiveCartAssumption
  <2> QED BY <2>1, BoundAssumption DEF Init, CountersInv
<1> QED BY <1>4, <1>5, <1>6, <1>7 DEF AmountsInv

-----------------------------------------------------------------------------
(* What a mutation writes: the rows under the cart are still such rows.    *)
LEMMA WrittenContents ==
  ASSUME IInv, ContentsInv, NEW w \in Workers, pc[w] = "write",
         NEW x, Write(w, x), IsLines(x.lines), IsDiscounts(x.coupons)
  PROVE  ContentsInv'
<1>1. /\ carts = [c \in Carts |-> carts[c]]
      /\ carts' = [carts EXCEPT ![job[w].cart] = x]
  BY DEF IInv, Shape, Write
<1>2. \A c \in Carts : carts'[c] = x \/ carts'[c] = carts[c]
  BY <1>1
<1> QED BY <1>2 DEF ContentsInv

LEMMA RowContents ==
  ASSUME IInv, ContentsInv, NEW w \in Workers, pc[w] \in {"write", "checkout"}
  PROVE  /\ IsRow(Row(w)) /\ InSync(Row(w))
         /\ IsLines(Row(w).lines) /\ IsDiscounts(Row(w).coupons)
  BY DEF IInv, JobInv, RowsInv, ContentsInv, Row

LEMMA EditedContents ==
  ASSUME NEW x, IsRow(x), NEW y
  PROVE  /\ Recalculated([x EXCEPT !.lines = y]).lines = y
         /\ Recalculated([x EXCEPT !.lines = y]).coupons = x.coupons
         /\ Recalculated([x EXCEPT !.coupons = y]).lines = x.lines
         /\ Recalculated([x EXCEPT !.coupons = y]).coupons = y
<1>1. /\ IsRow([x EXCEPT !.lines = y])
      /\ [x EXCEPT !.lines = y].lines = y /\ [x EXCEPT !.lines = y].coupons = x.coupons
      /\ IsRow([x EXCEPT !.coupons = y])
      /\ [x EXCEPT !.coupons = y].lines = x.lines /\ [x EXCEPT !.coupons = y].coupons = y
  BY DEF IsRow
<1> QED BY <1>1, RecalculatedRow

LEMMA DetailedContents ==
  ASSUME NEW x, IsRow(x), NEW y, NEW z,
         \/ z = [x EXCEPT !.address = y]
         \/ z = [x EXCEPT !.method = y]
         \/ z = [x EXCEPT !.details = y]
  PROVE  z.lines = x.lines /\ z.coupons = x.coupons
  BY DEF IsRow

(* add-product writes a line of a known product, with a quantity of at     *)
(* least one more and the price of the first unit or of this moment.       *)
LEMMA AddProductContents ==
  ASSUME IInv, ContentsInv, NEW w \in Workers, PricedInv(w), AddProduct(w)
  PROVE  ContentsInv'
<1> DEFINE b == job[w].body
           lines == Row(w).lines
           line == IF b.arg \in DOMAIN lines
                     THEN [lines[b.arg] EXCEPT !.quantity = @ + b.quantity]
                     ELSE [quantity |-> b.quantity, price |-> job[w].price]
           x == Recalculated([Row(w) EXCEPT !.lines = Put(lines, b.arg, line)])
<1>1. pc[w] = "write" /\ b.kind = "add_product" /\ Write(w, x)
  BY DEF AddProduct, Serves
<1>2. b.arg \in Products /\ job[w].price \in Nat
  BY <1>1 DEF PricedInv
<1>3. b.quantity \in Nat
  BY <1>1, QuantityAssumption DEF IInv, JobInv
<1>4. IsRow(Row(w)) /\ IsLines(lines) /\ IsDiscounts(Row(w).coupons)
  BY <1>1, RowContents
<1>5. line.quantity \in Nat /\ line.price \in Nat
  <2>1. CASE b.arg \in DOMAIN lines
    BY <1>3, <1>4, <2>1 DEF IsLines
  <2>2. CASE b.arg \notin DOMAIN lines
    BY <1>2, <1>3, <2>2
  <2> QED BY <2>1, <2>2
<1> HIDE DEF line, lines, b
<1>6. IsLines(Put(lines, b.arg, line))
  BY <1>2, <1>4, <1>5, LineAdded
<1>7. IsLines(x.lines) /\ IsDiscounts(x.coupons)
  BY <1>4, <1>6, EditedContents
<1> HIDE DEF x
<1> QED BY <1>1, <1>7, WrittenContents

(* add-coupon writes the discount of a coupon whose type is not there yet. *)
LEMMA AddCouponContents ==
  ASSUME IInv, ContentsInv, NEW w \in Workers, AddCoupon(w)
  PROVE  ContentsInv'
<1> DEFINE c == job[w].body.arg
           cart == Row(w)
           d == Put(cart.coupons, c, Discount(CouponOf[c], cart))
           x == Recalculated([cart EXCEPT !.coupons = d])
<1>1. pc[w] = "write" /\ Stacks(c, cart) /\ Write(w, x)
  BY DEF AddCoupon, Serves
<1>2. c \in Coupons
  BY <1>1, ActiveCartAssumption DEF AddCoupon, Serves, IInv, JobInv
<1>3. IsRow(cart) /\ InSync(cart) /\ IsLines(cart.lines) /\ IsDiscounts(cart.coupons)
  BY <1>1, RowContents
<1> HIDE DEF cart, c
<1>4. Discount(CouponOf[c], cart) \in Nat
  BY <1>2, <1>3, DiscountIsNat
<1>5. IsDiscounts(d)
  BY <1>1, <1>2, <1>3, <1>4, CouponAdded DEF Stacks
<1> HIDE DEF d
<1>6. IsLines(x.lines) /\ IsDiscounts(x.coupons)
  BY <1>3, <1>5, EditedContents
<1> HIDE DEF x
<1> QED BY <1>1, <1>6, WrittenContents

LEMMA MutateContents ==
  ASSUME IInv, ContentsInv, NEW w \in Workers, PricedInv(w), Mutate(w)
  PROVE  ContentsInv'
<1>1. CASE RefuseCoupon(w)
  BY <1>1 DEF RefuseCoupon, rows, ContentsInv
<1>2. CASE RemoveProduct(w)
  <2> DEFINE rest == Without(Row(w).lines, job[w].body.arg)
             x == Recalculated([Row(w) EXCEPT !.lines = rest])
  <2>1. pc[w] = "write" /\ Write(w, x)
    BY <1>2 DEF RemoveProduct, Serves
  <2>2. IsRow(Row(w)) /\ IsLines(Row(w).lines) /\ IsDiscounts(Row(w).coupons)
    BY <2>1, RowContents
  <2>3. IsLines(rest)
    BY <2>2, LineRemoved
  <2> HIDE DEF rest
  <2>4. IsLines(x.lines) /\ IsDiscounts(x.coupons)
    BY <2>2, <2>3, EditedContents
  <2> HIDE DEF x
  <2> QED BY <2>1, <2>4, WrittenContents
<1>3. CASE RemoveCoupon(w)
  <2> DEFINE rest == Without(Row(w).coupons, job[w].body.arg)
             x == Recalculated([Row(w) EXCEPT !.coupons = rest])
  <2>1. pc[w] = "write" /\ Write(w, x)
    BY <1>3 DEF RemoveCoupon, Serves
  <2>2. IsRow(Row(w)) /\ IsLines(Row(w).lines) /\ IsDiscounts(Row(w).coupons)
    BY <2>1, RowContents
  <2>3. IsDiscounts(rest)
    BY <2>2, CouponRemoved
  <2> HIDE DEF rest
  <2>4. IsLines(x.lines) /\ IsDiscounts(x.coupons)
    BY <2>2, <2>3, EditedContents
  <2> HIDE DEF x
  <2> QED BY <2>1, <2>4, WrittenContents
<1>4. CASE SetAddress(w) \/ SetPaymentMethod(w) \/ SetBusinessDetails(w)
  <2>1. PICK x, y :
          /\ pc[w] = "write" /\ Write(w, x)
          /\ \/ x = [Row(w) EXCEPT !.address = y]
             \/ x = [Row(w) EXCEPT !.method = y]
             \/ x = [Row(w) EXCEPT !.details = y]
    BY <1>4 DEF SetAddress, SetPaymentMethod, SetBusinessDetails, Serves
  <2>2. IsLines(x.lines) /\ IsDiscounts(x.coupons)
    BY <2>1, RowContents, DetailedContents
  <2> QED BY <2>1, <2>2, WrittenContents
<1> QED BY <1>1, <1>2, <1>3, <1>4, AddProductContents, AddCouponContents DEF Mutate

(* A checkout takes the rows under the cart as they are.                   *)
LEMMA OrderContents ==
  ASSUME IInv, ContentsInv, NEW w \in Workers, PlaceOrder(w)
  PROVE  /\ ContentsInv'
         /\ \E o : /\ orders' = [orders EXCEPT ![job[w].body.arg] = o]
                   /\ o.cart = job[w].cart
                   /\ IsLines(o.lines) /\ IsDiscounts(o.coupons)
<1> DEFINE r == Recalculated(Row(w))
           o == OrderOf(w, r)
           x == [r EXCEPT !.status = "CHECKED_OUT"]
<1>1. pc[w] = "checkout"
  BY DEF PlaceOrder
<1>2. IsRow(r) /\ IsLines(r.lines) /\ IsDiscounts(r.coupons)
  BY <1>1, RowContents, RecalculatedRow
<1>3. /\ orders' = [orders EXCEPT ![job[w].body.arg] = o]
      /\ carts' = [carts EXCEPT ![job[w].cart] = x]
  BY DEF PlaceOrder
<1> HIDE DEF r
<1>4. x.lines = r.lines /\ x.coupons = r.coupons
  BY <1>2 DEF IsRow
<1>5. o.cart = job[w].cart /\ o.lines = r.lines /\ o.coupons = r.coupons
  BY DEF OrderOf
<1> HIDE DEF o, x
<1>6. \A c \in Carts : carts'[c] = x \/ carts'[c] = carts[c]
  BY <1>3 DEF IInv, Shape
<1> QED BY <1>2, <1>3, <1>4, <1>5, <1>6 DEF ContentsInv

LEMMA ContentsInductive ==
  ASSUME IInv, ContentsInv, NEW w \in Workers, PricedInv(w), Acts(w)
  PROVE  ContentsInv'
<1>1. CASE InsertCart(w) /\ carts' # carts
  <2>1. PICK c \in Carts : carts' = [carts EXCEPT ![c] = Fresh]
    BY <1>1 DEF InsertCart, Insert
  <2>2. \A d \in Carts : carts'[d] = Fresh \/ carts'[d] = carts[d]
    BY <2>1 DEF IInv, Shape
  <2>3. IsLines(Fresh.lines) /\ IsDiscounts(Fresh.coupons)
    BY FS_EmptySet DEF IsLines, IsDiscounts, Fresh, Unborn, NoLines, NoCoupons
  <2> QED BY <2>2, <2>3 DEF ContentsInv
<1>2. CASE UNCHANGED carts
  BY <1>2 DEF ContentsInv
<1> QED BY <1>1, <1>2, MutateContents, OrderContents
       DEF Acts, Begin, Find, ReadProduct, ReplayFastPath, GetCart, GetCartAgain,
           DemoteDefault, SaveAddress, SavePaymentMethod, Checkout, ReplayOrConflict, RefuseCheckout,
           StepFails, Crash, rows

-----------------------------------------------------------------------------
LEMMA AnsweredPriced ==
  ASSUME Shape, NEW w \in Workers, NEW status, NEW cart, AnswerWith(w, status, cart)
  PROVE  PricedInv(w)'
<1>1. pc'[w] = "idle" /\ job'[w] = NoJob
  BY DEF AnswerWith, Goto, Keep, Shape
<1> QED BY <1>1 DEF PricedInv, NoJob

(* A request that knows its product keeps it, and its price.               *)
LEMMA KeptPriced ==
  ASSUME NEW w \in Workers, PricedInv(w), pc[w] \notin {"idle", "product"},
         job'[w].body = job[w].body, job'[w].price = job[w].price,
         job'[w].cart \in Carts \cup {None}
  PROVE  PricedInv(w)'
  BY DEF PricedInv

LEMMA ResolvedPriced ==
  ASSUME Shape, NEW w \in Workers, PricedInv(w), pc[w] \notin {"idle", "product"},
         NEW c \in Carts, NEW row, Resolve(w, c, row)
  PROVE  PricedInv(w)'
<1> DEFINE j == [job[w] EXCEPT !.cart = c, !.address = row.address, !.method = row.method]
<1>1. CASE \E status : Answer(w, status)
  BY <1>1, AnsweredPriced DEF Answer
<1>2. CASE Keep(w, j)
  <2>1. j.body = job[w].body /\ j.price = job[w].price /\ j.cart = c
    BY DEF Shape, IsJob
  <2> HIDE DEF j
  <2>2. job'[w] = j
    BY <1>2 DEF Keep, Shape
  <2> QED BY <2>1, <2>2, KeptPriced
<1> QED BY <1>1, <1>2 DEF Resolve

LEMMA FoundPriced ==
  ASSUME IInv, NEW w \in Workers, PricedInv(w), now \in 0..MaxTime, Find(w)
  PROVE  PricedInv(w)'
<1>1. Shape /\ IsJob(job[w])
  BY DEF IInv, Shape
<1>2. CASE ReadProduct(w)
  <2> DEFINE p == job[w].body.arg
             j == [job[w] EXCEPT !.price = PriceAt[now][p]]
  <2>1. CASE p \in Products /\ Keep(w, j)
    <3>1. j.body = job[w].body /\ j.price = PriceAt[now][p] /\ j.cart = job[w].cart
      BY <1>1 DEF IsJob
    <3>2. PriceAt[now][p] \in Nat
      BY <2>1, ActiveCartAssumption
    <3> HIDE DEF j
    <3>3. job'[w] = j
      BY <1>1, <2>1 DEF Keep, Shape
    <3> QED BY <2>1, <3>1, <3>2, <3>3 DEF PricedInv
  <2> QED BY <1>1, <1>2, <2>1, AnsweredPriced DEF ReadProduct, Answer
<1>3. CASE UNCHANGED job /\ pc[w] \notin {"idle", "product"}
  BY <1>3, KeptPriced DEF PricedInv
<1>4. CASE ReplayFastPath(w)
  BY <1>1, <1>3, <1>4, AnsweredPriced DEF ReplayFastPath
<1>5. CASE GetCart(w) \/ InsertCart(w) \/ GetCartAgain(w)
  BY <1>1, <1>3, <1>5, AnsweredPriced, ResolvedPriced
     DEF GetCart, InsertCart, Insert, GetCartAgain, ActiveCarts, Answer
<1>6. CASE DemoteDefault(w) \/ SaveAddress(w) \/ SavePaymentMethod(w)
  <2>1. ASSUME NEW j, Keep(w, j), j.body = job[w].body, j.price = job[w].price,
               j.cart = job[w].cart
        PROVE  PricedInv(w)'
    <3>1. job'[w] = j
      BY <1>1, <2>1 DEF Keep, Shape
    <3> QED BY <1>6, <2>1, <3>1, KeptPriced
         DEF DemoteDefault, SaveAddress, SavePaymentMethod, Serves, PricedInv
  <2>2. \A y : LET j == [job[w] EXCEPT !.address = y] IN
          j.body = job[w].body /\ j.price = job[w].price /\ j.cart = job[w].cart
    BY <1>1 DEF IsJob
  <2>3. \A y : LET j == [job[w] EXCEPT !.method = y] IN
          j.body = job[w].body /\ j.price = job[w].price /\ j.cart = job[w].cart
    BY <1>1 DEF IsJob
  <2>4. \A y : LET j == [job[w] EXCEPT !.demoted = y] IN
          j.body = job[w].body /\ j.price = job[w].price /\ j.cart = job[w].cart
    BY <1>1 DEF IsJob
  <2> QED BY <1>1, <1>6, <2>1, <2>2, <2>3, <2>4, AnsweredPriced
         DEF DemoteDefault, SaveAddress, SavePaymentMethod, rows, Answer
<1> QED BY <1>2, <1>4, <1>5, <1>6 DEF Find

LEMMA BegunPriced ==
  ASSUME Shape, NEW w \in Workers, Begin(w)
  PROVE  PricedInv(w)'
<1> DEFINE Sent(b) == [NoJob EXCEPT !.body = b, !.closed = Closed,
                         !.recorded = b.kind = "checkout" /\ orders[b.arg] # None]
<1>1. PICK b \in Sendable :
        /\ Keep(w, Sent(b))
        /\ Goto(w, CASE b.kind = "add_product" -> "product"
                     [] b.kind = "checkout" -> "replay"
                     [] OTHER -> "get")
  BY DEF Begin
<1>2. Sent(b).body = b /\ Sent(b).cart = None
  BY DEF NoJob
<1> HIDE DEF Sent
<1>3. job'[w] = Sent(b)
  BY <1>1 DEF Keep, Shape
<1>4. b.kind = "add_product" => pc'[w] = "product"
  BY <1>1 DEF Goto, Shape
<1> QED BY <1>2, <1>3, <1>4 DEF PricedInv

LEMMA PricedInductive ==
  ASSUME IInv, NEW w \in Workers, PricedInv(w), now \in 0..MaxTime, Acts(w)
  PROVE  PricedInv(w)'
<1>1. Shape
  BY DEF IInv
<1>2. CASE Mutate(w)
  BY <1>1, <1>2, AnsweredPriced
     DEF Mutate, AddProduct, RemoveProduct, AddCoupon, RefuseCoupon, RemoveCoupon, SetAddress,
         SetPaymentMethod, SetBusinessDetails, Write, Answer
<1>3. CASE Checkout(w) \/ StepFails(w)
  BY <1>1, <1>3, AnsweredPriced
     DEF Checkout, ReplayOrConflict, RefuseCheckout, PlaceOrder, StepFails, Answer
<1>4. CASE Crash(w)
  <2>1. pc'[w] = "idle" /\ job'[w] = NoJob
    BY <1>1, <1>4 DEF Crash, Goto, Keep, Shape
  <2> QED BY <2>1 DEF PricedInv, NoJob
<1> QED BY <1>1, <1>2, <1>3, <1>4, FoundPriced, BegunPriced DEF Acts

(* The cart of an order is closed as the order is recorded, and was open   *)
(* until then: no other order can be of that cart.                         *)
LEMMA PlacedInductive ==
  ASSUME IInv, ContentsInv, PlacedInv, NEW w \in Workers, Acts(w)
  PROVE  PlacedInv'
<1>1. Closed \subseteq Closed' /\ orders = [k \in Keys |-> orders[k]]
  BY CartSteps, CartsProgress DEF IInv, Shape
<1>2. CASE UNCHANGED orders
  BY <1>1, <1>2 DEF PlacedInv
<1>3. CASE PlaceOrder(w) /\ job[w].body.arg \in Keys
  <2> DEFINE key == job[w].body.arg
             c == job[w].cart
  <2>1. PICK o : /\ orders' = [orders EXCEPT ![key] = o]
                 /\ o.cart = c
                 /\ IsLines(o.lines) /\ IsDiscounts(o.coupons)
    BY <1>3, OrderContents
  <2>2. c \in Carts /\ c \notin Closed
    BY <1>3 DEF PlaceOrder, IInv, JobInv, Row, Closed
  <2>3. c \in Closed'
    <3>1. Ordered(w) /\ carts = [d \in Carts |-> carts[d]]
      BY <1>3, OrderCloses DEF IInv, Shape
    <3> QED BY <2>2, <3>1 DEF Ordered, Becomes, Closed
  <2> HIDE DEF key, c
  <2>4. \A k \in Keys : orders'[k] = IF k = key THEN o ELSE orders[k]
    BY <1>1, <2>1
  <2>5. ASSUME NEW k \in Keys, orders'[k] # None
        PROVE  /\ orders'[k].cart \in Closed'
               /\ IsLines(orders'[k].lines) /\ IsDiscounts(orders'[k].coupons)
    BY <1>1, <2>1, <2>3, <2>4, <2>5 DEF PlacedInv
  <2>6. ASSUME NEW k \in Keys, NEW l \in Keys, orders'[k] # None, orders'[l] # None,
               orders'[k].cart = orders'[l].cart
        PROVE  k = l
    BY <2>1, <2>2, <2>4, <2>6 DEF PlacedInv
  <2> QED BY <2>5, <2>6 DEF PlacedInv, IsLines, IsDiscounts
<1> QED BY <1>2, <1>3, OrderSteps

LEMMA CountersInductive ==
  ASSUME CountersInv, NEW w \in Workers, Acts(w)
  PROVE  CountersInv'
<1> USE BoundAssumption
<1>1. CASE Begin(w)
  <2>1. UNCHANGED <<saved, now, faults>>
    BY <1>1 DEF Begin, rows
  <2>2. begun' = begun \/ (begun < MaxRequests /\ begun' = begun + 1)
    BY <1>1 DEF Begin
  <2> QED BY <2>1, <2>2 DEF CountersInv
<1>2. CASE StepFails(w) \/ Crash(w)
  BY <1>2 DEF StepFails, Crash, Fault, rows, CountersInv
<1>3. CASE DemoteDefault(w) \/ SaveAddress(w) \/ SavePaymentMethod(w)
  BY <1>3 DEF DemoteDefault, SaveAddress, SavePaymentMethod, rows, CountersInv
<1>4. CASE UNCHANGED <<saved, now, begun, faults>>
  BY <1>4 DEF CountersInv
<1> QED BY <1>1, <1>2, <1>3, <1>4
       DEF Acts, Find, ReadProduct, ReplayFastPath, GetCart, InsertCart, GetCartAgain,
           Mutate, AddProduct, RemoveProduct, AddCoupon, RefuseCoupon, RemoveCoupon, SetAddress,
           SetPaymentMethod, SetBusinessDetails, Write, Checkout, ReplayOrConflict,
           RefuseCheckout, PlaceOrder, rows

LEMMA AmountsInductive == IInv /\ AmountsInv /\ [Next]_vars => AmountsInv'
<1> SUFFICES ASSUME IInv, AmountsInv, [Next]_vars PROVE AmountsInv'
  OBVIOUS
<1>1. ASSUME NEW w \in Workers, Acts(w) PROVE AmountsInv'
  <2>1. ContentsInv' /\ PlacedInv' /\ CountersInv'
    BY <1>1, ContentsInductive, PlacedInductive, CountersInductive DEF AmountsInv
  <2>2. PricedInv(w)'
    BY <1>1, PricedInductive DEF AmountsInv, CountersInv
  <2>3. ASSUME NEW v \in Workers \ {w} PROVE PricedInv(v)'
    <3>1. pc'[v] = pc[v] /\ job'[v] = job[v]
      BY <1>1, ActsMove, MovesShape DEF IInv
    <3> QED BY <3>1 DEF AmountsInv, PricedInv
  <2> QED BY <2>1, <2>2, <2>3 DEF AmountsInv
<1>2. CASE UNCHANGED <<pc, job, carts, orders, saved, begun, faults>> /\ now' \in 0..MaxTime
  BY <1>2 DEF AmountsInv, ContentsInv, PricedInv, PlacedInv, CountersInv, Closed, IsLines, IsDiscounts
<1>3. CASE PassTime
  BY <1>2, <1>3, BoundAssumption DEF PassTime, rows, AmountsInv, CountersInv
<1>4. CASE UNCHANGED vars
  BY <1>2, <1>4 DEF vars, AmountsInv, CountersInv
<1> QED BY <1>1, <1>3, <1>4 DEF Next, Acts

LEMMA AmountsInvHolds == Spec => []AmountsInv
  BY InitAmounts, AmountsInductive, IInvHolds, PTL DEF Spec

(* Type correctness; in particular no amount of a cart or an order is ever *)
(* negative, whatever is added, removed or priced anew.                    *)
THEOREM TypeCorrect == Spec => []TypeOK
<1>1. OneActiveCart /\ IInv /\ AmountsInv => TypeOK
  <2> SUFFICES ASSUME OneActiveCart, IInv, AmountsInv PROVE TypeOK
    OBVIOUS
  <2>1. ASSUME NEW w \in Workers
        PROVE  /\ job[w].cart \in Carts \cup {None}
               /\ pc[w] \in {"save", "insert_address", "write", "checkout"} => job[w].cart \in Carts
               /\ pc[w] # "idle" => job[w].body \in Bodies
    BY DEF IInv, JobInv, AmountsInv, PricedInv
  <2>2. ASSUME NEW c \in Carts
        PROVE  /\ carts[c].status \in {"unborn", "ACTIVE", "CHECKED_OUT"}
               /\ DOMAIN carts[c].lines \subseteq Products
               /\ DOMAIN carts[c].coupons \subseteq Coupons
               /\ Amounts(carts[c]) \subseteq Nat
    <3>1. IsLines(carts[c].lines) /\ IsDiscounts(carts[c].coupons)
      BY DEF AmountsInv, ContentsInv
    <3> QED BY <3>1, AmountsOfRow DEF IInv, RowsInv, IsLines, IsDiscounts
  <2>3. ASSUME NEW k \in Keys, orders[k] # None
        PROVE  orders[k].cart \in Carts /\ Amounts(orders[k]) \subseteq Nat
    BY <2>3, AmountsOfRow DEF IInv, OrdersInv, AmountsInv, PlacedInv, Closed
  <2> QED BY <2>1, <2>2, <2>3 DEF TypeOK, IInv, Shape, Phases, AmountsInv, CountersInv
<1> QED BY <1>1, OneActiveCartAlways, IInvHolds, AmountsInvHolds, PTL

(* Nobody is charged more than the subtotal or less than nothing.          *)
THEOREM OrderTotalBounded ==
  Spec => [](\A k \in Keys : orders[k] # None => orders[k].total \in 0..orders[k].subtotal)
<1>1. IInv /\ AmountsInv =>
        \A k \in Keys : orders[k] # None => orders[k].total \in 0..orders[k].subtotal
  BY AmountsOfRow DEF IInv, OrdersInv, AmountsInv, PlacedInv
<1> QED BY <1>1, IInvHolds, AmountsInvHolds, PTL

(* Whatever keys the customer uses, a cart is turned into one order, and   *)
(* from then on it is closed.                                              *)
THEOREM OneOrderPerClosedCart ==
  Spec => [](/\ \A k \in Keys : orders[k] # None => orders[k].cart \in Closed
             /\ \A k, l \in Keys :
                  orders[k] # None /\ orders[l] # None /\ orders[k].cart = orders[l].cart => k = l)
<1>1. AmountsInv => /\ \A k \in Keys : orders[k] # None => orders[k].cart \in Closed
                    /\ \A k, l \in Keys :
                         orders[k] # None /\ orders[l] # None /\ orders[k].cart = orders[l].cart =>
                           k = l
  BY DEF AmountsInv, PlacedInv
<1> QED BY <1>1, AmountsInvHolds, PTL

OneOfAType(coupons) ==
  \A c, d \in DOMAIN coupons : CouponOf[c].type = CouponOf[d].type => c = d

(* The stacking rule: a cart and an order carry one coupon of a type at    *)
(* most.                                                                   *)
THEOREM CouponsStack ==
  Spec => [](/\ \A c \in Carts : OneOfAType(carts[c].coupons)
             /\ \A k \in Keys : orders[k] # None => OneOfAType(orders[k].coupons))
<1>1. AmountsInv => /\ \A c \in Carts : OneOfAType(carts[c].coupons)
                    /\ \A k \in Keys : orders[k] # None => OneOfAType(orders[k].coupons)
  BY DEF AmountsInv, ContentsInv, PlacedInv, IsDiscounts, OneOfAType
<1> QED BY <1>1, AmountsInvHolds, PTL

(* An order is final: nothing a customer does afterwards changes it.       *)
THEOREM OrdersAreFinal ==
  Spec => [][\A k \in Keys : orders[k] # None => orders'[k] = orders[k]]_vars
<1>1. IInv /\ [Next]_vars => [\A k \in Keys : orders[k] # None => orders'[k] = orders[k]]_vars
  BY OrdersStay DEF Next, Acts, PassTime, rows, vars
<1> QED BY <1>1, IInvHolds, PTL DEF Spec
=============================================================================
