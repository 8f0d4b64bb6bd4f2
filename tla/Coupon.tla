------------------------------- MODULE Coupon -------------------------------
(***************************************************************************)
(* Coupons on carts: apply, remove and the revalidation inside a checkout  *)
(* (apps/coupon/services.py), as transactions of several web workers over  *)
(* the coupon and cart rows of one tenant.  A worker serves one request at *)
(* a time, any number of them.  The cart of an apply or a remove is        *)
(* resolved as the user's ACTIVE cart before the transaction begins        *)
(* (apps/cart/views.py), so it may be checked out by the time its row is   *)
(* locked; a checkout may name any cart.                                   *)
(***************************************************************************)
EXTENDS Integers, FiniteSets

CONSTANTS
  Workers,
  Carts,
  Coupons,
  LimitOf,    \* coupon -> usage_limit, or None
  TypeOf,     \* coupon -> discount type
  Policy,     \* the stacking policy in force
  Offers,     \* bound: cart -> the coupons its customer has the codes of
  None

Policies == {"unlimited", "single_only", "one_per_discount_type"}

ASSUME NoneAssumption == None \notin Workers /\ None \notin Nat

ASSUME CouponAssumption ==
  /\ Carts \cap Coupons = {}
  /\ LimitOf \in [Coupons -> Nat \cup {None}]
  /\ Policy \in Policies
  /\ Offers \in [Carts -> SUBSET Coupons]

VARIABLES
  pc,          \* the statement each worker executes next
  job,         \* what it was asked to do
  todo,        \* coupon rows its revalidation has yet to lock
  rowOwner,    \* the worker whose open transaction locks the row, or None
  cartStatus,
  active,      \* coupons with is_active
  used,        \* Coupon.used_count
  applied,     \* CartCoupon rows: pairs of a cart and a coupon
  redeemed     \* coupons whose discount an order carries, with its cart

vars == <<pc, job, todo, rowOwner, cartStatus, active, used, applied, redeemed>>
data == <<cartStatus, active, used, applied, redeemed>>

Rows == Carts \cup Coupons
Phases == {"idle", "lock_coupon", "lock_cart", "check", "insert", "count", "find",
           "decrement", "lock_coupons", "revalidate", "commit"}

NoJob == [kind |-> "none", cart |-> None, coupon |-> None]
Jobs == [kind : {"apply", "remove"}, cart : Carts, coupon : Coupons]
          \cup [kind : {"checkout"}, cart : Carts, coupon : {None}]
          \cup {NoJob}

AppliedTo(cart) == {c \in Coupons : <<cart, c>> \in applied}
Uses(c) == Cardinality({k \in Carts : <<k, c>> \in applied})

(* Mutation: one use too many. *)
LimitReachedLate(c) == LimitOf[c] # None /\ used[c] > LimitOf[c]

(* The validator's usage rule, and the WHERE of the conditional increment. *)
LimitReached(c) == LimitOf[c] # None /\ used[c] >= LimitOf[c]

(* _enforce_stacking_policy *)
Clash(c, d) ==
  \/ Policy = "single_only"
  \/ Policy = "one_per_discount_type" /\ TypeOf[c] = TypeOf[d]

Init ==
  /\ pc = [w \in Workers |-> "idle"]
  /\ job = [w \in Workers |-> NoJob]
  /\ todo = [w \in Workers |-> {}]
  /\ rowOwner = [x \in Rows |-> None]
  /\ cartStatus = [k \in Carts |-> "ACTIVE"]
  /\ active = Coupons
  /\ used = [c \in Coupons |-> 0]
  /\ applied = {}
  /\ redeemed = {}

-----------------------------------------------------------------------------
Goto(w, phase) == pc' = [pc EXCEPT ![w] = phase]

Free(row) == rowOwner[row] = None

(* COMMIT or ROLLBACK: the row locks go, the worker is free again. *)
EndTransaction(w) ==
  /\ Goto(w, "idle")
  /\ job' = [job EXCEPT ![w] = NoJob]
  /\ todo' = [todo EXCEPT ![w] = {}]
  /\ rowOwner' = [x \in Rows |-> IF rowOwner[x] = w THEN None ELSE rowOwner[x]]

RollBack(w) == EndTransaction(w) /\ UNCHANGED data

(* A request arrives; the cart of an apply or a remove is ACTIVE now. *)
Begin(w) ==
  /\ pc[w] = "idle"
  /\ \E j \in Jobs \ {NoJob} :
       /\ j.kind # "checkout" =>
            cartStatus[j.cart] = "ACTIVE" /\ j.coupon \in Offers[j.cart]
       /\ job' = [job EXCEPT ![w] = j]
       /\ Goto(w, IF j.kind = "apply" THEN "lock_coupon" ELSE "lock_cart")
  /\ UNCHANGED <<todo, rowOwner, data>>

(* apply: SELECT the coupon by code and is_active FOR UPDATE. *)
LockCoupon(w) ==
  LET c == job[w].coupon IN
  /\ pc[w] = "lock_coupon"
  /\ \/ c \notin active /\ RollBack(w)
     \/ /\ c \in active
        /\ Free(c)
        /\ rowOwner' = [rowOwner EXCEPT ![c] = w]
        /\ Goto(w, "lock_cart")
        /\ UNCHANGED <<job, todo, data>>

(* Mutation: the cart is read without FOR UPDATE. *)
LockCartUnlocked(w) ==
  LET j == job[w] IN
  /\ pc[w] = "lock_cart"
  /\ IF j.kind = "checkout" /\ cartStatus[j.cart] # "ACTIVE"
       THEN RollBack(w)
       ELSE /\ Goto(w, CASE j.kind = "apply" -> "check"
                         [] j.kind = "remove" -> "find"
                         [] OTHER -> "lock_coupons")
            /\ todo' = [todo EXCEPT ![w] =
                          IF j.kind = "checkout" THEN AppliedTo(j.cart) ELSE {}]
            /\ UNCHANGED <<job, rowOwner, data>>

(* SELECT the cart FOR UPDATE.  Only the checkout looks at its status, and *)
(* goes on to read the cart's applied coupons.                             *)
LockCart(w) ==
  LET j == job[w] IN
  /\ pc[w] = "lock_cart"
  /\ Free(j.cart)
  /\ \/ /\ j.kind = "checkout"
        /\ cartStatus[j.cart] # "ACTIVE"
        /\ RollBack(w)
     \/ /\ j.kind = "checkout"
        /\ cartStatus[j.cart] = "ACTIVE"
        /\ rowOwner' = [rowOwner EXCEPT ![j.cart] = w]
        /\ todo' = [todo EXCEPT ![w] = AppliedTo(j.cart)]
        /\ Goto(w, "lock_coupons")
        /\ UNCHANGED <<job, data>>
     \/ /\ j.kind # "checkout"
        /\ rowOwner' = [rowOwner EXCEPT ![j.cart] = w]
        /\ Goto(w, IF j.kind = "apply" THEN "check" ELSE "find")
        /\ UNCHANGED <<job, todo, data>>

(* apply: already applied?  stacking?  limit? *)
CheckApply(w) ==
  LET j == job[w] IN
  /\ pc[w] = "check"
  /\ \/ /\ \/ j.coupon \in AppliedTo(j.cart)
           \/ LimitReached(j.coupon)
           \/ \E d \in AppliedTo(j.cart) : Clash(j.coupon, d)
        /\ RollBack(w)
     \/ /\ j.coupon \notin AppliedTo(j.cart) /\ ~LimitReached(j.coupon)
        /\ \A d \in AppliedTo(j.cart) : ~Clash(j.coupon, d)
        /\ Goto(w, "insert")
        /\ UNCHANGED <<job, todo, rowOwner, data>>

(* apply: INSERT the CartCoupon, which nobody else sees before the COMMIT. *)
InsertApplication(w) ==
  /\ pc[w] = "insert"
  /\ Goto(w, "count")
  /\ UNCHANGED <<job, todo, rowOwner, data>>

(* apply: UPDATE the counter WHERE used_count < usage_limit; no row, and   *)
(* the INSERT is undone; one row, and the cart is recalculated and the     *)
(* transaction COMMITs.                                                    *)
CountUse(w) ==
  LET j == job[w] IN
  /\ pc[w] = "count"
  /\ \/ LimitReached(j.coupon) /\ RollBack(w)
     \/ /\ ~LimitReached(j.coupon)
        /\ applied' = applied \cup {<<j.cart, j.coupon>>}
        /\ used' = [used EXCEPT ![j.coupon] = @ + 1]
        /\ EndTransaction(w)
        /\ UNCHANGED <<cartStatus, active, redeemed>>

(* Mutation: the decrement is sent whether or not a CartCoupon was found. *)
FindNothing(w) ==
  /\ pc[w] = "find"
  /\ Goto(w, "decrement")
  /\ UNCHANGED <<job, todo, rowOwner, data>>

(* remove: look for the CartCoupon; without one there is nothing to do. *)
FindApplication(w) ==
  /\ pc[w] = "find"
  /\ \/ job[w].coupon \notin AppliedTo(job[w].cart) /\ RollBack(w)
     \/ /\ job[w].coupon \in AppliedTo(job[w].cart)
        /\ Goto(w, "decrement")
        /\ UNCHANGED <<job, todo, rowOwner, data>>

(* Mutation: no WHERE used_count > 0, and the CartCoupon stays. *)
DecrementOnly(w) ==
  /\ pc[w] = "decrement"
  /\ Free(job[w].coupon)
  /\ used' = [used EXCEPT ![job[w].coupon] = @ - 1]
  /\ EndTransaction(w)
  /\ UNCHANGED <<cartStatus, active, applied, redeemed>>

(* remove: UPDATE the coupon WHERE used_count > 0, which waits for its     *)
(* row; DELETE the CartCoupon, recalculate, COMMIT.                        *)
DecrementUse(w) ==
  LET j == job[w] IN
  /\ pc[w] = "decrement"
  /\ Free(j.coupon)
  /\ used' = [used EXCEPT ![j.coupon] = IF @ > 0 THEN @ - 1 ELSE @]
  /\ applied' = applied \ {<<j.cart, j.coupon>>}
  /\ EndTransaction(w)
  /\ UNCHANGED <<cartStatus, active, redeemed>>

(* Mutation: the applications are read without FOR UPDATE. *)
LockCouponsUnlocked(w) ==
  /\ pc[w] = "lock_coupons"
  /\ todo' = [todo EXCEPT ![w] = {}]
  /\ Goto(w, "revalidate")
  /\ UNCHANGED <<job, rowOwner, data>>

(* revalidate: SELECT the applications and their coupons FOR UPDATE, row   *)
(* by row in the order of the scan.                                        *)
LockCoupons(w) ==
  /\ pc[w] = "lock_coupons"
  /\ \/ /\ todo[w] = {}
        /\ Goto(w, "revalidate")
        /\ UNCHANGED <<job, todo, rowOwner, data>>
     \/ \E c \in todo[w] :
          /\ Free(c)
          /\ rowOwner' = [rowOwner EXCEPT ![c] = w]
          /\ todo' = [todo EXCEPT ![w] = @ \ {c}]
          /\ UNCHANGED <<pc, job, data>>

(* revalidate: every applied coupon is put to the validator again, the     *)
(* usage rule included.                                                    *)
PassesRevalidation(cart) ==
  \A c \in AppliedTo(cart) : c \in active /\ ~LimitReached(c)

Revalidate(w) ==
  /\ pc[w] = "revalidate"
  /\ \/ ~PassesRevalidation(job[w].cart) /\ RollBack(w)
     \/ /\ PassesRevalidation(job[w].cart)
        /\ Goto(w, "commit")
        /\ UNCHANGED <<job, todo, rowOwner, data>>

(* The rest of the checkout: the order carries the cart's discount. *)
CommitOrder(w) ==
  LET k == job[w].cart IN
  /\ pc[w] = "commit"
  /\ cartStatus' = [cartStatus EXCEPT ![k] = "CHECKED_OUT"]
  /\ redeemed' = redeemed \cup ({k} \X AppliedTo(k))
  /\ EndTransaction(w)
  /\ UNCHANGED <<active, used, applied>>

-----------------------------------------------------------------------------
(* The environment *)

(* Mutation: the connection goes back to its pool inside the transaction. *)
InterruptKeepsRows(w) ==
  /\ pc[w] # "idle"
  /\ Goto(w, "idle")
  /\ job' = [job EXCEPT ![w] = NoJob]
  /\ todo' = [todo EXCEPT ![w] = {}]
  /\ UNCHANGED <<rowOwner, data>>

(* The worker dies, or any other check of its transaction (validity        *)
(* window, minimum total, country, stock) refuses it.                      *)
Interrupt(w) == pc[w] # "idle" /\ RollBack(w)

(* An operator clears is_active in the database: an UPDATE, so it waits    *)
(* for the row.  The admin has no tenant and cannot read a coupon.         *)
Deactivate(c) ==
  /\ c \in active
  /\ Free(c)
  /\ active' = active \ {c}
  /\ UNCHANGED <<pc, job, todo, rowOwner, cartStatus, used, applied, redeemed>>

(* Postgres: the rows a worker waits for, and the deadlocks it breaks. *)
AwaitedRows(w) ==
  CASE pc[w] = "lock_coupon" -> {job[w].coupon}
    [] pc[w] = "lock_cart" -> {job[w].cart}
    [] pc[w] = "decrement" -> {job[w].coupon}
    [] pc[w] = "lock_coupons" -> todo[w]
    [] OTHER -> {}

WaitsFor(w, v) ==
  /\ v # w
  /\ AwaitedRows(w) # {}
  /\ \A x \in AwaitedRows(w) : ~Free(x)
  /\ \E x \in AwaitedRows(w) : rowOwner[x] = v

InCycle(w) ==
  \E S \in SUBSET Workers :
    /\ w \in S
    /\ \A v \in S : (\E u \in S : WaitsFor(v, u)) /\ (\E u \in S : WaitsFor(u, v))

DeadlockVictim(w) == InCycle(w) /\ RollBack(w)

-----------------------------------------------------------------------------
Step(w) ==
  \/ LockCoupon(w) \/ LockCart(w) \/ CheckApply(w) \/ InsertApplication(w)
  \/ CountUse(w) \/ FindApplication(w) \/ DecrementUse(w)
  \/ LockCoupons(w) \/ Revalidate(w) \/ CommitOrder(w)

Next ==
  \/ \E w \in Workers : Begin(w) \/ Step(w) \/ Interrupt(w) \/ DeadlockVictim(w)
  \/ \E c \in Coupons : Deactivate(c)

Spec == Init /\ [][Next]_vars

(* Postgres grants a row lock to its waiters in the order they came, so a  *)
(* worker that waits again and again gets it: strong fairness.             *)
FairSpec ==
  /\ Spec
  /\ \A w \in Workers : SF_vars(Step(w)) /\ WF_vars(DeadlockVictim(w))

-----------------------------------------------------------------------------
(* Properties *)

TypeOK ==
  /\ pc \in [Workers -> Phases]
  /\ job \in [Workers -> Jobs]
  /\ todo \in [Workers -> SUBSET Coupons]
  /\ rowOwner \in [Rows -> Workers \cup {None}]
  /\ cartStatus \in [Carts -> {"ACTIVE", "CHECKED_OUT"}]
  /\ active \in SUBSET Coupons
  /\ used \in [Coupons -> Nat]
  /\ applied \in SUBSET (Carts \X Coupons)
  /\ redeemed \in SUBSET (Carts \X Coupons)

(* used_count is the number of carts the coupon is on: no rollback, double *)
(* removal or race of apply with remove loses or invents a use.            *)
UsesCounted == \A c \in Coupons : used[c] = Uses(c)

(* "No coupon overuse": a capped coupon is never on more carts than its    *)
(* cap allows, whoever races for the last use.                             *)
WithinLimit == \A c \in Coupons : LimitOf[c] # None => Uses(c) <= LimitOf[c]

(* No two coupons on one cart break the stacking policy, even when they    *)
(* are applied at the same time under different coupon locks.              *)
StackingHolds ==
  \A k \in Carts : \A c, d \in AppliedTo(k) : c # d => ~Clash(c, d)

(* Revalidation's row locks: no order is placed with a coupon that was     *)
(* deactivated before the order committed.                                 *)
NoDeactivatedCouponRedeemed ==
  [][\A k \in Carts, c \in Coupons :
       <<k, c>> \in redeemed' \ redeemed => c \in active]_vars

(* Every request that begins ends: lock waits and deadlocks do not last.   *)
EveryRequestEnds == \A w \in Workers : pc[w] # "idle" ~> pc[w] = "idle"

(* "No coupon overuse": no more orders than the cap carry the discount of  *)
(* a capped coupon.                                                        *)
NoOveruse ==
  \A c \in Coupons :
    LimitOf[c] # None => Cardinality({k \in Carts : <<k, c>> \in redeemed}) <= LimitOf[c]

(* Revalidation "raises if any applied coupon is now invalid": coupons     *)
(* that are still active and within their cap do not refuse a checkout.    *)
OnlyDriftRefuses ==
  \A w \in Workers :
    pc[w] = "revalidate" =>
      LET cs == AppliedTo(job[w].cart) IN
      (\A c \in cs : c \in active /\ (LimitOf[c] = None \/ used[c] <= LimitOf[c])) =>
        PassesRevalidation(job[w].cart)
=============================================================================
