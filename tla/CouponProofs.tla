---------------------------- MODULE CouponProofs ----------------------------
(***************************************************************************)
(* Proofs about Coupon, for any number of workers, carts and coupons, any  *)
(* caps, discount types and offers, under each stacking policy.            *)
(***************************************************************************)
EXTENDS Coupon, FiniteSetTheorems, TLAPS

(* The carts a coupon is on. *)
On(c) == {k \in Carts : <<k, c>> \in applied}

(* What a worker that is being served has been asked for. *)
KindInv(w) ==
  /\ pc[w] \in {"lock_coupon", "check", "insert", "count"} => job[w].kind = "apply"
  /\ pc[w] \in {"find", "decrement"} => job[w].kind = "remove"
  /\ pc[w] \in {"lock_coupons", "revalidate", "commit"} => job[w].kind = "checkout"
  /\ pc[w] = "lock_cart" => job[w].kind \in {"apply", "remove", "checkout"}

(* Past its SELECT FOR UPDATE it owns the cart's row, *)
CartInv(w) ==
  pc[w] \in {"check", "insert", "count", "find", "decrement", "lock_coupons", "revalidate", "commit"} =>
    rowOwner[job[w].cart] = w

(* so that what it has read of the cart's coupons is still so,             *)
ReadInv(w) ==
  LET j == job[w] IN
  /\ pc[w] \in {"insert", "count"} =>
       j.coupon \notin AppliedTo(j.cart) /\ \A d \in AppliedTo(j.cart) : ~Clash(j.coupon, d)
  /\ pc[w] = "decrement" => j.coupon \in AppliedTo(j.cart)

(* and a checkout owns the coupons it has locked, which none deactivates.  *)
LockedInv(w) ==
  LET cs == AppliedTo(job[w].cart) IN
  /\ pc[w] = "lock_coupons" => \A c \in cs \ todo[w] : rowOwner[c] = w
  /\ pc[w] \in {"revalidate", "commit"} => \A c \in cs : rowOwner[c] = w
  /\ pc[w] = "commit" => cs \subseteq active

Known(w) == KindInv(w) /\ CartInv(w) /\ ReadInv(w) /\ LockedInv(w)

WorkersInv == \A w \in Workers : Known(w)

(* Every use is counted, and the counter never exceeds its cap. *)
CountsInv ==
  \A c \in Coupons :
    /\ IsFiniteSet(On(c))
    /\ used[c] = Uses(c)
    /\ LimitOf[c] # None => used[c] <= LimitOf[c]

IInv == TypeOK /\ WorkersInv /\ CountsInv /\ StackingHolds

-----------------------------------------------------------------------------
LEMMA JobFields ==
  ASSUME NEW j \in Jobs, j.kind # "none"
  PROVE  /\ j.cart \in Carts
         /\ j.kind \in {"apply", "remove"} => j.coupon \in Coupons
  BY DEF Jobs, NoJob

LEMMA InitIInv == Init => IInv
<1> SUFFICES ASSUME Init PROVE IInv
  OBVIOUS
<1>1. TypeOK
  BY DEF Init, TypeOK, Phases, Jobs, NoJob, Rows
<1>2. WorkersInv
  BY DEF Init, WorkersInv, Known, KindInv, CartInv, ReadInv, LockedInv
<1>3. CountsInv
  <2> SUFFICES ASSUME NEW c \in Coupons
               PROVE  /\ IsFiniteSet(On(c))
                      /\ used[c] = Uses(c)
                      /\ LimitOf[c] # None => used[c] <= LimitOf[c]
    BY DEF CountsInv
  <2>1. On(c) = {}
    BY DEF Init, On
  <2>2. IsFiniteSet({}) /\ Cardinality({}) = 0
    BY FS_EmptySet
  <2>3. Uses(c) = 0
    BY <2>1, <2>2 DEF Uses, On
  <2> QED BY <2>1, <2>2, <2>3, CouponAssumption, NoneAssumption DEF Init
<1>4. StackingHolds
  BY DEF Init, StackingHolds, AppliedTo
<1> QED BY <1>1, <1>2, <1>3, <1>4 DEF IInv

-----------------------------------------------------------------------------
(* Types *)

LEMMA RollBackType ==
  ASSUME TypeOK, NEW w \in Workers, RollBack(w)
  PROVE  TypeOK'
  BY DEF TypeOK, RollBack, EndTransaction, Goto, data, Phases, Jobs, NoJob, Rows

LEMMA TypeInductive == TypeOK /\ WorkersInv /\ [Next]_vars => TypeOK'
<1> SUFFICES ASSUME TypeOK, WorkersInv, [Next]_vars PROVE TypeOK'
  OBVIOUS
<1> USE DEF TypeOK, Phases, Goto, data
<1>1. ASSUME NEW w \in Workers, Begin(w) PROVE TypeOK'
  BY <1>1 DEF Begin
<1>2. ASSUME NEW w \in Workers, Step(w) PROVE TypeOK'
  <2> DEFINE j == job[w]
  <2>0. /\ KindInv(w)
        /\ j \in Jobs
        /\ j.kind # "none" => j.cart \in Carts
        /\ j.kind \in {"apply", "remove"} => j.coupon \in Coupons
    BY JobFields DEF WorkersInv, Known
  <2>1. CASE LockCoupon(w)
    <3>1. CASE RollBack(w)
      BY <3>1, RollBackType
    <3> QED BY <2>1, <3>1 DEF LockCoupon, Rows
  <2>2. CASE LockCart(w)
    <3>1. CASE RollBack(w)
      BY <3>1, RollBackType
    <3>2. AppliedTo(job[w].cart) \subseteq Coupons
      BY DEF AppliedTo
    <3> QED BY <2>2, <3>1, <3>2 DEF LockCart
  <2>3. CASE CheckApply(w)
    BY <2>3, RollBackType DEF CheckApply
  <2>10. CASE InsertApplication(w)
    BY <2>10 DEF InsertApplication
  <2>4. CASE CountUse(w)
    <3>1. CASE RollBack(w)
      BY <3>1, RollBackType
    <3>2. j.cart \in Carts /\ j.coupon \in Coupons
      BY <2>0, <2>4 DEF KindInv, CountUse
    <3>3. CASE ~LimitReached(j.coupon)
      <4>1. applied' = applied \cup {<<j.cart, j.coupon>>} /\ EndTransaction(w)
            /\ used' = [used EXCEPT ![j.coupon] = @ + 1]
            /\ UNCHANGED <<cartStatus, active, redeemed>>
        BY <2>4, <3>3 DEF CountUse
      <4> QED BY <3>2, <4>1 DEF EndTransaction, Jobs, NoJob
    <3> QED BY <2>4, <3>1, <3>3 DEF CountUse
  <2>5. CASE FindApplication(w)
    BY <2>5, RollBackType DEF FindApplication
  <2>6. CASE DecrementUse(w)
    <3>1. j.coupon \in Coupons
      BY <2>0, <2>6 DEF KindInv, DecrementUse
    <3>2. used' \in [Coupons -> Nat]
      BY <2>6, <3>1 DEF DecrementUse
    <3> QED BY <2>6, <3>2 DEF DecrementUse, EndTransaction, Jobs, NoJob
  <2>7. CASE LockCoupons(w)
    BY <2>7 DEF LockCoupons
  <2>8. CASE Revalidate(w)
    BY <2>8, RollBackType DEF Revalidate
  <2>9. CASE CommitOrder(w)
    <3>1. j.cart \in Carts
      BY <2>0, <2>9 DEF KindInv, CommitOrder
    <3> QED BY <2>9, <3>1 DEF CommitOrder, EndTransaction, AppliedTo, Jobs, NoJob
  <2> QED BY <1>2, <2>1, <2>2, <2>3, <2>4, <2>5, <2>6, <2>7, <2>8, <2>9, <2>10 DEF Step
<1>3. ASSUME NEW w \in Workers, Interrupt(w) \/ DeadlockVictim(w) PROVE TypeOK'
  BY <1>3, RollBackType DEF Interrupt, DeadlockVictim
<1>4. ASSUME NEW c \in Coupons, Deactivate(c) PROVE TypeOK'
  BY <1>4 DEF Deactivate
<1>5. CASE UNCHANGED vars
  BY <1>5 DEF vars
<1> QED BY <1>1, <1>2, <1>3, <1>4, <1>5 DEF Next

-----------------------------------------------------------------------------
(* Workers.  What a worker knows survives every step of another one that   *)
(* leaves its locks, the coupons of its cart and its locked coupons alone. *)

Undisturbed(v) ==
  /\ pc'[v] = pc[v] /\ job'[v] = job[v] /\ todo'[v] = todo[v]
  /\ \A x \in Rows : rowOwner[x] = v => rowOwner'[x] = v
  /\ \A k \in Carts : rowOwner[k] = v => AppliedTo(k)' = AppliedTo(k)
  /\ \A c \in Coupons : rowOwner[c] = v /\ c \in active => c \in active'

LEMMA UndisturbedKnown ==
  ASSUME TypeOK, NEW v \in Workers, Known(v), Undisturbed(v)
  PROVE  Known(v)'
<1> DEFINE j == job[v]
<1>1. /\ j \in Jobs
      /\ j.kind # "none" => j.cart \in Carts
  BY JobFields DEF TypeOK
<1>2. pc'[v] = pc[v] /\ job'[v] = j /\ todo'[v] = todo[v]
  BY DEF Undisturbed
<1>3. KindInv(v)'
  BY <1>2 DEF Known, KindInv
<1>4. CASE pc[v] \in {"idle", "lock_coupon", "lock_cart"}
  BY <1>2, <1>3, <1>4 DEF Known, CartInv, ReadInv, LockedInv
<1>5. CASE pc[v] \notin {"idle", "lock_coupon", "lock_cart"}
  <2>1. /\ pc[v] \in {"check", "insert", "count", "find", "decrement", "lock_coupons", "revalidate", "commit"}
        /\ j.cart \in Carts /\ j.cart \in Rows
        /\ rowOwner[j.cart] = v
    BY <1>1, <1>5 DEF Known, KindInv, CartInv, TypeOK, Phases, Rows
  <2>2. rowOwner'[j.cart] = v /\ AppliedTo(j.cart)' = AppliedTo(j.cart)
    BY <2>1 DEF Undisturbed
  <2>3. CartInv(v)'
    BY <1>2, <2>2 DEF CartInv
  <2>4. AppliedTo(job[v].cart)' = AppliedTo(j.cart)
    BY <1>2, <2>2 DEF AppliedTo
  <2>5. ReadInv(v)'
    BY <1>2, <2>4 DEF Known, ReadInv, Clash
  <2>6. LockedInv(v)'
    <3>1. AppliedTo(j.cart) \subseteq Coupons /\ AppliedTo(j.cart) \subseteq Rows
      BY DEF AppliedTo, Rows
    <3>2. \A c \in AppliedTo(j.cart) : rowOwner[c] = v =>
            rowOwner'[c] = v /\ (c \in active => c \in active')
      BY <3>1 DEF Undisturbed
    <3> QED BY <1>2, <2>4, <3>1, <3>2 DEF Known, LockedInv
  <2> QED BY <1>3, <2>3, <2>5, <2>6 DEF Known
<1> QED BY <1>4, <1>5

(* A transaction that ends frees its own rows and knows nothing any more.  *)
LEMMA EndedKnown ==
  ASSUME TypeOK, NEW w \in Workers, EndTransaction(w)
  PROVE  /\ Known(w)'
         /\ \A v \in Workers \ {w} :
              /\ pc'[v] = pc[v] /\ job'[v] = job[v] /\ todo'[v] = todo[v]
              /\ \A x \in Rows : rowOwner[x] = v => rowOwner'[x] = v
<1>1. pc'[w] = "idle"
  BY DEF EndTransaction, Goto, TypeOK
<1>2. Known(w)'
  BY <1>1 DEF Known, KindInv, CartInv, ReadInv, LockedInv
<1> QED BY <1>2 DEF EndTransaction, Goto, TypeOK

LEMMA RollBackKnown ==
  ASSUME TypeOK, WorkersInv, NEW w \in Workers, RollBack(w)
  PROVE  WorkersInv'
<1>1. Known(w)'
  BY EndedKnown DEF RollBack
<1>2. ASSUME NEW v \in Workers \ {w} PROVE Known(v)'
  <2>1. Undisturbed(v)
    BY EndedKnown DEF RollBack, data, Undisturbed, AppliedTo
  <2> QED BY <2>1, UndisturbedKnown DEF WorkersInv
<1> QED BY <1>1, <1>2 DEF WorkersInv

(* The steps that lock rows or move on leave the tables alone.             *)
LEMMA ReadersKnown ==
  ASSUME TypeOK, WorkersInv, NEW w \in Workers,
         Begin(w) \/ LockCoupon(w) \/ LockCart(w) \/ CheckApply(w) \/ InsertApplication(w)
           \/ FindApplication(w) \/ LockCoupons(w) \/ Revalidate(w)
  PROVE  WorkersInv'
<1> DEFINE j == job[w]
<1>0. CASE RollBack(w)
  BY <1>0, RollBackKnown
<1>1. ASSUME ~RollBack(w) PROVE WorkersInv'
  <2>1. UNCHANGED data
    BY <1>1 DEF Begin, LockCoupon, LockCart, CheckApply, InsertApplication, FindApplication,
                LockCoupons, Revalidate, data
  <2>2. \A k : AppliedTo(k)' = AppliedTo(k)
    BY <2>1 DEF AppliedTo, data
  <2>3. ASSUME NEW v \in Workers \ {w} PROVE Known(v)'
    <3>1. pc'[v] = pc[v] /\ job'[v] = job[v] /\ todo'[v] = todo[v]
      BY <1>1 DEF Begin, LockCoupon, LockCart, CheckApply, InsertApplication, FindApplication,
                  LockCoupons, Revalidate, Goto, TypeOK
    <3>2. \A x \in Rows : rowOwner[x] = v => rowOwner'[x] = v
      <4>1. CASE UNCHANGED rowOwner
        BY <4>1
      <4>2. ASSUME NEW y, Free(y), rowOwner' = [rowOwner EXCEPT ![y] = w]
            PROVE  \A x \in Rows : rowOwner[x] = v => rowOwner'[x] = v
        BY <4>2, NoneAssumption DEF TypeOK, Free
      <4> QED BY <1>1, <4>1, <4>2 DEF Begin, LockCoupon, LockCart, CheckApply,
                 InsertApplication, FindApplication, LockCoupons, Revalidate
    <3>3. Undisturbed(v)
      BY <2>1, <2>2, <3>1, <3>2 DEF Undisturbed, data
    <3> QED BY <3>3, UndisturbedKnown DEF WorkersInv
  <2>4. Known(w)
    BY DEF WorkersInv
  <2>5. ASSUME Begin(w) PROVE Known(w)'
    BY <2>5 DEF Begin, Known, KindInv, CartInv, ReadInv, LockedInv, Goto, TypeOK, Jobs, NoJob
  <2>6. ASSUME LockCoupon(w) PROVE Known(w)'
    BY <1>1, <2>4, <2>6 DEF LockCoupon, Known, KindInv, CartInv, ReadInv, LockedInv, Goto, TypeOK
  <2>7. ASSUME LockCart(w) PROVE Known(w)'
    <3>1. j.cart \in Rows
      BY <2>4, <2>7, JobFields DEF LockCart, Known, KindInv, TypeOK, Rows
    <3> QED BY <1>1, <2>2, <2>4, <2>7, <3>1
            DEF LockCart, Known, KindInv, CartInv, ReadInv, LockedInv, Goto, TypeOK
  <2>8. ASSUME CheckApply(w) PROVE Known(w)'
    BY <1>1, <2>2, <2>4, <2>8
       DEF CheckApply, Known, KindInv, CartInv, ReadInv, LockedInv, Goto, TypeOK, Clash
  <2>12. ASSUME InsertApplication(w) PROVE Known(w)'
    BY <2>2, <2>4, <2>12
       DEF InsertApplication, Known, KindInv, CartInv, ReadInv, LockedInv, Goto, TypeOK, Clash
  <2>9. ASSUME FindApplication(w) PROVE Known(w)'
    BY <1>1, <2>2, <2>4, <2>9
       DEF FindApplication, Known, KindInv, CartInv, ReadInv, LockedInv, Goto, TypeOK
  <2>10. ASSUME LockCoupons(w) PROVE Known(w)'
    <3>1. j.cart \in Carts
      BY <2>4, <2>10, JobFields DEF LockCoupons, Known, KindInv, TypeOK
    <3>2. ASSUME todo[w] = {}, Goto(w, "revalidate"), UNCHANGED <<job, todo, rowOwner, data>>
          PROVE  Known(w)'
      BY <2>2, <2>4, <2>10, <3>2
         DEF LockCoupons, Known, KindInv, CartInv, ReadInv, LockedInv, Goto, TypeOK
    <3>3. ASSUME NEW c \in todo[w], Free(c), rowOwner' = [rowOwner EXCEPT ![c] = w],
                 todo' = [todo EXCEPT ![w] = @ \ {c}], UNCHANGED <<pc, job, data>>
          PROVE  Known(w)'
      <4>1. c \in Rows /\ c \notin Carts
        BY CouponAssumption DEF TypeOK, Rows
      <4>2. rowOwner'[c] = w /\ rowOwner'[j.cart] = rowOwner[j.cart]
        BY <3>1, <3>3, <4>1 DEF TypeOK
      <4>3. \A x \in Rows : rowOwner[x] = w => rowOwner'[x] = w
        BY <3>3 DEF TypeOK
      <4>4. AppliedTo(j.cart) \subseteq Rows
        BY DEF AppliedTo, Rows
      <4>5. pc'[w] = "lock_coupons" /\ job'[w] = j /\ todo'[w] = todo[w] \ {c}
        BY <2>10, <3>3 DEF LockCoupons, TypeOK
      <4>6. KindInv(w)' /\ CartInv(w)' /\ ReadInv(w)'
        BY <2>4, <2>10, <4>2, <4>5 DEF LockCoupons, Known, KindInv, CartInv, ReadInv
      <4>7. LockedInv(w)'
        <5>1. \A d \in AppliedTo(j.cart) \ todo[w] : rowOwner[d] = w
          BY <2>4, <2>10 DEF LockCoupons, Known, LockedInv
        <5> QED BY <2>2, <4>2, <4>3, <4>4, <4>5, <5>1 DEF LockedInv
      <4> QED BY <4>6, <4>7 DEF Known
    <3> QED BY <2>10, <3>2, <3>3 DEF LockCoupons
  <2>11. ASSUME Revalidate(w) PROVE Known(w)'
    BY <1>1, <2>1, <2>2, <2>4, <2>11
       DEF Revalidate, PassesRevalidation, Known, KindInv, CartInv, ReadInv, LockedInv, Goto,
           TypeOK, data
  <2> QED BY <1>1, <2>3, <2>5, <2>6, <2>7, <2>8, <2>9, <2>10, <2>11, <2>12
         DEF WorkersInv
<1> QED BY <1>0, <1>1

(* The steps that write: only the cart's own coupons, under its row lock.  *)

InsertUse(w) ==
  LET j == job[w] IN
  /\ pc[w] = "count"
  /\ ~LimitReached(j.coupon)
  /\ applied' = applied \cup {<<j.cart, j.coupon>>}
  /\ used' = [used EXCEPT ![j.coupon] = @ + 1]
  /\ EndTransaction(w)
  /\ UNCHANGED <<cartStatus, active, redeemed>>

LEMMA InsertOrRollBack ==
  ASSUME NEW w, CountUse(w)
  PROVE  RollBack(w) \/ InsertUse(w)
  BY DEF CountUse, InsertUse

LEMMA WritersKnown ==
  ASSUME TypeOK, WorkersInv, NEW w \in Workers, InsertUse(w) \/ DecrementUse(w) \/ CommitOrder(w)
  PROVE  WorkersInv'
<1> DEFINE j == job[w]
<1>1. EndTransaction(w)
  BY DEF InsertUse, DecrementUse, CommitOrder
<1>2. j.cart \in Carts /\ rowOwner[j.cart] = w
  BY JobFields DEF InsertUse, DecrementUse, CommitOrder, WorkersInv, Known, KindInv, CartInv, TypeOK
<1>3. \A k \in Carts \ {j.cart} : AppliedTo(k)' = AppliedTo(k)
  BY DEF InsertUse, DecrementUse, CommitOrder, AppliedTo
<1>4. active' = active
  BY DEF InsertUse, DecrementUse, CommitOrder
<1>5. Known(w)'
  BY <1>1, EndedKnown
<1>6. ASSUME NEW v \in Workers \ {w} PROVE Known(v)'
  <2>1. Undisturbed(v)
    BY <1>1, <1>2, <1>3, <1>4, EndedKnown DEF Undisturbed
  <2> QED BY <2>1, UndisturbedKnown DEF WorkersInv
<1> QED BY <1>5, <1>6 DEF WorkersInv

LEMMA KnownInductive == TypeOK /\ WorkersInv /\ [Next]_vars => WorkersInv'
<1> SUFFICES ASSUME TypeOK, WorkersInv, [Next]_vars PROVE WorkersInv'
  OBVIOUS
<1>1. ASSUME NEW w \in Workers, Begin(w) PROVE WorkersInv'
  BY <1>1, ReadersKnown
<1>2. ASSUME NEW w \in Workers, Step(w) PROVE WorkersInv'
  BY <1>2, ReadersKnown, WritersKnown, InsertOrRollBack, RollBackKnown DEF Step
<1>3. ASSUME NEW w \in Workers, Interrupt(w) \/ DeadlockVictim(w) PROVE WorkersInv'
  BY <1>3, RollBackKnown DEF Interrupt, DeadlockVictim
<1>4. ASSUME NEW c \in Coupons, Deactivate(c) PROVE WorkersInv'
  <2> SUFFICES ASSUME NEW v \in Workers PROVE Known(v)'
    BY DEF WorkersInv
  <2>1. rowOwner[c] # v
    BY <1>4, NoneAssumption DEF Deactivate, Free
  <2>2. Undisturbed(v)
    BY <1>4, <2>1 DEF Deactivate, Undisturbed, AppliedTo
  <2> QED BY <2>2, UndisturbedKnown DEF WorkersInv
<1>5. CASE UNCHANGED vars
  <2> SUFFICES ASSUME NEW v \in Workers PROVE Known(v)'
    BY DEF WorkersInv
  <2>1. Undisturbed(v)
    BY <1>5 DEF vars, Undisturbed, AppliedTo
  <2> QED BY <2>1, UndisturbedKnown DEF WorkersInv
<1> QED BY <1>1, <1>2, <1>3, <1>4, <1>5 DEF Next

-----------------------------------------------------------------------------
(* Counters and stacking: what each writer does to them.                   *)

Counts(c) ==
  /\ IsFiniteSet(On(c))
  /\ used[c] = Uses(c)
  /\ LimitOf[c] # None => used[c] <= LimitOf[c]

LEMMA SameCounts ==
  ASSUME CountsInv, StackingHolds, UNCHANGED <<applied, used>>
  PROVE  CountsInv' /\ StackingHolds'
<1>1. \A c : On(c)' = On(c) /\ Uses(c)' = Uses(c) /\ AppliedTo(c)' = AppliedTo(c)
  BY DEF On, Uses, AppliedTo
<1>2. CountsInv'
  BY <1>1 DEF CountsInv
<1> QED BY <1>1, <1>2 DEF StackingHolds, Clash

LEMMA InsertCounts ==
  ASSUME TypeOK, WorkersInv, CountsInv, NEW w \in Workers, InsertUse(w)
  PROVE  CountsInv'
<1> DEFINE j == job[w]
<1>1. /\ j.cart \in Carts /\ j.coupon \in Coupons
      /\ j.cart \notin On(j.coupon)
  BY JobFields DEF InsertUse, WorkersInv, Known, KindInv, ReadInv, TypeOK, AppliedTo, On
<1> SUFFICES ASSUME NEW c \in Coupons PROVE Counts(c)'
  BY DEF CountsInv, Counts
<1>2. IsFiniteSet(On(c)) /\ used[c] = Cardinality(On(c)) /\ used[c] \in Nat
  BY DEF CountsInv, Uses, On, TypeOK
<1>3. CASE c = j.coupon
  <2>1. On(c)' = On(c) \cup {j.cart}
    BY <1>1, <1>3 DEF InsertUse, On
  <2>2. IsFiniteSet(On(c)') /\ Cardinality(On(c)') = Cardinality(On(c)) + 1
    BY <1>1, <1>2, <1>3, <2>1, FS_AddElement
  <2>3. used'[c] = used[c] + 1
    BY <1>1, <1>3 DEF InsertUse, TypeOK
  <2>4. LimitOf[c] # None => used[c] < LimitOf[c]
    BY <1>2, <1>3, CouponAssumption DEF InsertUse, LimitReached
  <2> QED BY <1>2, <2>2, <2>3, <2>4, CouponAssumption DEF Counts, Uses, On
<1>4. CASE c # j.coupon
  <2>1. On(c)' = On(c) /\ used'[c] = used[c]
    BY <1>1, <1>4 DEF InsertUse, On, TypeOK
  <2> QED BY <1>2, <2>1 DEF CountsInv, Counts, Uses, On
<1> QED BY <1>3, <1>4

LEMMA DecrementCounts ==
  ASSUME TypeOK, WorkersInv, CountsInv, NEW w \in Workers, DecrementUse(w)
  PROVE  CountsInv'
<1> DEFINE j == job[w]
<1>1. /\ j.cart \in Carts /\ j.coupon \in Coupons
      /\ j.cart \in On(j.coupon)
  BY JobFields DEF DecrementUse, WorkersInv, Known, KindInv, ReadInv, TypeOK, AppliedTo, On
<1> SUFFICES ASSUME NEW c \in Coupons PROVE Counts(c)'
  BY DEF CountsInv, Counts
<1>2. IsFiniteSet(On(c)) /\ used[c] = Cardinality(On(c)) /\ used[c] \in Nat
  BY DEF CountsInv, Uses, On, TypeOK
<1>3. CASE c = j.coupon
  <2>1. On(c)' = On(c) \ {j.cart}
    BY <1>1, <1>3 DEF DecrementUse, On
  <2>2. /\ IsFiniteSet(On(c)')
        /\ Cardinality(On(c)') = Cardinality(On(c)) - 1
    BY <1>1, <1>2, <1>3, <2>1, FS_RemoveElement
  <2>3. Cardinality(On(c)') \in Nat
    BY <2>2, FS_CardinalityType
  <2>4. used[c] > 0
    BY <1>2, <2>2, <2>3
  <2>5. used'[c] = used[c] - 1
    BY <1>1, <1>3, <2>4 DEF DecrementUse, TypeOK
  <2>6. LimitOf[c] # None => used[c] <= LimitOf[c] /\ LimitOf[c] \in Nat
    BY CouponAssumption DEF CountsInv
  <2> QED BY <1>2, <2>2, <2>5, <2>6 DEF Counts, Uses, On
<1>4. CASE c # j.coupon
  <2>1. On(c)' = On(c) /\ used'[c] = used[c]
    BY <1>1, <1>4 DEF DecrementUse, On, TypeOK
  <2> QED BY <1>2, <2>1 DEF CountsInv, Counts, Uses, On
<1> QED BY <1>3, <1>4

(* Whether two coupons clash does not depend on their order. *)
LEMMA ClashSymmetric ==
  ASSUME NEW c, NEW d, Clash(c, d)
  PROVE  Clash(d, c)
  BY DEF Clash

LEMMA WritersStack ==
  ASSUME TypeOK, WorkersInv, StackingHolds, NEW w \in Workers, InsertUse(w) \/ DecrementUse(w)
  PROVE  StackingHolds'
<1> DEFINE j == job[w]
<1> SUFFICES ASSUME NEW k \in Carts, NEW c \in AppliedTo(k)', NEW d \in AppliedTo(k)', c # d
             PROVE  ~Clash(c, d)
  BY DEF StackingHolds, Clash
<1>1. CASE c \in AppliedTo(k) /\ d \in AppliedTo(k)
  BY <1>1 DEF StackingHolds
<1>2. CASE InsertUse(w)
  <2>1. \A e \in AppliedTo(k)' : e \in AppliedTo(k) \/ (e = j.coupon /\ k = j.cart)
    BY <1>2 DEF InsertUse, AppliedTo
  <2>2. \A e \in AppliedTo(j.cart) : ~Clash(j.coupon, e)
    BY <1>2 DEF InsertUse, WorkersInv, Known, ReadInv
  <2> QED BY <1>1, <2>1, <2>2, ClashSymmetric
<1>3. CASE DecrementUse(w)
  BY <1>1, <1>3 DEF DecrementUse, AppliedTo
<1> QED BY <1>2, <1>3

-----------------------------------------------------------------------------
(* The invariant *)

LEMMA CountsInductive ==
  IInv /\ [Next]_vars => CountsInv' /\ StackingHolds'
<1> SUFFICES ASSUME IInv, [Next]_vars PROVE CountsInv' /\ StackingHolds'
  OBVIOUS
<1> USE DEF IInv
<1>1. ASSUME NEW w \in Workers, RollBack(w) PROVE CountsInv' /\ StackingHolds'
  BY <1>1, SameCounts DEF RollBack, data
<1>2. ASSUME NEW w \in Workers, Begin(w) PROVE CountsInv' /\ StackingHolds'
  BY <1>2, SameCounts DEF Begin, data
<1>3. ASSUME NEW w \in Workers, Step(w) PROVE CountsInv' /\ StackingHolds'
  <2>1. CASE LockCoupon(w)
    BY <1>1, <2>1, SameCounts DEF LockCoupon, data
  <2>2. CASE LockCart(w)
    BY <1>1, <2>2, SameCounts DEF LockCart, data
  <2>3. CASE CheckApply(w)
    BY <1>1, <2>3, SameCounts DEF CheckApply, data
  <2>10. CASE InsertApplication(w)
    BY <2>10, SameCounts DEF InsertApplication, data
  <2>4. CASE CountUse(w)
    BY <1>1, <2>4, InsertOrRollBack, InsertCounts, WritersStack
  <2>5. CASE FindApplication(w)
    BY <1>1, <2>5, SameCounts DEF FindApplication, data
  <2>6. CASE DecrementUse(w)
    BY <2>6, DecrementCounts, WritersStack
  <2>7. CASE LockCoupons(w)
    BY <2>7, SameCounts DEF LockCoupons, data
  <2>8. CASE Revalidate(w)
    BY <1>1, <2>8, SameCounts DEF Revalidate, data
  <2>9. CASE CommitOrder(w)
    BY <2>9, SameCounts DEF CommitOrder
  <2> QED BY <1>3, <2>1, <2>2, <2>3, <2>4, <2>5, <2>6, <2>7, <2>8, <2>9, <2>10 DEF Step
<1>4. ASSUME NEW w \in Workers, Interrupt(w) \/ DeadlockVictim(w)
      PROVE  CountsInv' /\ StackingHolds'
  BY <1>1, <1>4 DEF Interrupt, DeadlockVictim
<1>5. ASSUME NEW c \in Coupons, Deactivate(c) PROVE CountsInv' /\ StackingHolds'
  BY <1>5, SameCounts DEF Deactivate
<1>6. CASE UNCHANGED vars
  BY <1>6, SameCounts DEF vars
<1> QED BY <1>2, <1>3, <1>4, <1>5, <1>6 DEF Next

LEMMA IInvInductive == IInv /\ [Next]_vars => IInv'
  BY TypeInductive, KnownInductive, CountsInductive DEF IInv

LEMMA IInvHolds == Spec => []IInv
  BY InitIInv, IInvInductive, PTL DEF Spec

-----------------------------------------------------------------------------
(* Theorems *)

(* Every reachable state is well typed; a coupon's counter never becomes   *)
(* negative, although removals race with each other and with rollbacks.    *)
THEOREM TypeCorrect == Spec => []TypeOK
  BY IInvHolds, PTL DEF IInv

(* used_count is exactly the number of carts that carry the coupon.        *)
THEOREM UsesAreCounted == Spec => []UsesCounted
<1>1. IInv => UsesCounted
  BY DEF IInv, CountsInv, UsesCounted
<1> QED BY <1>1, IInvHolds, PTL

(* No race for the last use of a capped coupon puts it on one cart more.   *)
THEOREM CapIsKept == Spec => []WithinLimit
<1>1. IInv => WithinLimit
  BY DEF IInv, CountsInv, WithinLimit
<1> QED BY <1>1, IInvHolds, PTL

(* Applications under different coupon locks still respect the stacking    *)
(* policy of their common cart, since the cart's row orders them.          *)
THEOREM StackingIsKept == Spec => []StackingHolds
  BY IInvHolds, PTL DEF IInv

(* An order is placed only with coupons that are active when it commits:   *)
(* the rows that revalidation locks cannot be deactivated before then.     *)
THEOREM RedeemedWhileActive == Spec => NoDeactivatedCouponRedeemed
<1> DEFINE A == \A k \in Carts, c \in Coupons :
                  <<k, c>> \in redeemed' \ redeemed => c \in active
<1>1. IInv /\ [Next]_vars => [A]_vars
  <2> SUFFICES ASSUME IInv, [Next]_vars, NEW k \in Carts, NEW c \in Coupons,
                      <<k, c>> \in redeemed' \ redeemed
               PROVE  c \in active
    BY DEF A
  <2>1. \A w : RollBack(w) => redeemed' = redeemed
    BY DEF RollBack, data
  <2>2. ~UNCHANGED vars
    BY DEF vars
  <2>3. PICK w \in Workers : CommitOrder(w)
    BY <2>1, <2>2 DEF Next, Step, Begin, LockCoupon, LockCart, CheckApply, InsertApplication,
       CountUse, FindApplication, DecrementUse, LockCoupons, Revalidate, Interrupt, DeadlockVictim,
       Deactivate, data
  <2>4. k = job[w].cart /\ c \in AppliedTo(k)
    BY <2>3 DEF CommitOrder
  <2> QED BY <2>3, <2>4 DEF CommitOrder, IInv, WorkersInv, Known, LockedInv
<1>2. Spec => [][A]_vars
  BY <1>1, IInvHolds, PTL DEF Spec
<1> QED BY <1>2 DEF NoDeactivatedCouponRedeemed
-----------------------------------------------------------------------------
(* Who may wait for whom                                                   *)

HasCart == {"check", "insert", "count", "find", "decrement", "lock_coupons", "revalidate", "commit"}

(* w may hold the row x only where its open transaction has locked it.     *)
Locked(w, x) ==
  \/ x \in Carts /\ pc[w] \in HasCart /\ x = job[w].cart
  \/ x \in Coupons /\ pc[w] \in {"lock_cart", "check", "insert", "count"} /\ job[w].kind = "apply"
  \/ x \in Coupons /\ pc[w] \in {"lock_coupons", "revalidate", "commit"}

HeldInv == \A x \in Rows, w \in Workers : rowOwner[x] = w => Locked(w, x)

(* Every member of S waits for a member and keeps a member waiting.        *)
Circle(S) ==
  \A v \in S : (\E u \in S : WaitsFor(v, u)) /\ (\E u \in S : WaitsFor(u, v))

(* w acts: it locks rows or frees them, the other workers go on as before. *)
LEMMA HeldKept ==
  ASSUME HeldInv, NEW w \in Workers,
         \A v \in Workers \ {w} : pc'[v] = pc[v] /\ job'[v] = job[v],
         \A x \in Rows : rowOwner'[x] \in {None, rowOwner[x], w},
         \A x \in Rows : rowOwner'[x] = w => Locked(w, x)'
  PROVE  HeldInv'
<1> SUFFICES ASSUME NEW x \in Rows, NEW v \in Workers \ {w}, rowOwner'[x] = v
             PROVE  Locked(v, x)'
  BY DEF HeldInv, Rows
<1>1. rowOwner[x] = v
  BY NoneAssumption
<1> QED BY <1>1 DEF HeldInv, Locked

LEMMA EndedHeld ==
  ASSUME TypeOK, HeldInv, NEW w \in Workers, EndTransaction(w)
  PROVE  HeldInv'
<1>1. \A v \in Workers \ {w} : pc'[v] = pc[v] /\ job'[v] = job[v]
  BY DEF EndTransaction, Goto, TypeOK
<1>2. \A x \in Rows : rowOwner'[x] \in {None, rowOwner[x]} /\ rowOwner'[x] # w
  BY NoneAssumption DEF EndTransaction
<1> QED BY <1>1, <1>2, HeldKept

(* A step that ends no transaction moves w on in its own one.              *)
LEMMA StepHeld ==
  ASSUME TypeOK, WorkersInv, HeldInv, NEW w \in Workers, Begin(w) \/ Step(w),
         ~EndTransaction(w)
  PROVE  HeldInv'
<1>0. /\ \A v \in Workers \ {w} : pc'[v] = pc[v] /\ job'[v] = job[v]
      /\ KindInv(w) /\ job[w] \in Jobs
      /\ job[w].kind # "none" => job[w].cart \in Carts
  BY JobFields
     DEF WorkersInv, Known, TypeOK, Goto, Begin, Step, LockCoupon, LockCart, CheckApply,
         InsertApplication, CountUse, FindApplication, DecrementUse, LockCoupons, Revalidate,
         CommitOrder, RollBack, data
<1>1. ASSUME UNCHANGED rowOwner, \A x \in Rows : rowOwner[x] = w => Locked(w, x)'
      PROVE  HeldInv'
  BY <1>0, <1>1, HeldKept
<1>2. ASSUME NEW row \in Rows, rowOwner' = [rowOwner EXCEPT ![row] = w], Locked(w, row)',
             \A x \in Rows : rowOwner[x] = w => Locked(w, x)'
      PROVE  HeldInv'
  <2>1. \A x \in Rows : rowOwner'[x] = IF x = row THEN w ELSE rowOwner[x]
    BY <1>2 DEF TypeOK
  <2> QED BY <1>0, <1>2, <2>1, HeldKept
<1>3. CASE Begin(w)
  <2>1. \A x \in Rows : rowOwner[x] # w
    BY <1>3 DEF Begin, HeldInv, Locked, HasCart
  <2> QED BY <1>1, <1>3, <2>1 DEF Begin
<1>4. CASE LockCoupon(w)
  <2>1. /\ pc[w] = "lock_coupon" /\ job[w].kind = "apply" /\ job[w].coupon \in Coupons
        /\ pc'[w] = "lock_cart" /\ job' = job
        /\ rowOwner' = [rowOwner EXCEPT ![job[w].coupon] = w]
    BY <1>0, <1>4, JobFields DEF LockCoupon, RollBack, KindInv, Goto, TypeOK
  <2> QED BY <1>2, <2>1 DEF HeldInv, Locked, HasCart, Rows
<1>5. CASE LockCart(w)
  <2>1. /\ pc[w] = "lock_cart" /\ pc'[w] \in {"check", "find", "lock_coupons"} /\ job' = job
        /\ job[w].kind = "apply" => pc'[w] = "check"
        /\ rowOwner' = [rowOwner EXCEPT ![job[w].cart] = w]
    BY <1>5 DEF LockCart, RollBack, Goto, TypeOK
  <2>2. job[w].cart \in Carts
    BY <1>0, <2>1 DEF KindInv
  <2> QED BY <1>2, <2>1, <2>2, CouponAssumption DEF HeldInv, Locked, HasCart, Rows
<1>6. CASE CheckApply(w) \/ InsertApplication(w) \/ FindApplication(w) \/ Revalidate(w)
  <2>1. /\ job' = job /\ UNCHANGED rowOwner
        /\ \/ pc[w] = "check" /\ pc'[w] = "insert"
           \/ pc[w] = "insert" /\ pc'[w] = "count"
           \/ pc[w] = "find" /\ pc'[w] = "decrement"
           \/ pc[w] = "revalidate" /\ pc'[w] = "commit"
    BY <1>6 DEF CheckApply, InsertApplication, FindApplication, Revalidate, RollBack, Goto, TypeOK
  <2> QED BY <1>1, <2>1 DEF HeldInv, Locked, HasCart
<1>7. CASE LockCoupons(w)
  <2>1. CASE UNCHANGED rowOwner
    <3>1. /\ pc[w] = "lock_coupons" /\ pc'[w] \in {"lock_coupons", "revalidate"} /\ job' = job
      BY <1>7 DEF LockCoupons, Goto, TypeOK
    <3> QED BY <1>1, <2>1, <3>1 DEF HeldInv, Locked, HasCart
  <2>2. CASE ~UNCHANGED rowOwner
    <3>1. PICK c \in todo[w] : rowOwner' = [rowOwner EXCEPT ![c] = w]
      BY <1>7, <2>2 DEF LockCoupons
    <3>2. pc[w] = "lock_coupons" /\ pc' = pc /\ job' = job /\ c \in Coupons
      BY <1>7, <2>2 DEF LockCoupons, TypeOK
    <3> QED BY <1>2, <3>1, <3>2 DEF HeldInv, Locked, HasCart, Rows
  <2> QED BY <2>1, <2>2
<1>8. ~(CountUse(w) \/ DecrementUse(w) \/ CommitOrder(w))
  BY DEF CountUse, DecrementUse, CommitOrder, RollBack
<1> QED BY <1>3, <1>4, <1>5, <1>6, <1>7, <1>8 DEF Step

LEMMA HeldHolds == Spec => []HeldInv
<1>1. Init => HeldInv
  BY NoneAssumption DEF Init, HeldInv
<1>2. IInv /\ HeldInv /\ [Next]_vars => HeldInv'
  <2> SUFFICES ASSUME IInv, HeldInv, [Next]_vars PROVE HeldInv'
    OBVIOUS
  <2>1. ASSUME NEW w \in Workers, Begin(w) \/ Step(w) PROVE HeldInv'
    BY <2>1, EndedHeld, StepHeld DEF IInv
  <2>2. ASSUME NEW w \in Workers, Interrupt(w) \/ DeadlockVictim(w) PROVE HeldInv'
    BY <2>2, EndedHeld DEF Interrupt, DeadlockVictim, RollBack, IInv
  <2>3. CASE (\E c \in Coupons : Deactivate(c)) \/ UNCHANGED vars
    BY <2>3 DEF Deactivate, vars, HeldInv, Locked
  <2> QED BY <2>1, <2>2, <2>3 DEF Next
<1> QED BY <1>1, <1>2, IInvHolds, PTL DEF Spec

(* However a request ends, its transaction leaves no row locked.           *)
THEOREM NoLockOutlivesItsRequest ==
  Spec => [](\A w \in Workers : pc[w] = "idle" => \A x \in Rows : rowOwner[x] # w)
<1>1. HeldInv => \A w \in Workers : pc[w] = "idle" => \A x \in Rows : rowOwner[x] # w
  BY DEF HeldInv, Locked, HasCart
<1> QED BY <1>1, HeldHolds, PTL

(* A worker in a circle holds what its neighbour waits for: an apply its   *)
(* coupon, a remove or a checkout its cart.                                *)
LEMMA InCircle ==
  ASSUME IInv, HeldInv, NEW S \in SUBSET Workers, Circle(S), NEW s \in S
  PROVE  \/ pc[s] = "lock_cart" /\ job[s].kind = "apply"
         \/ pc[s] \in {"decrement", "lock_coupons"}
<1>1. PICK t \in S, x \in Rows : rowOwner[x] = s
  <2>1. PICK t \in S : WaitsFor(t, s)
    BY DEF Circle
  <2>2. PICK x \in AwaitedRows(t) : rowOwner[x] = s
    BY <2>1 DEF WaitsFor
  <2>3. /\ KindInv(t) /\ job[t] \in Jobs /\ todo[t] \subseteq Coupons
        /\ job[t].kind # "none" => job[t].cart \in Carts
        /\ job[t].kind \in {"apply", "remove"} => job[t].coupon \in Coupons
    BY JobFields DEF IInv, TypeOK, WorkersInv, Known
  <2>4. x \in Rows
    BY <2>2, <2>3 DEF AwaitedRows, KindInv, Rows
  <2> QED BY <2>2, <2>4
<1>2. Locked(s, x)
  BY <1>1 DEF HeldInv
<1>3. AwaitedRows(s) # {}
  BY DEF Circle, WaitsFor
<1>4. pc[s] \in {"lock_coupon", "lock_cart", "decrement", "lock_coupons"}
  BY <1>3 DEF AwaitedRows
<1> QED BY <1>2, <1>4 DEF Locked, HasCart

(* What a worker waits for in "decrement" or "lock_coupons" is a coupon.   *)
LEMMA CouponWaited ==
  ASSUME IInv, HeldInv, NEW v \in Workers, NEW u \in Workers, WaitsFor(v, u),
         pc[v] \in {"decrement", "lock_coupons"}
  PROVE  \/ pc[u] \in {"lock_cart", "check", "insert", "count"} /\ job[u].kind = "apply"
         \/ pc[u] \in {"lock_coupons", "revalidate", "commit"}
<1>1. PICK x \in AwaitedRows(v) : rowOwner[x] = u
  BY DEF WaitsFor
<1>2. x \in Coupons
  <2>1. KindInv(v) /\ job[v] \in Jobs /\ todo[v] \subseteq Coupons
    BY DEF IInv, TypeOK, WorkersInv, Known
  <2> QED BY <1>1, <2>1, JobFields DEF AwaitedRows, KindInv
<1> QED BY <1>1, <1>2, CouponAssumption DEF HeldInv, Locked, Rows

(* A deadlock is an apply, which locks its coupon first, against a remove  *)
(* or a checkout, which lock their cart first, or two checkouts that lock  *)
(* common coupons in different orders.  One order for all would end both.  *)
THEOREM OppositeOrdersDeadlock ==
  Spec => [](\A S \in SUBSET Workers : S # {} /\ Circle(S) =>
               /\ \E v \in S : pc[v] \in {"decrement", "lock_coupons"}
               /\ \/ \E v \in S : pc[v] = "lock_cart" /\ job[v].kind = "apply"
                  \/ \E v, u \in S : v # u /\ pc[v] = "lock_coupons" /\ pc[u] = "lock_coupons")
<1>1. ASSUME IInv, HeldInv, NEW S \in SUBSET Workers, NEW s \in S, Circle(S)
      PROVE  /\ \E v \in S : pc[v] \in {"decrement", "lock_coupons"}
             /\ \/ \E v \in S : pc[v] = "lock_cart" /\ job[v].kind = "apply"
                \/ \E v, u \in S : v # u /\ pc[v] = "lock_coupons" /\ pc[u] = "lock_coupons"
  <2>1. \A v \in S : \/ pc[v] = "lock_cart" /\ job[v].kind = "apply"
                     \/ pc[v] \in {"decrement", "lock_coupons"}
    BY <1>1, InCircle
  <2>2. PICK t \in S : WaitsFor(s, t)
    BY <1>1 DEF Circle
  <2>3. PICK u \in S : WaitsFor(t, u)
    BY <1>1 DEF Circle
  <2>4. \E v \in S : pc[v] \in {"decrement", "lock_coupons"}
    <3> SUFFICES ASSUME pc[s] = "lock_cart", job[s].kind = "apply"
                 PROVE  pc[t] \in {"decrement", "lock_coupons"}
      BY <2>1
    <3>1. rowOwner[job[s].cart] = t /\ job[s].cart \in Carts
      BY <2>2, JobFields, <1>1 DEF WaitsFor, AwaitedRows, IInv, TypeOK
    <3>2. Locked(t, job[s].cart)
      BY <1>1, <3>1 DEF HeldInv, Rows
    <3>3. pc[t] \in HasCart
      BY <3>1, <3>2, CouponAssumption DEF Locked
    <3> QED BY <2>1, <3>3 DEF HasCart
  <2>5. ASSUME \A v \in S : ~(pc[v] = "lock_cart" /\ job[v].kind = "apply")
        PROVE  t # u /\ pc[t] = "lock_coupons" /\ pc[u] = "lock_coupons"
    <3>1. \A v \in S : pc[v] \in {"decrement", "lock_coupons"}
      BY <2>1, <2>5
    <3>2. pc[t] = "lock_coupons"
      BY <1>1, <2>2, <2>5, <3>1, CouponWaited
    <3>3. pc[u] = "lock_coupons"
      BY <1>1, <2>3, <2>5, <3>1, CouponWaited
    <3> QED BY <2>3, <3>2, <3>3 DEF WaitsFor
  <2> QED BY <2>4, <2>5
<1> DEFINE Claim(S) ==
      /\ \E v \in S : pc[v] \in {"decrement", "lock_coupons"}
      /\ \/ \E v \in S : pc[v] = "lock_cart" /\ job[v].kind = "apply"
         \/ \E v, u \in S : v # u /\ pc[v] = "lock_coupons" /\ pc[u] = "lock_coupons"
<1>2. IInv /\ HeldInv => \A S \in SUBSET Workers : S # {} /\ Circle(S) => Claim(S)
  BY <1>1
<1> QED BY <1>2, IInvHolds, HeldHolds, PTL
=============================================================================
