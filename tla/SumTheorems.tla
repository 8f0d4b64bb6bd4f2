---------------------------- MODULE SumTheorems ----------------------------
(***************************************************************************)
(* Facts about sums over finite sets, the SumFunction of module Functions: *)
(* the totals of a cart and the units an initial stock was sold in.  The   *)
(* library defines a sum by recursion over subsets, one chosen element at  *)
(* a time.  That the recursion defines a function, and that the order of   *)
(* the elements does not matter, follows from induction over finite sets,  *)
(* stated here for a set of counterexamples and its minimal members.       *)
(***************************************************************************)
EXTENDS FiniteSetTheorems, TLAPS

(***************************************************************************)
(* Minimal counterexamples                                                 *)
(***************************************************************************)

LEMMA LeastNumber ==
  ASSUME NEW T \in SUBSET Nat, T # {}
  PROVE  \E n \in T : \A m \in T : n <= m
<1> DEFINE R == OpToRel(<, Nat)
<1>1. IsWellFoundedOn(R, Nat)
  BY NatLessThanWellFounded
<1>2. \A m, n \in Nat : m < n => <<m, n>> \in R
  BY DEF OpToRel
<1> HIDE DEF R
<1>3. \E n \in T : \A m \in T : ~(<<m, n>> \in R)
  BY <1>1, WFMin
<1>4. PICK n \in T : \A m \in T : ~(<<m, n>> \in R)
  BY <1>3
<1>5. ASSUME NEW m \in T PROVE n <= m
  <2>1. ~(m < n)
    BY <1>2, <1>4
  <2>2. m \in Nat /\ n \in Nat
    OBVIOUS
  <2> QED BY <2>1, <2>2
<1> QED BY <1>5

(* Among subsets of a finite set there is one none of whose own subsets of *)
(* one element less is among them.                                         *)
LEMMA MinimalSubset ==
  ASSUME NEW S, IsFiniteSet(S), NEW B \in SUBSET (SUBSET S), B # {}
  PROVE  \E U \in B : \A x \in U : U \ {x} \notin B
<1> DEFINE sizes == {Cardinality(U) : U \in B}
<1>1. \A U \in B : IsFiniteSet(U) /\ Cardinality(U) \in Nat
  BY FS_Subset, FS_CardinalityType
<1>2. \E n \in sizes : \A m \in sizes : n <= m
  <2>1. sizes \in SUBSET Nat /\ sizes # {}
    BY <1>1
  <2> QED BY <2>1, LeastNumber
<1>3. PICK U \in B : \A V \in B : Cardinality(U) <= Cardinality(V)
  BY <1>2
<1>4. ASSUME NEW x \in U, U \ {x} \in B PROVE FALSE
  <2>1. Cardinality(U \ {x}) = Cardinality(U) - 1
    BY <1>1, FS_RemoveElement
  <2> QED BY <1>1, <1>3, <1>4, <2>1
<1> QED BY <1>4

-----------------------------------------------------------------------------
(***************************************************************************)
(* The recursion                                                           *)
(***************************************************************************)

Chosen(s) == CHOOSE x \in s : TRUE

(* What the sum of f over s is, if g has the sums over smaller sets.       *)
Rec(f, g, s) == IF s = {} THEN 0 ELSE f[Chosen(s)] + g[s \ {Chosen(s)}]

Sums(f, S) == CHOOSE g : g = [s \in SUBSET S |-> Rec(f, g, s)]

LEMMA SumIsSums ==
  ASSUME NEW f, NEW S
  PROVE  SumFunctionOnSet(f, S) = Sums(f, S)[S]
  BY DEF SumFunctionOnSet, FoldFunctionOnSet, MapThenFoldSet, Sums, Rec, Chosen

LEMMA ChosenIsIn ==
  ASSUME NEW s, s # {}
  PROVE  Chosen(s) \in s
  BY DEF Chosen

Upto(S, n) == {s \in SUBSET S : Cardinality(s) <= n}

LEMMA SumsUpto ==
  ASSUME NEW f, NEW S, IsFiniteSet(S), NEW n \in Nat
  PROVE  \E g : g = [s \in Upto(S, n) |-> Rec(f, g, s)]
<1> DEFINE P(m) == \E g : g = [s \in Upto(S, m) |-> Rec(f, g, s)]
           bad == {m \in Nat : ~P(m)}
<1>0. \A s \in SUBSET S : IsFiniteSet(s) /\ Cardinality(s) \in Nat
  BY FS_Subset, FS_CardinalityType
<1>1. SUFFICES ASSUME bad # {} PROVE FALSE
  OBVIOUS
<1>2. PICK m \in bad : \A k \in bad : m <= k
  BY <1>1, LeastNumber
<1>3. m # 0
  <2>1. \A s \in Upto(S, 0) : s = {}
    BY <1>0, FS_EmptySet DEF Upto
  <2> DEFINE h == [s \in Upto(S, 0) |-> 0]
  <2>2. h = [s \in Upto(S, 0) |-> Rec(f, h, s)]
    BY <2>1 DEF Rec
  <2>3. P(0)
    BY <2>2
  <2> QED BY <2>3
<1>4. m - 1 \in Nat /\ P(m - 1)
  BY <1>2, <1>3
<1>5. PICK g : g = [s \in Upto(S, m - 1) |-> Rec(f, g, s)]
  BY <1>4
<1> DEFINE h == [s \in Upto(S, m) |-> Rec(f, g, s)]
<1>6. Upto(S, m - 1) \subseteq Upto(S, m)
  BY <1>0, <1>4 DEF Upto
<1>7. \A s \in Upto(S, m - 1) : h[s] = g[s]
  BY <1>5, <1>6
<1> HIDE DEF h
<1>8. ASSUME NEW s \in Upto(S, m) PROVE Rec(f, g, s) = Rec(f, h, s)
  <2>1. CASE s = {}
    BY <2>1 DEF Rec
  <2>2. CASE s # {}
    <3>1. Chosen(s) \in s
      BY <2>2, ChosenIsIn
    <3>2. s \in SUBSET S /\ Cardinality(s) <= m
      BY DEF Upto
    <3>3. Cardinality(s \ {Chosen(s)}) = Cardinality(s) - 1
      BY <1>0, <3>1, <3>2, FS_RemoveElement
    <3>4. s \ {Chosen(s)} \in Upto(S, m - 1)
      BY <1>0, <1>4, <3>2, <3>3 DEF Upto
    <3> QED BY <1>7, <3>4 DEF Rec
  <2> QED BY <2>1, <2>2
<1>9. h = [s \in Upto(S, m) |-> Rec(f, h, s)]
  BY <1>8 DEF h
<1>10. P(m)
  BY <1>9
<1> QED BY <1>10

(* The recursion defines a function on all subsets of a finite set.        *)
LEMMA SumsEquation ==
  ASSUME NEW f, NEW S, IsFiniteSet(S), NEW s \in SUBSET S
  PROVE  Sums(f, S)[s] = Rec(f, Sums(f, S), s)
<1>1. Cardinality(S) \in Nat
  BY FS_CardinalityType
<1>2. Upto(S, Cardinality(S)) = SUBSET S
  BY FS_Subset DEF Upto
<1>3. \E g : g = [t \in SUBSET S |-> Rec(f, g, t)]
  <2>1. \E g : g = [t \in Upto(S, Cardinality(S)) |-> Rec(f, g, t)]
    BY <1>1, SumsUpto
  <2> QED BY <1>2, <2>1
<1>4. Sums(f, S) = [t \in SUBSET S |-> Rec(f, Sums(f, S), t)]
  BY <1>3 DEF Sums
<1> QED BY <1>4

(* The sum over a subset does not depend on the set it is a subset of.     *)
LEMMA SumsOfSubset ==
  ASSUME NEW f, NEW S, IsFiniteSet(S), NEW T \in SUBSET S, NEW U \in SUBSET T
  PROVE  Sums(f, S)[U] = Sums(f, T)[U]
<1> DEFINE bad == {V \in SUBSET T : Sums(f, S)[V] # Sums(f, T)[V]}
<1>1. IsFiniteSet(T)
  BY FS_Subset
<1>2. SUFFICES ASSUME bad # {} PROVE FALSE
  OBVIOUS
<1>3. PICK V \in bad : \A x \in V : V \ {x} \notin bad
  <2>1. bad \in SUBSET (SUBSET T)
    OBVIOUS
  <2> HIDE DEF bad
  <2> QED BY <1>1, <1>2, <2>1, MinimalSubset
<1>4. /\ Sums(f, S)[V] = Rec(f, Sums(f, S), V)
      /\ Sums(f, T)[V] = Rec(f, Sums(f, T), V)
  BY <1>1, SumsEquation
<1>5. V # {}
  BY <1>4 DEF Rec
<1>6. Chosen(V) \in V
  BY <1>5, ChosenIsIn
<1>7. Sums(f, S)[V \ {Chosen(V)}] = Sums(f, T)[V \ {Chosen(V)}]
  BY <1>3, <1>6
<1> QED BY <1>4, <1>7 DEF Rec

-----------------------------------------------------------------------------
(***************************************************************************)
(* Sums                                                                    *)
(***************************************************************************)

LEMMA SumEmpty ==
  ASSUME NEW f
  PROVE  SumFunctionOnSet(f, {}) = 0
  BY SumIsSums, SumsEquation, FS_EmptySet DEF Rec

LEMMA SumChosen ==
  ASSUME NEW f, NEW S, IsFiniteSet(S), S # {}
  PROVE  SumFunctionOnSet(f, S) = f[Chosen(S)] + SumFunctionOnSet(f, S \ {Chosen(S)})
<1> DEFINE T == S \ {Chosen(S)}
<1>1. Sums(f, S)[S] = f[Chosen(S)] + Sums(f, S)[T]
  BY SumsEquation DEF Rec
<1>2. Sums(f, S)[T] = Sums(f, T)[T]
  BY SumsOfSubset
<1> QED BY <1>1, <1>2, SumIsSums

(* Induction over the subsets of a finite set for which sums are defined.  *)
LEMMA SumInt ==
  ASSUME NEW f, NEW S, IsFiniteSet(S), \A x \in S : f[x] \in Int
  PROVE  SumFunctionOnSet(f, S) \in Int
<1> DEFINE bad == {V \in SUBSET S : SumFunctionOnSet(f, V) \notin Int}
<1>1. SUFFICES ASSUME bad # {} PROVE FALSE
  OBVIOUS
<1>2. PICK V \in bad : \A x \in V : V \ {x} \notin bad
  <2>1. bad \in SUBSET (SUBSET S)
    OBVIOUS
  <2> HIDE DEF bad
  <2> QED BY <1>1, <2>1, MinimalSubset
<1>3. V # {}
  BY SumEmpty
<1>4. IsFiniteSet(V)
  BY FS_Subset
<1>5. Chosen(V) \in V
  BY <1>3, ChosenIsIn
<1>6. SumFunctionOnSet(f, V \ {Chosen(V)}) \in Int
  BY <1>2, <1>5
<1>7. f[Chosen(V)] \in Int
  BY <1>5
<1> QED BY <1>3, <1>4, <1>6, <1>7, SumChosen

LEMMA SumNat ==
  ASSUME NEW f, NEW S, IsFiniteSet(S), \A x \in S : f[x] \in Nat
  PROVE  SumFunctionOnSet(f, S) \in Nat
<1> DEFINE bad == {V \in SUBSET S : SumFunctionOnSet(f, V) \notin Nat}
<1>1. SUFFICES ASSUME bad # {} PROVE FALSE
  OBVIOUS
<1>2. PICK V \in bad : \A x \in V : V \ {x} \notin bad
  <2>1. bad \in SUBSET (SUBSET S)
    OBVIOUS
  <2> HIDE DEF bad
  <2> QED BY <1>1, <2>1, MinimalSubset
<1>3. V # {}
  BY SumEmpty
<1>4. IsFiniteSet(V)
  BY FS_Subset
<1>5. Chosen(V) \in V
  BY <1>3, ChosenIsIn
<1>6. SumFunctionOnSet(f, V \ {Chosen(V)}) \in Nat
  BY <1>2, <1>5
<1>7. f[Chosen(V)] \in Nat
  BY <1>5
<1> QED BY <1>3, <1>4, <1>6, <1>7, SumChosen

(* The order does not matter: any element may be the first.                *)
LEMMA SumStep ==
  ASSUME NEW f, NEW S, IsFiniteSet(S), \A x \in S : f[x] \in Int, NEW e \in S
  PROVE  SumFunctionOnSet(f, S) = f[e] + SumFunctionOnSet(f, S \ {e})
<1> DEFINE Sum(V) == SumFunctionOnSet(f, V)
           bad == {V \in SUBSET S : \E x \in V : Sum(V) # f[x] + Sum(V \ {x})}
<1>1. SUFFICES ASSUME bad # {} PROVE FALSE
  OBVIOUS
<1>2. PICK V \in bad : \A x \in V : V \ {x} \notin bad
  <2>1. bad \in SUBSET (SUBSET S)
    OBVIOUS
  <2> HIDE DEF bad
  <2> QED BY <1>1, <2>1, MinimalSubset
<1>3. PICK x \in V : Sum(V) # f[x] + Sum(V \ {x})
  BY <1>2
<1> DEFINE c == Chosen(V)
           W == V \ {x, c}
<1>4. IsFiniteSet(V)
  BY FS_Subset
<1>5. c \in V /\ Sum(V) = f[c] + Sum(V \ {c})
  BY <1>3, <1>4, ChosenIsIn, SumChosen
<1>6. x # c
  BY <1>3, <1>5
<1>7. Sum(V \ {c}) = f[x] + Sum(W)
  <2>1. V \ {c} \notin bad
    BY <1>2, <1>5
  <2>2. (V \ {c}) \ {x} = W /\ x \in V \ {c} /\ V \ {c} \in SUBSET S
    BY <1>6
  <2> HIDE DEF c, W, Sum
  <2> QED BY <2>1, <2>2
<1>8. Sum(V \ {x}) = f[c] + Sum(W)
  <2>1. V \ {x} \notin bad
    BY <1>2
  <2>2. (V \ {x}) \ {c} = W /\ c \in V \ {x} /\ V \ {x} \in SUBSET S
    BY <1>5, <1>6
  <2> HIDE DEF c, W, Sum
  <2> QED BY <2>1, <2>2
<1>9. f[x] \in Int /\ f[c] \in Int /\ Sum(W) \in Int
  <2>1. IsFiniteSet(W) /\ W \subseteq S
    BY <1>4, FS_Subset
  <2>2. Sum(W) \in Int
    BY <2>1, SumInt
  <2> QED BY <1>5, <2>2
<1> HIDE DEF c, W, Sum
<1>10. Sum(V) = f[c] + (f[x] + Sum(W))
  BY <1>5, <1>7
<1>11. Sum(V) = f[x] + (f[c] + Sum(W))
  BY <1>9, <1>10
<1> QED BY <1>3, <1>8, <1>11

(* Only the values on the set count.                                       *)
LEMMA SumSame ==
  ASSUME NEW f, NEW g, NEW S, IsFiniteSet(S), \A x \in S : f[x] = g[x]
  PROVE  SumFunctionOnSet(f, S) = SumFunctionOnSet(g, S)
<1> DEFINE bad == {V \in SUBSET S : SumFunctionOnSet(f, V) # SumFunctionOnSet(g, V)}
<1>1. SUFFICES ASSUME bad # {} PROVE FALSE
  OBVIOUS
<1>2. PICK V \in bad : \A x \in V : V \ {x} \notin bad
  <2>1. bad \in SUBSET (SUBSET S)
    OBVIOUS
  <2> HIDE DEF bad
  <2> QED BY <1>1, <2>1, MinimalSubset
<1>3. V # {}
  BY SumEmpty
<1>4. IsFiniteSet(V)
  BY FS_Subset
<1>5. Chosen(V) \in V
  BY <1>3, ChosenIsIn
<1>6. SumFunctionOnSet(f, V \ {Chosen(V)}) = SumFunctionOnSet(g, V \ {Chosen(V)})
  BY <1>2, <1>5
<1>7. f[Chosen(V)] = g[Chosen(V)]
  BY <1>5
<1> QED BY <1>2, <1>3, <1>4, <1>6, <1>7, SumChosen

-----------------------------------------------------------------------------
(***************************************************************************)
(* The sum of a function                                                   *)
(***************************************************************************)

(* Nothing adds up to nothing.                                             *)
LEMMA SumFunctionEmpty ==
  ASSUME NEW f, DOMAIN f = {}
  PROVE  SumFunction(f) = 0
  BY SumEmpty DEF SumFunction

(* The sum of naturals is a natural.                                       *)
LEMMA SumFunctionNat ==
  ASSUME NEW f, IsFiniteSet(DOMAIN f), \A x \in DOMAIN f : f[x] \in Nat
  PROVE  SumFunction(f) \in Nat
  BY SumNat DEF SumFunction

(* One element more adds its value.                                        *)
LEMMA SumFunctionAdd ==
  ASSUME NEW f, IsFiniteSet(DOMAIN f), NEW e, e \notin DOMAIN f,
         NEW g, DOMAIN g = DOMAIN f \cup {e},
         \A x \in DOMAIN f : g[x] = f[x], \A x \in DOMAIN g : g[x] \in Int
  PROVE  SumFunction(g) = SumFunction(f) + g[e]
<1> DEFINE S == DOMAIN f
           T == S \cup {e}
<1>1. IsFiniteSet(T) /\ T \ {e} = S
  BY FS_AddElement
<1>2. SumFunctionOnSet(g, T) = g[e] + SumFunctionOnSet(g, T \ {e})
  <2> HIDE DEF T
  <2> QED BY <1>1, SumStep DEF T
<1>3. SumFunctionOnSet(f, S) = SumFunctionOnSet(g, S)
  BY SumSame
<1>4. SumFunctionOnSet(g, S) \in Int /\ g[e] \in Int
  BY SumInt
<1>5. SumFunction(f) = SumFunctionOnSet(f, S) /\ SumFunction(g) = SumFunctionOnSet(g, T)
  BY DEF SumFunction
<1>6. SumFunctionOnSet(g, T \ {e}) = SumFunctionOnSet(g, S)
  BY <1>1
<1> HIDE DEF T
<1> QED BY <1>2, <1>3, <1>4, <1>5, <1>6

(* A part is no more than the whole.                                       *)
LEMMA SumFunctionPart ==
  ASSUME NEW f, IsFiniteSet(DOMAIN f), \A x \in DOMAIN f : f[x] \in Nat, NEW e \in DOMAIN f
  PROVE  f[e] <= SumFunction(f)
<1> DEFINE S == DOMAIN f
<1>1. SumFunctionOnSet(f, S) = f[e] + SumFunctionOnSet(f, S \ {e})
  BY SumStep
<1>2. SumFunctionOnSet(f, S \ {e}) \in Nat
  BY FS_Subset, SumNat
<1> QED BY <1>1, <1>2 DEF SumFunction
=============================================================================
