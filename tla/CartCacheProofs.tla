-------------------------- MODULE CartCacheProofs --------------------------
(* Proofs about CartCache, for any readers, writers and bounds. *)
EXTENDS CartCache, TLAPS

IInv == TypeOK /\ StaleNeedsOverlap

LEMMA TypeInductive == TypeOK /\ [Next]_vars => TypeOK'
<1> SUFFICES ASSUME TypeOK, [Next]_vars PROVE TypeOK'
  OBVIOUS
<1> USE CacheAssumption DEF TypeOK, Payloads, Empty
<1>1. ASSUME NEW r \in Readers, Miss(r) PROVE TypeOK'
  <2>1. [row |-> version, lines |-> 0, expires |-> TRUE] \in Payloads
    OBVIOUS
  <2>2. payload' \in [Readers -> Payloads]
    BY <1>1, <2>1 DEF Miss
  <2>3. faults' \in 0..MaxFaults
    BY <1>1 DEF Miss, Fault
  <2> QED BY <1>1, <2>2, <2>3 DEF Miss, Goto
<1>2. ASSUME NEW r \in Readers, Serialize(r) PROVE TypeOK'
  <2>1. payload' \in [Readers -> Payloads]
    BY <1>2 DEF Serialize
  <2> QED BY <1>2, <2>1 DEF Serialize, Goto
<1>3. ASSUME NEW r \in Readers, Fill(r) PROVE TypeOK'
  BY <1>3 DEF Fill, Goto, Outdated
<1>4. ASSUME NEW r \in Readers, ReaderFails(r) PROVE TypeOK'
  BY <1>4 DEF ReaderFails, Goto, Fault
<1>5. ASSUME NEW w \in Writers, Commit(w) PROVE TypeOK'
  BY <1>5 DEF Commit
<1>6. ASSUME NEW w \in Writers, Invalidate(w) PROVE TypeOK'
  BY <1>6 DEF Invalidate
<1>7. ASSUME NEW w \in Writers, InvalidateFails(w) PROVE TypeOK'
  BY <1>7 DEF InvalidateFails, Stale, Outdated, Fault
<1>8. CASE Expire
  BY <1>8 DEF Expire
<1>9. CASE UNCHANGED vars
  BY <1>9 DEF vars
<1> QED BY <1>1, <1>2, <1>3, <1>4, <1>5, <1>6, <1>7, <1>8, <1>9 DEF Next

(* The entry changes only by a fill, which says of itself whether it is    *)
(* late, and by its removal; the version changes only by a commit, which   *)
(* owes a DEL; and a DEL that is given up leaves its suspicion behind.     *)
LEMMA OverlapInductive == StaleNeedsOverlap /\ [Next]_vars => StaleNeedsOverlap'
<1> SUFFICES ASSUME StaleNeedsOverlap, [Next]_vars PROVE StaleNeedsOverlap'
  OBVIOUS
<1> USE DEF StaleNeedsOverlap, Stale, Outdated
<1>1. ASSUME NEW r \in Readers, Miss(r) \/ Serialize(r) \/ ReaderFails(r)
      PROVE  StaleNeedsOverlap'
  BY <1>1 DEF Miss, Serialize, ReaderFails
<1>2. ASSUME NEW r \in Readers, Fill(r) PROVE StaleNeedsOverlap'
  BY <1>2 DEF Fill
<1>3. ASSUME NEW w \in Writers, Commit(w) PROVE StaleNeedsOverlap'
  BY <1>3 DEF Commit
<1>4. ASSUME NEW w \in Writers, Invalidate(w) PROVE StaleNeedsOverlap'
  BY <1>4 DEF Invalidate
<1>5. ASSUME NEW w \in Writers, InvalidateFails(w) PROVE StaleNeedsOverlap'
  BY <1>5 DEF InvalidateFails
<1>6. CASE Expire
  BY <1>6 DEF Expire
<1>7. CASE UNCHANGED vars
  BY <1>7 DEF vars
<1> QED BY <1>1, <1>2, <1>3, <1>4, <1>5, <1>6, <1>7 DEF Next

(* The purge after each commit leaves no stale entry but the three kinds   *)
(* that StaleNeedsOverlap names, however many readers and writers race.    *)
THEOREM PurgedAfterCommit == Spec => []IInv
<1>1. Init => IInv
  <2>1. Empty \in Payloads
    BY CacheAssumption DEF Empty, Payloads
  <2>2. Init => payload \in [Readers -> Payloads]
    <3> SUFFICES ASSUME Init PROVE payload \in [Readers -> Payloads]
      OBVIOUS
    <3>1. payload = [r \in Readers |-> Empty]
      BY DEF Init
    <3> QED BY <2>1, <3>1, Zenon
  <2>3. Init => TypeOK
    <3>1. Init => suspect \in BOOLEAN /\ deleting \subseteq Writers
      BY Zenon DEF Init
    <3>2. Init => version \in 0..MaxWrites /\ faults \in 0..MaxFaults
      BY CacheAssumption DEF Init
    <3>3. Init => entry \in Payloads \cup {None}
      BY DEF Init
    <3>4. Init => readerPc \in [Readers -> {"idle", "lines", "fill"}]
      BY DEF Init
    <3> QED BY <2>2, <3>1, <3>2, <3>3, <3>4, Zenon DEF TypeOK
  <2>4. Init => StaleNeedsOverlap
    BY DEF Init, StaleNeedsOverlap, Stale
  <2> QED BY <2>3, <2>4 DEF IInv
<1>2. IInv /\ [Next]_vars => IInv'
  BY TypeInductive, OverlapInductive DEF IInv
<1> QED BY <1>1, <1>2, PTL DEF Spec

(* TypeOK, for any readers and writers. *)
THEOREM TypeCorrect == Spec => []TypeOK
<1>1. IInv => TypeOK
  BY DEF IInv
<1> QED BY <1>1, PurgedAfterCommit, PTL

(* StaleNeedsOverlap, for any readers and writers: cache.py purges after   *)
(* the commit, never before it and never without it.                       *)
THEOREM StaleOnlyByOverlap == Spec => []StaleNeedsOverlap
<1>1. IInv => StaleNeedsOverlap
  BY DEF IInv
<1> QED BY <1>1, PurgedAfterCommit, PTL

-----------------------------------------------------------------------------
(* No reader carries, and nobody stores, a payload without a TTL. *)
ExpiryInv ==
  /\ \A r \in Readers : payload[r].expires
  /\ entry # None => entry.expires

LEMMA ExpiryInductive == TypeOK /\ ExpiryInv /\ [Next]_vars => ExpiryInv'
<1> SUFFICES ASSUME TypeOK, ExpiryInv, [Next]_vars PROVE ExpiryInv'
  OBVIOUS
<1> USE DEF ExpiryInv
<1>0. payload \in [Readers -> Payloads]
  BY DEF TypeOK
<1>1. ASSUME NEW r \in Readers, Miss(r) PROVE ExpiryInv'
  BY <1>0, <1>1 DEF Miss
<1>2. ASSUME NEW r \in Readers, Serialize(r) PROVE ExpiryInv'
  <2>1. \A s \in Readers : payload'[s].expires = payload[s].expires
    BY <1>0, <1>2 DEF Serialize, Payloads
  <2> QED BY <1>2, <2>1 DEF Serialize
<1>3. ASSUME NEW r \in Readers, Fill(r) PROVE ExpiryInv'
  BY <1>0, <1>3 DEF Fill, Empty
<1>4. ASSUME NEW r \in Readers, ReaderFails(r) PROVE ExpiryInv'
  BY <1>0, <1>4 DEF ReaderFails, Empty
<1>5. ASSUME NEW w \in Writers, Commit(w) \/ Invalidate(w) \/ InvalidateFails(w)
      PROVE  ExpiryInv'
  BY <1>5 DEF Commit, Invalidate, InvalidateFails
<1>6. CASE Expire
  BY <1>6 DEF Expire
<1>7. CASE UNCHANGED vars
  BY <1>7 DEF vars
<1> QED BY <1>1, <1>2, <1>3, <1>4, <1>5, <1>6, <1>7 DEF Next

(* The SET of CartReadView is the only one and carries the TTL, so whatever *)
(* stale entry the three causes leave can expire: the safety part of        *)
(* EventuallyFresh.                                                         *)
THEOREM EveryEntryExpires == Spec => [](entry # None => entry.expires)
<1>1. Init => ExpiryInv
  BY DEF Init, ExpiryInv, Empty
<1>2. IInv /\ ExpiryInv /\ [Next]_vars => ExpiryInv'
  BY ExpiryInductive DEF IInv
<1>3. ExpiryInv => (entry # None => entry.expires)
  BY DEF ExpiryInv
<1> QED BY <1>1, <1>2, <1>3, PurgedAfterCommit, PTL DEF Spec
=============================================================================
