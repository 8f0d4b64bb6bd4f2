----------------------------- MODULE CartCache -----------------------------
(***************************************************************************)
(* The read cache of a user's cart (apps/core/cache.py) with its reader,   *)
(* CartReadView (apps/cart/views.py), and the mutations that invalidate it *)
(* after their commit.  One Redis key, cart:read:{tenant}:{user}; other    *)
(* users have other keys.  A reader that hits answers with the entry and   *)
(* changes nothing, nor does a mutation that rolls back.                   *)
(***************************************************************************)
EXTENDS Naturals

CONSTANTS
  Readers, Writers,
  MaxWrites,  \* bound: mutations of the cart
  MaxFaults,  \* bound: failing Redis calls and dying processes
  None

ASSUME CacheAssumption == MaxWrites \in Nat /\ MaxFaults \in Nat

VARIABLES
  version,   \* committed mutations of the user's ACTIVE cart
  entry,     \* the cached payload, or None
  readerPc,
  payload,   \* what each reader has fetched
  deleting,  \* writers that have committed and whose DEL is due
  suspect,   \* history: the entry outlived a DEL, or was read across a commit
  faults

vars == <<version, entry, readerPc, payload, deleting, suspect, faults>>

Payloads == [row : 0..MaxWrites, lines : 0..MaxWrites, expires : BOOLEAN]
Empty == [row |-> 0, lines |-> 0, expires |-> TRUE]

Outdated(p) == p.row # version \/ p.lines # version
Stale == entry # None /\ Outdated(entry)

Init ==
  /\ version = 0
  /\ entry = None
  /\ readerPc = [r \in Readers |-> "idle"]
  /\ payload = [r \in Readers |-> Empty]
  /\ deleting = {}
  /\ suspect = FALSE
  /\ faults = 0

Fault == faults < MaxFaults /\ faults' = faults + 1
Goto(r, phase) == readerPc' = [readerPc EXCEPT ![r] = phase]

-----------------------------------------------------------------------------
(* CartReadView.get *)

(* GET finds nothing, or fails, which counts as a miss; then the cart row  *)
(* is read (and created if the user has none).                             *)
Miss(r) ==
  /\ readerPc[r] = "idle"
  /\ \/ entry = None /\ UNCHANGED faults
     \/ entry # None /\ Fault
  /\ payload' = [payload EXCEPT ![r] = [row |-> version, lines |-> 0, expires |-> TRUE]]
  /\ Goto(r, "lines")
  /\ UNCHANGED <<version, entry, deleting, suspect>>

(* The serializer queries the lines, in another statement and snapshot.    *)
Serialize(r) ==
  /\ readerPc[r] = "lines"
  /\ payload' = [payload EXCEPT ![r].lines = version]
  /\ Goto(r, "fill")
  /\ UNCHANGED <<version, entry, deleting, suspect, faults>>

(* Mutation: SET without EX. *)
FillForever(r) ==
  /\ readerPc[r] = "fill"
  /\ entry' = [payload[r] EXCEPT !.expires = FALSE]
  /\ suspect' = Outdated(payload[r])
  /\ payload' = [payload EXCEPT ![r] = Empty]
  /\ Goto(r, "idle")
  /\ UNCHANGED <<version, deleting, faults>>

(* Mutation: only the lines are cached. *)
FillLines(r) ==
  /\ readerPc[r] = "fill"
  /\ entry' = [lines |-> payload[r].lines, expires |-> TRUE]
  /\ suspect' = Outdated(payload[r])
  /\ payload' = [payload EXCEPT ![r] = Empty]
  /\ Goto(r, "idle")
  /\ UNCHANGED <<version, deleting, faults>>

(* SET with the TTL; the answer is sent. *)
Fill(r) ==
  /\ readerPc[r] = "fill"
  /\ entry' = payload[r]
  /\ suspect' = Outdated(payload[r])
  /\ payload' = [payload EXCEPT ![r] = Empty]
  /\ Goto(r, "idle")
  /\ UNCHANGED <<version, deleting, faults>>

(* SET fails, which is only logged, or the reader dies. *)
ReaderFails(r) ==
  /\ readerPc[r] # "idle"
  /\ Fault
  /\ payload' = [payload EXCEPT ![r] = Empty]
  /\ Goto(r, "idle")
  /\ UNCHANGED <<version, entry, deleting, suspect>>

-----------------------------------------------------------------------------
(* A mutation of the cart *)

(* Mutation: the mutator forgets schedule_cart_cache_invalidation. *)
CommitUnscheduled(w) ==
  /\ w \notin deleting
  /\ version < MaxWrites
  /\ version' = version + 1
  /\ UNCHANGED <<entry, readerPc, payload, deleting, suspect, faults>>

(* The transaction commits; its on_commit hook is next. *)
Commit(w) ==
  /\ w \notin deleting
  /\ version < MaxWrites
  /\ version' = version + 1
  /\ deleting' = deleting \cup {w}
  /\ UNCHANGED <<entry, readerPc, payload, suspect, faults>>

(* invalidate_cart_cache *)
Invalidate(w) ==
  /\ w \in deleting
  /\ entry' = None
  /\ suspect' = FALSE
  /\ deleting' = deleting \ {w}
  /\ UNCHANGED <<version, readerPc, payload, faults>>

(* DEL fails, which is only logged, or the process dies before it. *)
InvalidateFails(w) ==
  /\ w \in deleting
  /\ Fault
  /\ suspect' = Stale
  /\ deleting' = deleting \ {w}
  /\ UNCHANGED <<version, entry, readerPc, payload>>

(* The TTL runs out. *)
Expire ==
  /\ entry # None
  /\ entry.expires
  /\ entry' = None
  /\ suspect' = FALSE
  /\ UNCHANGED <<version, readerPc, payload, deleting, faults>>

-----------------------------------------------------------------------------
Next ==
  \/ \E r \in Readers : Miss(r) \/ Serialize(r) \/ Fill(r) \/ ReaderFails(r)
  \/ \E w \in Writers : Commit(w) \/ Invalidate(w) \/ InvalidateFails(w)
  \/ Expire

Spec == Init /\ [][Next]_vars

(* Redis expires what it was told to; nobody has to read or write. *)
FairSpec == Spec /\ WF_vars(Expire)

-----------------------------------------------------------------------------
(* Properties *)

TypeOK ==
  /\ version \in 0..MaxWrites
  /\ entry \in Payloads \cup {None}
  /\ readerPc \in [Readers -> {"idle", "lines", "fill"}]
  /\ payload \in [Readers -> Payloads]
  /\ deleting \subseteq Writers
  /\ suspect \in BOOLEAN
  /\ faults \in 0..MaxFaults

(* Every commit purges what it made stale: an outdated entry is there only *)
(* while its DEL is due, after a DEL that failed, or when a reader fetched *)
(* it across the commit.                                                   *)
StaleNeedsOverlap == Stale => deleting # {} \/ suspect

(* "The TTL will evict the entry eventually": whatever went wrong, a stale *)
(* entry does not stay.                                                    *)
EventuallyFresh == Stale ~> ~Stale
=============================================================================
