--------------------------- MODULE TelemetryStore ---------------------------
(***************************************************************************)
(* The bounded snapshot repository of telemetry_store.py, as operators on  *)
(* the set of snapshots it holds.  The in-memory TelemetryStore (one       *)
(* RLock) and SQLiteTelemetryStore (one BEGIN IMMEDIATE transaction) run   *)
(* the same algorithm atomically.  They order by different keys: the       *)
(* former by (datetime, id), the latter by the text of both.  The texts    *)
(* sort like the times because TelemetrySnapshot converts every            *)
(* observed_at to UTC, so the numbers of this model stand for either key.  *)
(***************************************************************************)
EXTENDS Naturals, FiniteSets

CONSTANTS
  Snapshots,     \* the snapshots clients may send: [id, at, fp, body]
  Fingerprints,  \* topology fingerprints
  Bodies,        \* router payloads
  Capacity,      \* how many snapshots are retained, over all fingerprints
  NoSnapshot     \* Python's None

ASSUME SnapshotsAssumption ==
  /\ Snapshots \subseteq [id : Nat, at : Nat, fp : Fingerprints, body : Bodies]
  /\ NoSnapshot \notin Snapshots

ASSUME CapacityAssumption == Capacity \in Nat \ {0}

(* _sort_key: by observation time, ties broken by the snapshot id.         *)
KeyLess(s, t) ==
  \/ s.at < t.at
  \/ s.at = t.at /\ s.id < t.id

(* Two ways to get the cut wrong: none at all, or the wrong end of it.      *)
MutNewestUncut(S) == S
MutNewestAscending(S) ==
  {s \in S : Cardinality({t \in S : KeyLess(t, s)}) < Capacity}

(* What a sort by key, newest first, followed by a cut at Capacity keeps.  *)
Newest(S) ==
  {s \in S : Cardinality({t \in S : KeyLess(s, t)}) < Capacity}

HasId(S, id) == \E t \in S : t.id = id

(* save raises ValueError: the id is held with another payload.            *)
Conflicts(S, s) == \E t \in S : t.id = s.id /\ t # s

(* Inserting without asking whether the cut will keep the newcomer.        *)
MutTooOld(S, s) == FALSE

(* A full store turns away what is not newer than its oldest snapshot.     *)
TooOld(S, s) ==
  /\ Cardinality(S) >= Capacity
  /\ \A t \in S : ~KeyLess(t, s)

(* save returns True.                                                      *)
Creates(S, s) == ~HasId(S, s.id) /\ ~TooOld(S, s)

AfterSave(S, s) == IF Creates(S, s) THEN Newest(S \cup {s}) ELSE S

OfTopology(S, fp) == {s \in S : s.fp = fp}

Latest(S, fp) ==
  IF OfTopology(S, fp) = {}
  THEN NoSnapshot
  ELSE CHOOSE s \in OfTopology(S, fp) :
         \A t \in OfTopology(S, fp) : ~KeyLess(s, t)
=============================================================================
