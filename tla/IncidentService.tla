--------------------------- MODULE IncidentService ---------------------------
(***************************************************************************)
(* The incident service of service.py behind POST /api/events, GET         *)
(* /api/incidents/{id} and POST /api/incidents/{id}/approve.  Every        *)
(* operation runs under the service's RLock; the handler then builds its   *)
(* response from the incident object after the lock is released, while     *)
(* other requests may already change that object or evict it.              *)
(***************************************************************************)
EXTENDS Integers, Sequences, FiniteSets, Functions

CONSTANTS
  Fingerprints,  \* what a report is recognised by: event type and link
  Known,         \* those that analyze_link_down accepts
  MaxIncidents,  \* retained incidents (max_incidents)
  Window,        \* the deduplication window
  Slots,         \* slots of the API's thread pool
  MaxNow,        \* bound on the clock
  MaxIds         \* bound on the incidents ever opened

ASSUME IncidentAssumption ==
  /\ Known \subseteq Fingerprints
  /\ MaxIncidents \in Nat \ {0}
  /\ Window \in Nat \ {0}
  /\ MaxNow \in Nat /\ MaxIds \in Nat

VARIABLES
  now,       \* the monotonic clock
  heap,      \* the incident objects in the order they were made: id = position
  retained,  \* the keys of _incidents, an OrderedDict: insertion order = id order
  index,     \* _incident_id_by_fingerprint
  lastSeen,  \* _last_seen_by_fingerprint
  slot       \* the operation a request has performed and the incident it holds

vars == <<now, heap, retained, index, lastSeen, slot>>

Incidents == [fp : Fingerprints, opened : 0..MaxNow, status : {"awaiting", "approved"}]

Idle == [op |-> "none", id |-> 0]

TypeOK ==
  /\ now \in 0..MaxNow
  /\ heap \in Seq(Incidents) /\ Len(heap) <= MaxIds
  /\ retained \subseteq 1..Len(heap)
  /\ Cardinality(retained) <= MaxIncidents
  /\ index \in [DOMAIN index -> retained] /\ DOMAIN index \subseteq Known
  /\ lastSeen \in [DOMAIN index -> 0..now]
  /\ slot \in [Slots -> {Idle} \cup
                        [op : {"ingest", "get", "approve"}, id : 1..Len(heap)]]

Init ==
  /\ now = 0
  /\ heap = <<>>
  /\ retained = {}
  /\ index = <<>>
  /\ lastSeen = <<>>
  /\ slot = [q \in Slots |-> Idle]
-----------------------------------------------------------------------------
(* Evicting one incident too few.                                          *)
MutNewest(ids) == {i \in ids : Cardinality({j \in ids : j > i}) <= MaxIncidents}

(* What the eviction loop leaves of ids: the MaxIncidents newest.          *)
Newest(ids) == {i \in ids : Cardinality({j \in ids : j > i}) < MaxIncidents}

(* Forgetting whatever entry an evicted incident's fingerprint has.        *)
MutSurvivesStale(f, id, kept) == \A i \in retained \ kept : heap[i].fp # f

(* The entry of fingerprint f survives unless it points at an evicted one. *)
Survives(f, id, kept) ==
  \A i \in retained \ kept : heap[i].fp = f => id # i

(* Leaving the far end of the window out.                                  *)
MutAbsorbsStrict(f) ==
  /\ f \in DOMAIN index
  /\ heap[index[f]].status = "awaiting"
  /\ now - lastSeen[f] \in 0..(Window - 1)

(* Absorbing a recurrence whatever became of the incident.                 *)
MutAbsorbs(f) == f \in DOMAIN index /\ now - lastSeen[f] \in 0..Window

(* The report repeats one that an open incident already stands for.        *)
Absorbs(f) ==
  /\ f \in DOMAIN index
  /\ heap[index[f]].status = "awaiting"
  /\ now - lastSeen[f] \in 0..Window

Hold(q, op, id) ==
  /\ slot[q] = Idle
  /\ slot' = [slot EXCEPT ![q] = [op |-> op, id |-> id]]

(* Reopening an incident that was approved instead of opening another.     *)
MutIngestDuplicate(q, f) ==
  /\ f \in DOMAIN index
  /\ heap' = [heap EXCEPT ![index[f]].status = "awaiting"]
  /\ lastSeen' = [lastSeen EXCEPT ![f] = now]
  /\ Hold(q, "ingest", index[f])
  /\ UNCHANGED <<now, retained, index>>

(* ingest, a repetition: the window slides.                                *)
IngestDuplicate(q, f) ==
  /\ Absorbs(f)
  /\ lastSeen' = [lastSeen EXCEPT ![f] = now]
  /\ Hold(q, "ingest", index[f])
  /\ UNCHANGED <<now, heap, retained, index>>

(* ingest, a new incident: it takes over its fingerprint, and the oldest   *)
(* incidents beyond the capacity go, open or not.                          *)
IngestNew(q, f) ==
  LET id   == Len(heap) + 1
      ids  == Newest(retained \cup {id})
      all  == [g \in DOMAIN index \cup {f} |-> IF g = f THEN id ELSE index[g]]
      keep == {g \in DOMAIN all : Survives(g, all[g], ids)}
  IN  /\ id <= MaxIds
      /\ f \in Known /\ ~Absorbs(f)
      /\ heap' = Append(heap, [fp |-> f, opened |-> now, status |-> "awaiting"])
      /\ retained' = ids
      /\ index' = Restrict(all, keep)
      /\ lastSeen' = [g \in keep |-> IF g = f THEN now ELSE lastSeen[g]]
      /\ Hold(q, "ingest", id)
      /\ UNCHANGED now

(* ingest, a report the analysis refuses: 400 before anything changes.     *)
IngestRejected(q, f) == f \notin Known /\ slot[q] = Idle /\ UNCHANGED vars

(* get.                                                                    *)
Get(q, id) ==
  /\ id \in retained
  /\ Hold(q, "get", id)
  /\ UNCHANGED <<now, heap, retained, index, lastSeen>>

(* approve, approve_recovery.                                              *)
Approve(q, id) ==
  /\ id \in retained
  /\ heap[id].status = "awaiting"
  /\ heap' = [heap EXCEPT ![id].status = "approved"]
  /\ Hold(q, "approve", id)
  /\ UNCHANGED <<now, retained, index, lastSeen>>

(* get and approve: 404 for an unknown incident, 409 for an approved one.  *)
Refused(q, id) ==
  /\ slot[q] = Idle
  /\ id \in retained => heap[id].status = "approved"
  /\ UNCHANGED vars

(* The handler reads the incident, whatever it has become, and answers.    *)
Answer(q) ==
  /\ slot[q] # Idle
  /\ slot' = [slot EXCEPT ![q] = Idle]
  /\ UNCHANGED <<now, heap, retained, index, lastSeen>>

(* The process restarts; nothing is persisted.                             *)
Restart ==
  /\ retained' = {} /\ index' = <<>> /\ lastSeen' = <<>>
  /\ slot' = [q \in Slots |-> Idle]
  /\ UNCHANGED <<now, heap>>

Tick ==
  /\ now < MaxNow
  /\ now' = now + 1
  /\ UNCHANGED <<heap, retained, index, lastSeen, slot>>

Next ==
  \/ \E q \in Slots :
       \/ \E f \in Fingerprints :
            IngestDuplicate(q, f) \/ IngestNew(q, f) \/ IngestRejected(q, f)
       \/ \E id \in 1..Len(heap) : Get(q, id) \/ Approve(q, id) \/ Refused(q, id)
       \/ Answer(q)
  \/ Restart
  \/ Tick

Spec == Init /\ [][Next]_vars
-----------------------------------------------------------------------------
(* The index never dangles and is never stale: it knows exactly the        *)
(* fingerprints that have a retained incident, and names the newest of     *)
(* each.  ingest looks index entries up in _incidents without a guard.     *)
IndexIsExact ==
  /\ DOMAIN index = {heap[i].fp : i \in retained}
  /\ \A f \in DOMAIN index :
       /\ index[f] \in retained /\ heap[index[f]].fp = f
       /\ \A i \in retained : heap[i].fp = f => i <= index[f]

(* A burst of reports opens one incident: while an incident awaits its     *)
(* approval, the next one for the same link was opened more than the       *)
(* window after it, across evictions and approvals of other incidents.     *)
BurstsCollapse ==
  \A i, j \in retained :
    i < j /\ heap[i].fp = heap[j].fp /\ heap[i].status = "awaiting"
      => heap[j].opened - heap[i].opened > Window

(* The incident is retained, awaits approval and is the one that reports   *)
(* with its fingerprint find.                                              *)
StandsOpen(id) ==
  /\ id \in retained /\ heap[id].status = "awaiting"
  /\ heap[id].fp \in DOMAIN index /\ index[heap[id].fp] = id

(* A recurrence is never hidden: at the moment a report is attributed to   *)
(* an incident, that incident is open, whatever was approved or evicted    *)
(* in between.                                                             *)
ReportsReachOpenIncidents ==
  [][\A q \in Slots :
       slot[q] = Idle /\ slot'[q].op = "ingest" => StandsOpen(slot[q].id)']_vars

(* The answer to an approval, read after the lock is released, says        *)
(* "approved": no recurrence and no eviction takes an approval back.       *)
ApprovalsStand ==
  \A q \in Slots : slot[q].op = "approve" => heap[slot[q].id].status = "approved"
=============================================================================
