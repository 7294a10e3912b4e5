--------------------------- MODULE TelemetryIngest ---------------------------
(***************************************************************************)
(* POST /api/telemetry/snapshots.  FastAPI runs the synchronous handler in *)
(* a thread pool, so several requests are in flight at once.  The handler  *)
(* validates, reads the latest snapshot, saves and, when save reports that *)
(* nothing was created, reads the store once more: each store call is      *)
(* atomic, the sequence of them is not.  The server may restart, possibly  *)
(* with another topology; SQLite keeps its rows, the memory store does not.*)
(***************************************************************************)
EXTENDS TelemetryStore

CONSTANTS
  Requests,     \* slots of the handler's thread pool
  Conforming,   \* the bodies that match the bound topology's interfaces, peers
  MaxSkew,      \* TELEMETRY_MAX_FUTURE_SKEW_SECONDS
  MaxNow        \* bound on the server clock

ASSUME ClockAssumption == MaxSkew \in Nat /\ MaxNow \in Nat
ASSUME ConformingAssumption == Conforming \subseteq Bodies

VARIABLES
  backend,   \* which repository create_app was given
  binding,   \* fingerprint of the server-side topology binding
  now,       \* server clock
  store,     \* the repository's snapshots
  pc,        \* where each request's handler is
  snap,      \* the snapshot each request carries
  status,    \* the HTTP status of a finished request
  accepted   \* history: what save has ever inserted into this repository

vars == <<backend, binding, now, store, pc, snap, status, accepted>>

Statuses == {200, 201, 409, 500}

TypeOK ==
  /\ backend \in {"memory", "sqlite"}
  /\ binding \in Fingerprints
  /\ now \in 0..MaxNow
  /\ store \subseteq Snapshots
  /\ pc \in [Requests -> {"idle", "validated", "checked", "notCreated", "done"}]
  /\ snap \in [Requests -> Snapshots \cup {NoSnapshot}]
  /\ \A r \in Requests : pc[r] # "idle" => snap[r] \in Snapshots
  /\ status \in [Requests -> Statuses \cup {0}]
  /\ accepted \subseteq Snapshots

Init ==
  /\ backend \in {"memory", "sqlite"}
  /\ binding \in Fingerprints
  /\ now = 0
  /\ store = {}
  /\ pc = [r \in Requests |-> "idle"]
  /\ snap = [r \in Requests |-> NoSnapshot]
  /\ status = [r \in Requests |-> 0]
  /\ accepted = {}
-----------------------------------------------------------------------------
GoTo(r, label) ==
  /\ pc' = [pc EXCEPT ![r] = label]
  /\ UNCHANGED status

Answer(r, code) ==
  /\ pc' = [pc EXCEPT ![r] = "done"]
  /\ status' = [status EXCEPT ![r] = code]

(* validate_telemetry_ingest: not too far in the future, the server's own  *)
(* fingerprint, and observations that match the bound topology.            *)
ValidateTelemetryIngest(s) ==
  /\ s.at <= now + MaxSkew
  /\ s.fp = binding
  /\ s.body \in Conforming

(* A refusal answered before the request's snapshot is bound to the slot.  *)
MutReceive(r, s) ==
  /\ pc[r] \in {"idle", "done"}
  /\ IF ValidateTelemetryIngest(s)
     THEN /\ pc' = [pc EXCEPT ![r] = "validated"]
          /\ snap' = [snap EXCEPT ![r] = s]
          /\ status' = [status EXCEPT ![r] = 0]
     ELSE Answer(r, 409) /\ UNCHANGED snap
  /\ UNCHANGED <<backend, binding, now, store, accepted>>

(* A request arrives (the slot's previous one is over) and is validated.   *)
Receive(r, s) ==
  /\ pc[r] \in {"idle", "done"}
  /\ snap' = [snap EXCEPT ![r] = s]
  /\ IF ValidateTelemetryIngest(s)
     THEN /\ pc' = [pc EXCEPT ![r] = "validated"]
          /\ status' = [status EXCEPT ![r] = 0]
     ELSE Answer(r, 409)
  /\ UNCHANGED <<backend, binding, now, store, accepted>>

(* The handler's freshness test against the latest stored snapshot.        *)
NotNewer(s) ==
  LET latest == Latest(store, binding)
  IN  /\ latest # NoSnapshot
      /\ latest.id # s.id
      /\ s.at <= latest.at

CheckLatest(r) ==
  /\ pc[r] = "validated"
  /\ IF NotNewer(snap[r]) THEN Answer(r, 409) ELSE GoTo(r, "checked")
  /\ UNCHANGED <<backend, binding, now, store, snap, accepted>>

(* A save that looks up the id but writes whatever the payload.            *)
MutSave(r) ==
  LET s == snap[r]
  IN  /\ pc[r] = "checked"
      /\ store' = Newest({t \in store : t.id # s.id} \cup {s})
      /\ accepted' = accepted \cup {s}
      /\ Answer(r, 201)
      /\ UNCHANGED <<backend, binding, now, snap>>

Save(r) ==
  LET s == snap[r]
  IN  /\ pc[r] = "checked"
      /\ store' = AfterSave(store, s)
      /\ accepted' = IF Creates(store, s) THEN accepted \cup {s} ELSE accepted
      /\ CASE Conflicts(store, s) -> Answer(r, 409)
           [] Creates(store, s)   -> Answer(r, 201)
           [] OTHER               -> GoTo(r, "notCreated")
      /\ UNCHANGED <<backend, binding, now, snap>>

(* SQLite gives up on a lock after its busy timeout, in whichever of the   *)
(* three store calls: the exception rolls back and becomes a 500.          *)
Locked(r) ==
  /\ backend = "sqlite"
  /\ pc[r] \in {"validated", "checked", "notCreated"}
  /\ Answer(r, 500)
  /\ UNCHANGED <<backend, binding, now, store, snap, accepted>>

(* Taking every save that created nothing for a retry.                     *)
MutClassify(r) ==
  /\ pc[r] = "notCreated"
  /\ Answer(r, 200)
  /\ UNCHANGED <<backend, binding, now, store, snap, accepted>>

(* Nothing was created: a retained retry, or refused by retention?         *)
Classify(r) ==
  /\ pc[r] = "notCreated"
  /\ Answer(r, IF HasId(OfTopology(store, binding), snap[r].id) THEN 200 ELSE 409)
  /\ UNCHANGED <<backend, binding, now, store, snap, accepted>>

(* A start-up that also cleans out the snapshots of other topologies.      *)
MutRestart(fp) ==
  /\ binding' = fp
  /\ store' = IF backend = "sqlite" THEN OfTopology(store, fp) ELSE {}
  /\ accepted' = store'
  /\ pc' = [r \in Requests |-> "idle"]
  /\ snap' = [r \in Requests |-> NoSnapshot]
  /\ status' = [r \in Requests |-> 0]
  /\ UNCHANGED <<backend, now>>

(* The process stops at any point and comes back bound to fp: requests in  *)
(* flight are lost, SQLite reopens its file and prunes it.                 *)
Restart(fp) ==
  /\ binding' = fp
  /\ store' = IF backend = "sqlite" THEN Newest(store) ELSE {}
  /\ accepted' = IF backend = "sqlite" THEN accepted ELSE {}
  /\ pc' = [r \in Requests |-> "idle"]
  /\ snap' = [r \in Requests |-> NoSnapshot]
  /\ status' = [r \in Requests |-> 0]
  /\ UNCHANGED <<backend, now>>

Tick ==
  /\ now < MaxNow
  /\ now' = now + 1
  /\ UNCHANGED <<backend, binding, store, pc, snap, status, accepted>>

Next ==
  \/ \E r \in Requests :
       \/ \E s \in Snapshots : Receive(r, s)
       \/ CheckLatest(r)
       \/ Save(r)
       \/ Locked(r)
       \/ Classify(r)
  \/ \E fp \in Fingerprints : Restart(fp)
  \/ Tick

Spec == Init /\ [][Next]_vars
-----------------------------------------------------------------------------
(* The repository never outgrows its capacity and an id names one          *)
(* snapshot, whatever order concurrent saves and restarts come in.         *)
StoreWellFormed ==
  /\ Cardinality(store) <= Capacity
  /\ \A s, t \in store : s.id = t.id => s = t

(* Retention is by age alone: a snapshot save once inserted is gone only   *)
(* if the store is full of strictly newer ones.  The order in which        *)
(* requests were served, delayed ones included, leaves no trace.           *)
NewestRetained ==
  \A s \in accepted \ store :
    /\ Cardinality(store) = Capacity
    /\ \A t \in store : KeyLess(s, t)

(* A 201 can be relied on: as long as the server runs, GET latest returns  *)
(* the acknowledged snapshot or a newer one of the same topology.          *)
AcknowledgedIsCovered ==
  \A r \in Requests :
    pc[r] = "done" /\ status[r] = 201 =>
      \E t \in OfTopology(store, binding) : ~KeyLess(t, snap[r])

(* A 200 is given to a snapshot that is stored or that what was stored     *)
(* under its id outruns: a late post is never answered as if it had been   *)
(* stored while only an older snapshot was, or none at all, although save  *)
(* and the second look for the reason are apart.                           *)
RetryIsCovered ==
  \A r \in Requests :
    pc[r] = "done" /\ status[r] = 200 =>
      \E t \in accepted : t.id = snap[r].id /\ (t = snap[r] \/ snap[r].at < t.at)

(* The clock-poisoning guard holds for the store at all times: no stored   *)
(* snapshot, of whichever topology, is further ahead than the skew allows. *)
NoFuturePoison == \A s \in store : s.at <= now + MaxSkew

(* A stored snapshot is never rewritten: an id keeps its payload for as    *)
(* long as the repository holds it.                                        *)
PayloadsNeverRewritten ==
  [][\A s \in store, t \in store' : s.id = t.id => s = t]_vars

(* What readers of the feed are promised (module TelemetryFeed).           *)
Feed == INSTANCE TelemetryFeed WITH
          bound <- binding,
          feeds <- [fp \in Fingerprints |-> Latest(store, fp)],
          durable <- (backend = "sqlite")

(* The handlers implement the feed: GET latest and /metrics only move      *)
(* forward in time, through restarts too when the store is SQLite.         *)
ImplementsFeed == Feed!Spec
-----------------------------------------------------------------------------
(* docs/TELEMETRY.md: the same id with the same payload is a retry, with   *)
(* another payload it is refused with 409.  So a 200 is given only for a   *)
(* snapshot that save inserted.                                            *)
RetryWasStored ==
  \A r \in Requests : pc[r] = "done" /\ status[r] = 200 => snap[r] \in accepted
=============================================================================
