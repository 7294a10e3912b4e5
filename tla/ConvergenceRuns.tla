--------------------------- MODULE ConvergenceRuns ---------------------------
(***************************************************************************)
(* The live convergence runs of convergence.py and the API requests that   *)
(* create, extend and read them.  Writes are atomic: one RLock in memory,  *)
(* one BEGIN IMMEDIATE transaction in SQLite.  Reads are not: the memory   *)
(* store hands out its live run object, which the handlers and             *)
(* render_live_metrics then read several times without the lock; SQLite    *)
(* hands out a copy, but loads the run's row and its events by separate    *)
(* SELECTs.                                                                *)
(***************************************************************************)
EXTENDS Integers, Sequences, SequencesExt

CONSTANTS
  Writers,    \* slots of the API's thread pool that serve event posts
  Readers,    \* slots that serve reads
  Profiles,   \* the profiles clients ask for
  Capacity,   \* retained runs
  Offsets,    \* event offsets clients send
  MaxRuns     \* bound on the runs ever created

ASSUME RunsAssumption == Capacity \in Nat \ {0} /\ MaxRuns \in Nat
ASSUME OffsetsAssumption == Offsets \subseteq Nat

Kinds == {"blackhole_injected", "bfd_down", "ospf_neighbor_down",
          "route_failover", "data_plane_recovered"}

(* REQUIRED_EVENTS_BY_PROFILE                                              *)
RequiredEvents ==
  [ospf_only |-> Kinds \ {"bfd_down"}, bfd_100x3 |-> Kinds]

ASSUME ProfilesAssumption == Profiles \subseteq DOMAIN RequiredEvents

RunIds == 1..MaxRuns

Requests == Writers \cup Readers

(* measured: whether the event carries the route metric or the ICMP        *)
(* sequence number that its kind requires.  TRUE for the other kinds.      *)
Events == {e \in [kind : Kinds, offset : Offsets, measured : BOOLEAN] :
             e.kind \notin {"route_failover", "data_plane_recovered"} => e.measured}

VARIABLES
  backend,   \* which ConvergenceRepository create_app was given
  created,   \* how many runs were ever created: their ids are 1..created
  profile,   \* the profile of each run
  order,     \* the retained runs, oldest first
  events,    \* the event list of each run
  req        \* the requests: the handler's position and local variables

vars == <<backend, created, profile, order, events, req>>

NoProfile == "none"
NoRun == 0

(* A request's slot once it is answered, with whatever code.               *)
Idle == [op |-> "none", pc |-> "idle", run |-> NoRun,
         copy |-> <<>>, byKind |-> {}, complete |-> FALSE]

(* The handler of a request once it has looked up, or written, its run.    *)
Taken(op, run, pc) == [Idle EXCEPT !.op = op, !.run = run, !.pc = pc]

KindsOf(list) == {list[i].kind : i \in DOMAIN list}

(* Taking a recovered data plane for a complete run.                       *)
MutIsComplete(p, list) == "data_plane_recovered" \in KindsOf(list)

(* ConvergenceRun.status                                                   *)
IsComplete(p, list) == KindsOf(list) = RequiredEvents[p]

Retained == Range(order)

Handlers ==
  [op : {"none", "create", "append", "get", "metrics"},
   pc : {"idle", "row", "load", "index", "status", "list"}, run : 0..created,
   copy : Seq(Events), byKind : SUBSET Kinds, complete : BOOLEAN]

TypeOK ==
  /\ backend \in {"memory", "sqlite"}
  /\ created \in 0..MaxRuns
  /\ profile \in [RunIds -> Profiles \cup {NoProfile}]
  /\ order \in Seq(1..created) /\ Len(order) <= Capacity
  /\ events \in [RunIds -> Seq(Events)]
  /\ req \in [Requests -> Handlers]

Init ==
  /\ backend \in {"memory", "sqlite"}
  /\ created = 0
  /\ profile = [run \in RunIds |-> NoProfile]
  /\ order = <<>>
  /\ events = [run \in RunIds |-> <<>>]
  /\ req = [q \in Requests |-> Idle]
-----------------------------------------------------------------------------
(* Not enforcing the capacity, or enforcing it at the wrong end.           *)
MutNewestRunsUncut(seq) == seq
MutNewestRunsOldest(seq) == SubSeq(seq, 1, Min({Len(seq), Capacity}))

(* The runs that stay when the capacity is enforced, oldest first.         *)
NewestRuns(seq) == SubSeq(seq, Max({1, Len(seq) - Capacity + 1}), Len(seq))

(* The runs that unfinished handlers refer to.                             *)
Held == {req[q].run : q \in Requests}

Start(q, handler) ==
  /\ req[q] = Idle
  /\ req' = [req EXCEPT ![q] = handler]

(* An answer without a run: 404, 409, 500, or an exposition without gauges. *)
Refuse(q) == req[q] = Idle /\ UNCHANGED req

(* POST /api/convergence-runs: the new run may push out the oldest one,    *)
(* complete or not.  SQLite deletes its events with it (ON DELETE          *)
(* CASCADE); in memory they live on while a handler still holds the object. *)
CreateRun(q, p) ==
  LET run == created + 1
  IN  /\ created < MaxRuns
      /\ created' = run
      /\ profile' = [profile EXCEPT ![run] = p]
      /\ order' = NewestRuns(Append(order, run))
      /\ LET kept == Range(order') \cup IF backend = "sqlite" THEN {} ELSE Held
         IN  events' = [r \in RunIds |-> IF r \in kept THEN events[r] ELSE <<>>]
      /\ Start(q, Taken("create", run, "status"))
      /\ UNCHANGED backend

(* Validation without the duplicate test.                                  *)
MutValidEvent(p, list, e) ==
  /\ e.kind \in {"route_failover", "data_plane_recovered"} => e.measured
  /\ e.kind \in RequiredEvents[p]
  /\ list = <<>> => e.kind = "blackhole_injected"
  /\ list # <<>> => e.offset >= Last(list).offset

(* Comparing the offset with the injection instead of the last event.      *)
MutValidEventOffset(p, list, e) ==
  /\ e.kind \in {"route_failover", "data_plane_recovered"} => e.measured
  /\ e.kind \in RequiredEvents[p]
  /\ list = <<>> => e.kind = "blackhole_injected"
  /\ e.kind \notin KindsOf(list)
  /\ list # <<>> => e.offset >= Head(list).offset

(* _validate_event                                                         *)
ValidEvent(p, list, e) ==
  /\ e.kind \in {"route_failover", "data_plane_recovered"} => e.measured
  /\ e.kind \in RequiredEvents[p]
  /\ list = <<>> => e.kind = "blackhole_injected"
  /\ e.kind \notin KindsOf(list)
  /\ list # <<>> => e.offset >= Last(list).offset

(* POST .../events: look up, validate and append in one critical section;  *)
(* an unknown run is a 404, a rejected event a 409.                        *)
AppendEvent(q, run, e) ==
  LET list == Append(events[run], e)
  IN  /\ \/ /\ run \in Retained
            /\ ValidEvent(profile[run], events[run], e)
            /\ events' = [events EXCEPT ![run] = list]
            /\ Start(q, [Taken("append", run, "status")
                           EXCEPT !.copy = IF backend = "sqlite" THEN list ELSE <<>>])
         \/ /\ run \in Retained => ~ValidEvent(profile[run], events[run], e)
            /\ Refuse(q) /\ UNCHANGED events
      /\ UNCHANGED <<backend, created, profile, order>>
-----------------------------------------------------------------------------
(* Handing out the store's own object whatever the backend.                *)
MutView(q) == events[req[q].run]

(* The event list a handler that holds a run sees at this moment.          *)
View(q) == IF backend = "sqlite" THEN req[q].copy ELSE events[req[q].run]

Local(q, handler) ==
  /\ req' = [req EXCEPT ![q] = handler]
  /\ UNCHANGED <<backend, created, profile, order, events>>

After(op) == IF op = "metrics" THEN "index" ELSE "status"

(* store.get(run_id).  In memory this yields the object itself, in SQLite  *)
(* the run's row; its events are read next.                                *)
GetRun(q, run) ==
  /\ \/ /\ run \in Retained
        /\ Start(q, Taken("get", run, IF backend = "sqlite" THEN "load" ELSE "status"))
     \/ run \notin Retained /\ Refuse(q)
  /\ UNCHANGED <<backend, created, profile, order, events>>

(* store.latest() for GET .../latest and /metrics; no run is a 404 for the *)
(* one and an empty exposition for the other.  SQLite reads only the id.   *)
LatestRun(q, op) ==
  /\ \/ /\ order # <<>>
        /\ Start(q, Taken(op, Last(order), IF backend = "sqlite" THEN "row" ELSE After(op)))
     \/ order = <<>> /\ Refuse(q)
  /\ UNCHANGED <<backend, created, profile, order, events>>

(* _load's first SELECT.  latest() does not expect its KeyError, which     *)
(* becomes a 500.                                                          *)
LoadRow(q) ==
  /\ req[q].pc = "row"
  /\ Local(q, IF req[q].run \in Retained
              THEN [req[q] EXCEPT !.pc = "load"]
              ELSE Idle)

(* _load's second SELECT: the events the run has now, none if it is gone.  *)
LoadEvents(q) ==
  /\ req[q].pc = "load"
  /\ Local(q, [req[q] EXCEPT !.pc = After(req[q].op), !.copy = events[req[q].run]])

(* SQLite gives up on a read lock after its busy timeout: a 500.           *)
Locked(q) ==
  /\ req[q].pc \in {"row", "load"}
  /\ Local(q, Idle)

(* render_live_metrics builds its dictionary of events by kind, ...        *)
ReadIndex(q) ==
  /\ req[q].pc = "index"
  /\ Local(q, [req[q] EXCEPT !.pc = "status", !.byKind = KindsOf(View(q))])

(* ... then, like _convergence_response, computes the run's status, ...    *)
ReadStatus(q) ==
  /\ req[q].pc = "status"
  /\ Local(q, [req[q] EXCEPT !.pc = "list",
                             !.complete = IsComplete(profile[req[q].run], View(q))])

(* ... and then lists its events, View(q), in the answer.                  *)
ReadList(q) ==
  /\ req[q].pc = "list"
  /\ Local(q, Idle)

(* The process restarts; only SQLite keeps runs.                           *)
Restart ==
  /\ req' = [q \in Requests |-> Idle]
  /\ order' = IF backend = "sqlite" THEN NewestRuns(order) ELSE <<>>
  /\ events' = IF backend = "sqlite" THEN events ELSE [run \in RunIds |-> <<>>]
  /\ UNCHANGED <<backend, created, profile>>

Next ==
  \/ \E q \in Writers, p \in Profiles : CreateRun(q, p)
  \/ \E q \in Writers, run \in 1..created, e \in Events : AppendEvent(q, run, e)
  \/ \E q \in Readers :
       \/ \E run \in 1..created : GetRun(q, run)
       \/ \E op \in {"get", "metrics"} : LatestRun(q, op)
       \/ LoadRow(q)
       \/ LoadEvents(q)
       \/ Locked(q)
       \/ ReadIndex(q)
  \/ \E q \in Requests : ReadStatus(q) \/ ReadList(q)
  \/ Restart

Spec == Init /\ [][Next]_vars
-----------------------------------------------------------------------------
(* Whoever records, in whatever interleaving, a run's timeline starts with *)
(* the injection, names each stage once and goes forward in time.          *)
TimelinesWellFormed ==
  \A run \in RunIds :
    LET list == events[run]
    IN  /\ list # <<>> => Head(list).kind = "blackhole_injected"
        /\ \A i, j \in DOMAIN list :
             i < j => list[i].kind # list[j].kind /\ list[i].offset <= list[j].offset

(* Completion is final: what a client read as a complete timeline is never *)
(* added to, although the endpoint keeps accepting requests for it.        *)
CompleteIsFinal ==
  [][\A run \in Retained :
       /\ IsComplete(profile[run], events[run])
       /\ run \in Range(order')
       => events'[run] = events[run]]_vars

(* The retained runs are the newest ones without a gap, so "latest" is the *)
(* last run created, through evictions and restarts.                       *)
RetainedAreNewest ==
  order # <<>> => order = [i \in 1..Len(order) |-> created - Len(order) + i]

(* The handler's next step writes View(q), after the rest, into the answer. *)
Listing(q) == req[q].pc = "list"

(* A response or exposition that calls a run complete also lists every     *)
(* required stage: the status is never ahead of the events next to it.     *)
StatusNeverAheadOfEvents ==
  \A q \in Requests :
    Listing(q) /\ req[q].complete =>
      KindsOf(View(q)) = RequiredEvents[profile[req[q].run]]

(* With SQLite an exposition is a snapshot: the gauges derived from the    *)
(* index, the completeness and the offsets speak of the same events.       *)
ExpositionIsSnapshot ==
  \A q \in Requests :
    Listing(q) /\ req[q].op = "metrics" /\ backend = "sqlite" =>
      /\ req[q].byKind = KindsOf(View(q))
      /\ req[q].complete <=> req[q].byKind = RequiredEvents[profile[req[q].run]]

(* The HELP texts of /metrics: run_complete says that all stages were      *)
(* recorded, data_plane_reachable whether the probe is reachable.  An      *)
(* exposition that says "complete" must then say "reachable".              *)
CompleteRunIsReachable ==
  \A q \in Requests :
    Listing(q) /\ req[q].op = "metrics" /\ req[q].complete =>
      "data_plane_recovered" \in req[q].byKind
=============================================================================
