-------------------------- MODULE TelemetryCollector --------------------------
(***************************************************************************)
(* The polling loop of telemetry_collector.py: run_collector asks every    *)
(* bound router in turn, isolating the failure of each, and publishes the  *)
(* result as a new snapshot.  A router is abstracted to the state of one   *)
(* end of a link, which changes under the four commands that               *)
(* collect_router runs on it: the interface, its neighbor, its peer and    *)
(* the route over it are up, down or missing.  The snapshot is what        *)
(* telemetry_metrics.py renders for the readers.                           *)
(***************************************************************************)
EXTENDS Integers, Sequences

CONSTANT N   \* the number of bound routers

ASSUME NAssumption == N \in Nat \ {0}

Targets == 1..N   \* in the binding's order

(* Missing: no entry in the answer, or one that knows of no state.         *)
States == {"up", "down", "missing"}

Says == {"up", "down", "unknown"}   \* TelemetryState

(* The commands of collect_router: 1 for the interfaces, 2 for the OSPF    *)
(* neighbors, 3 for the BFD peers, 4 for the service route.                *)
Commands == 1..4

(* What the parsers make of an answer.  A neighbor without an entry is     *)
(* down, one without a state is unknown; there is no unknown route.        *)
Parsed(command, state) ==
  {says \in Says :
     \/ says = state
     \/ state = "missing" /\ says = "unknown" /\ command # 4
     \/ state = "missing" /\ says = "down" /\ command \in {2, 4}}

VARIABLES
  mode,     \* run_collector's once
  pc,       \* "collect", "publish", "sleep", "exited", "failed" or "crashed"
  target,   \* the router being asked
  asked,    \* how many of its commands were answered
  readings, \* what each router's answers said; nothing after a failed collection
  actual,   \* the routers' states
  failed,   \* the routers a command of this round failed on
  during    \* for the properties: the states each router was in during this round

vars == <<mode, pc, target, asked, readings, actual, failed, during>>

TypeOK ==
  /\ mode \in {"once", "loop"}
  /\ pc \in {"collect", "publish", "sleep", "exited", "failed", "crashed"}
  /\ target \in Targets /\ asked \in 0..3
  /\ readings \in [Targets -> Seq(Says)]
  /\ actual \in [Targets -> States]
  /\ during \in [Targets -> SUBSET States]
  /\ failed \subseteq Targets

Fresh(states) ==
  /\ target' = 1 /\ asked' = 0
  /\ readings' = [t \in Targets |-> <<>>]
  /\ during' = [t \in Targets |-> {states[t]}]
  /\ failed' = {}

Init ==
  /\ mode \in {"once", "loop"}
  /\ pc = "collect"
  /\ target = 1 /\ asked = 0
  /\ readings = [t \in Targets |-> <<>>]
  /\ actual \in [Targets -> States]
  /\ during = [t \in Targets |-> {actual[t]}]
  /\ failed = {}
-----------------------------------------------------------------------------
(* A router changes on its own.                                            *)
Change(t) ==
  \E s \in States \ {actual[t]} :
    /\ pc \in {"collect", "publish", "sleep"}
    /\ actual' = [actual EXCEPT ![t] = s]
    /\ during' = [during EXCEPT ![t] = @ \cup {s}]
    /\ UNCHANGED <<mode, pc, target, asked, readings, failed>>

(* collect_snapshot goes on to the next router, or to publishing.          *)
NextTarget ==
  /\ asked' = 0
  /\ IF target < N
     THEN target' = target + 1 /\ pc' = pc
     ELSE target' = target /\ pc' = "publish"

(* One command of collect_router is answered and parsed.                   *)
Command ==
  /\ pc = "collect"
  /\ \E says \in Parsed(asked + 1, actual[target]) :
       readings' = [readings EXCEPT ![target] = Append(@, says)]
  /\ IF asked + 1 \in 1..3
     THEN asked' = asked + 1 /\ UNCHANGED <<pc, target>>
     ELSE NextTarget
  /\ UNCHANGED <<mode, actual, failed, during>>

(* Keeping what the commands before the failing one said.                  *)
MutReportUnknown ==
  /\ failed' = failed \cup {target}
  /\ readings' = readings
  /\ UNCHANGED <<mode, actual, during>>

(* failed_router_telemetry: the router is reported unknown, and what it    *)
(* answered before is dropped.                                             *)
ReportUnknown ==
  /\ failed' = failed \cup {target}
  /\ readings' = [readings EXCEPT ![target] = <<>>]
  /\ UNCHANGED <<mode, actual, during>>

(* A command times out, exits with an error or cannot be parsed; the next  *)
(* router is asked.                                                        *)
CommandFails == pc = "collect" /\ ReportUnknown /\ NextTarget

(* All commands were answered, but the answers do not fit together, say    *)
(* because an interface went away between them: validate_observation       *)
(* refuses the router's report.                                            *)
Refused == pc = "collect" /\ asked = 3 /\ ReportUnknown /\ NextTarget

Published(to) ==
  /\ pc = "publish" /\ pc' = to
  /\ UNCHANGED <<mode, target, asked, readings, actual, failed, during>>

(* publish succeeds: the snapshot is stored (or known already).            *)
Accepted == Published(IF mode = "once" THEN "exited" ELSE "sleep")

(* Giving up in both modes.                                                *)
MutUnavailable == Published("failed")

(* publish raises RuntimeError: the API is unreachable, answers an error   *)
(* status, or its answer is not an object.  The loop tries again with a    *)
(* new snapshot; --once reports the failure.                               *)
Unavailable == Published(IF mode = "once" THEN "failed" ELSE "sleep")

(* The answer does not arrive in time, breaks off or is not JSON, whether  *)
(* or not the API stored the snapshot: publish lets the TimeoutError, the  *)
(* RemoteDisconnected or the JSONDecodeError through, and run_collector    *)
(* only catches RuntimeError.                                              *)
AnswerLost == Published("crashed")

(* The interval is over: a new snapshot is collected.                      *)
Wake ==
  /\ pc = "sleep" /\ pc' = "collect"
  /\ Fresh(actual)
  /\ UNCHANGED <<mode, actual>>

Collector ==
  Command \/ CommandFails \/ Refused \/ Accepted \/ Unavailable \/ AnswerLost \/ Wake

Next == Collector \/ \E t \in Targets : Change(t)

(* Every docker command and the HTTP request have a timeout, and sleep     *)
(* ends: the loop always takes another step.                               *)
Spec == Init /\ [][Next]_vars /\ WF_vars(Collector)
-----------------------------------------------------------------------------
(* The exposition of a snapshot.                                           *)

(* A router without a line for the interface counted as down.              *)
MutInterfaceState(t) == IF readings[t] = <<>> THEN "down" ELSE readings[t][1]

(* _interface_state: the first command's answer, unless there is none.     *)
InterfaceState(t) == IF readings[t] = <<>> THEN "unknown" ELSE readings[t][1]

(* _link_state of a link between two routers: 1, 0 or -1 for unknown.      *)
LinkGauge(t, u) ==
  LET states == {InterfaceState(t), InterfaceState(u)}
  IN  CASE "down" \in states -> 0
        [] states = {"up"} -> 1
        [] OTHER -> -1
-----------------------------------------------------------------------------
(* What is published says of each router nothing but what an answer of     *)
(* this round could say, and says nothing exactly of the routers whose own *)
(* collection failed: a failed collection is neither an outage nor a       *)
(* reason to drop another router's answer.                                 *)
SnapshotsAreHonest ==
  pc = "publish" =>
    \A t \in Targets :
      /\ readings[t] = <<>> <=> t \in failed
      /\ \A c \in DOMAIN readings[t] :
           \E state \in during[t] : readings[t][c] \in Parsed(c, state)

(* docs/TELEMETRY.md: a state that is missing or whose collection failed   *)
(* is not turned into a normal 0 or 1.  A link is shown up only if both    *)
(* its ends were asked and up during the round, down only if one of them   *)
(* was asked and down, and unknown only if one of them could not be asked  *)
(* or its interface was missing.                                           *)
UnknownStaysUnknown ==
  pc = "publish" =>
    \A t, u \in Targets :
      LET was(x, state) == x \notin failed /\ state \in during[x]
          gauge == LinkGauge(t, u)
      IN  /\ gauge = 1  => was(t, "up") /\ was(u, "up")
          /\ gauge = 0  => was(t, "down") \/ was(u, "down")
          /\ gauge = -1 => \E x \in {t, u} : x \in failed \/ was(x, "missing")

(* The loop comes back to publishing for ever, whatever fails, unless the  *)
(* answer to a publication times out or breaks off.                        *)
KeepsPublishing ==
  mode = "loop" => []<>(pc = "publish") \/ <>(pc = "crashed")
=============================================================================
