---------------------------- MODULE LiveScenario -----------------------------
(***************************************************************************)
(* live_convergence_e2e.sh: the script deploys the lab, waits until the    *)
(* routers have converged, turns BFD on, captures the state of access1,    *)
(* has runtime_conformance.py compare it with the intent, runs the live    *)
(* collector of LiveCollector on a pass only, and leaves through the EXIT  *)
(* trap.  The lab forms by itself meanwhile; a lab of an earlier run, with *)
(* its fault, and its artifacts may be there when the script starts.       *)
(***************************************************************************)
EXTENDS LiveCollector

VARIABLES
  step,        \* the script's position; "killed" where no trap runs
  second,      \* access1's neighbor agg2 is Full
  bfdEnabled,  \* BFD is configured on both ends of the primary link
  capture,     \* what the captured command outputs say
  conformance, \* runtime-conformance.json: a verdict, "absent", or "torn" (cut off)
  result,      \* E2E_RESULT was printed
  keepLab,     \* TELCONET_KEEP_LAB
  trapFailed   \* the trap's tc qdisc del failed

script == <<capture, conformance, result, keepLab, trapFailed>>
lab == <<second, bfdEnabled>>
collector == <<pc, ping, poll, api, expired>>
scenarioVars == <<vars, step, lab, script>>

Ready == {"waitRoute", "enableBfd", "waitBfd", "captureBfd", "captureOspf", "captureRoute",
          "audit", "health"}

Unread == [bfd |-> FALSE, ospf |-> FALSE, second |-> FALSE, metric |-> 0]

ScenarioTypeOK ==
  /\ TypeOK
  /\ step \in {"clear", "deploy", "collect", "report", "trap", "destroy", "ended", "killed"}
             \cup Ready
  /\ second \in BOOLEAN /\ bfdEnabled \in BOOLEAN
  /\ capture \in [bfd : BOOLEAN, ospf : BOOLEAN, second : BOOLEAN, metric : {0, 30, 140}]
  /\ conformance \in {"absent", "fail", "pass", "torn"}
  /\ result \in BOOLEAN /\ keepLab \in BOOLEAN /\ trapFailed \in BOOLEAN

ScenarioInit ==
  /\ Fresh /\ AnyNetwork /\ qdisc \in {"none", "clsact", "drop"}
  /\ step = "clear"
  /\ second \in BOOLEAN /\ bfdEnabled \in BOOLEAN
  /\ capture = Unread
  /\ conformance \in {"absent", "fail", "pass", "torn"}
  /\ result = FALSE /\ keepLab \in BOOLEAN /\ trapFailed = FALSE
-----------------------------------------------------------------------------
Advance(from, to) == step = from /\ step' = to

(* The routers of the fresh lab form adjacencies, install the best route   *)
(* these give them, and bring the BFD session up.                          *)
Form ==
  /\ step \in Ready
  /\ \/ ~ospfFull /\ ospfFull' = TRUE /\ UNCHANGED <<second, metric, bfdUp>>
     \/ ~second /\ second' = TRUE /\ UNCHANGED <<ospfFull, metric, bfdUp>>
     \/ ospfFull /\ metric # 30 /\ metric' = 30 /\ UNCHANGED <<ospfFull, second, bfdUp>>
     \/ second /\ metric = 0 /\ metric' = 140 /\ UNCHANGED <<ospfFull, second, bfdUp>>
     \/ ospfFull /\ bfdEnabled /\ ~bfdUp /\ bfdUp' = TRUE
        /\ UNCHANGED <<ospfFull, second, metric>>
  /\ UNCHANGED <<step, bfdEnabled, fault, collector, script>>

(* Leaving the artifacts of the previous run.                              *)
MutClear ==
  /\ Advance("clear", "deploy")
  /\ UNCHANGED <<network, fault, collector, lab, script>>

(* rm -f of the previous run's snapshot and verdict.                       *)
Clear ==
  /\ Advance("clear", "deploy")
  /\ conformance' = "absent"
  /\ UNCHANGED <<network, fault, collector, lab, capture, result, keepLab, trapFailed>>

(* The old lab is destroyed if docker ps shows it, and deploy --reconfigure *)
(* replaces what is left of it: whatever the test said, the lab is new.     *)
Deploy ==
  /\ Advance("deploy", "waitRoute")
  /\ bfdUp' = FALSE /\ ospfFull' = FALSE /\ metric' = 0 /\ qdisc' = "none"
  /\ second' = FALSE /\ bfdEnabled' = FALSE
  /\ UNCHANGED <<deleteFailed, collector, script>>

(* The route over the primary path was seen.                               *)
WaitRoute ==
  /\ Advance("waitRoute", "enableBfd") /\ metric = 30
  /\ UNCHANGED <<network, fault, collector, lab, script>>

EnableBfd ==
  /\ Advance("enableBfd", "waitBfd") /\ bfdEnabled' = TRUE
  /\ UNCHANGED <<network, fault, collector, second, script>>

(* The session was seen up.                                                *)
WaitBfd ==
  /\ Advance("waitBfd", "captureBfd") /\ bfdUp
  /\ UNCHANGED <<network, fault, collector, lab, script>>

(* One of the three show commands whose output runtime_snapshot combines.  *)
Capture(from, to, read) ==
  /\ Advance(from, to) /\ capture' = read
  /\ UNCHANGED <<network, fault, collector, lab, conformance, result, keepLab, trapFailed>>

CaptureBfd == Capture("captureBfd", "captureOspf", [capture EXCEPT !.bfd = bfdUp])
CaptureOspf ==
  Capture("captureOspf", "captureRoute", [capture EXCEPT !.ospf = ospfFull, !.second = second])
CaptureRoute == Capture("captureRoute", "audit", [capture EXCEPT !.metric = metric])

(* Checking the primary neighbor only.                                     *)
MutConforms(c) == c.ospf /\ c.metric = 30 /\ c.bfd

(* The checks of build_runtime_conformance_evidence: exactly the expected  *)
(* adjacencies are Full, the one selected route has the metric of the      *)
(* intent's shortest path, and the BFD session is up.                      *)
Conforms(c) == c.ospf /\ c.second /\ c.metric = 30 /\ c.bfd

Verdict(c) == IF Conforms(c) THEN "pass" ELSE "fail"

(* _write_evidence: a temporary file is renamed to its name, unsynced.     *)
WriteEvidence(verdict) == conformance' = verdict

(* main writes the verdict either way and exits with 1 on a failed check,  *)
(* which ends the script.                                                  *)
Audit ==
  /\ WriteEvidence(Verdict(capture))
  /\ Advance("audit", IF Conforms(capture) THEN "health" ELSE "trap")
  /\ UNCHANGED <<network, fault, collector, lab, capture, result, keepLab, trapFailed>>

(* The API is started, or the one given is used, and answers.              *)
Health ==
  /\ Advance("health", "collect")
  /\ UNCHANGED <<network, fault, collector, lab, script>>
-----------------------------------------------------------------------------
(* The collector runs, or is killed, with its environment.                 *)
Collect ==
  /\ step = "collect"
  /\ Collector \/ Converge \/ PingReply \/ ReadOutput \/ Expire \/ Kill
  /\ UNCHANGED <<step, lab, script>>

(* Its exit status reaches the script through tee: pipefail is set.        *)
CollectorEnds ==
  /\ pc \in Ended
  /\ Advance("collect", IF pc = "complete" THEN "report" ELSE "trap")
  /\ UNCHANGED <<network, fault, collector, lab, script>>

(* The assertions on live-convergence.json, which holds the run that       *)
(* get_run returned.                                                       *)
CheckResult ==
  /\ Advance("report", "trap")
  /\ result' = (run = <<"blackhole_injected">> \o Stages)
  /\ UNCHANGED <<network, fault, collector, lab, capture, conformance, keepLab, trapFailed>>

(* A script without the trap.                                              *)
MutScriptFails ==
  /\ step \in {"deploy", "report"} \cup Ready
  /\ step' = "ended"
  /\ UNCHANGED <<network, fault, collector, lab, script>>

(* A command fails, a wait runs out of attempts, or the operator interrupts *)
(* the script: set -e leaves for the EXIT trap.                             *)
ScriptFails ==
  /\ step \in {"deploy", "report"} \cup Ready
  /\ step' = "trap"
  /\ UNCHANGED <<network, fault, collector, lab, script>>

(* The trap first removes the fault, under set +e, ...                     *)
RemoveFault ==
  /\ Advance("trap", "destroy")
  /\ \/ qdisc' = "none" /\ UNCHANGED trapFailed
     \/ trapFailed' = TRUE /\ UNCHANGED qdisc
  /\ UNCHANGED <<network, deleteFailed, collector, lab, capture, conformance, result, keepLab>>

(* ... and destroys the lab unless it is to be kept or that fails.         *)
Destroy ==
  /\ Advance("destroy", "ended")
  /\ \/ ~keepLab /\ qdisc' = "none"
     \/ UNCHANGED qdisc
  /\ UNCHANGED <<network, deleteFailed, collector, lab, script>>

(* The script and what it runs are killed, or it fails before it has set   *)
(* the trap.                                                               *)
KillScript ==
  /\ step \notin {"ended", "killed"} /\ step' = "killed"
  /\ pc' = IF step = "collect" /\ pc \notin Ended THEN "killed" ELSE pc
  /\ UNCHANGED <<network, fault, ping, poll, api, expired, lab, script>>

(* A power loss takes the lab, and may cut the unsynced verdict off.       *)
PowerLoss ==
  /\ step \notin {"ended", "killed"} /\ step' = "killed"
  /\ pc' = IF step = "collect" /\ pc \notin Ended THEN "killed" ELSE pc
  /\ qdisc' = "none"
  /\ conformance' \in {conformance} \cup
       IF step = "clear" \/ conformance = "absent" THEN {} ELSE {"torn"}
  /\ UNCHANGED <<network, deleteFailed, ping, poll, api, expired, lab, capture, result, keepLab,
                 trapFailed>>

Script ==
  \/ Clear \/ Deploy \/ WaitRoute \/ EnableBfd \/ WaitBfd
  \/ CaptureBfd \/ CaptureOspf \/ CaptureRoute \/ Audit \/ Health
  \/ CollectorEnds \/ CheckResult \/ RemoveFault \/ Destroy \/ ScriptFails

ScenarioNext == Script \/ Collect \/ Form \/ KillScript \/ PowerLoss

(* Every wait has a last attempt and every command returns.  The collector *)
(* is one thread whose HTTP calls time out and whose commands return, and  *)
(* its deadline is a point on the monotonic clock.                         *)
ScenarioSpec ==
  /\ ScenarioInit /\ [][ScenarioNext]_scenarioVars
  /\ WF_scenarioVars(Script)
  /\ WF_scenarioVars(Collect /\ Collector) /\ WF_scenarioVars(Collect /\ Expire)
-----------------------------------------------------------------------------
(* docs/RUNTIME_CONFORMANCE.md: the collector starts only if every check   *)
(* passed.  A fault is injected only with this run's verdict PASS beside   *)
(* it, and a PASS in the artifact directory, once the script has cleared   *)
(* it, is of a lab in which both uplinks had converged; a result is        *)
(* announced only for a complete timeline measured under such a PASS.  A   *)
(* verdict that a power loss has cut off never meets a running experiment. *)
FaultNeedsConformance ==
  /\ stamped => conformance \in {"pass", "torn"}
  /\ conformance = "pass" /\ step \notin {"clear", "killed"} => second
  /\ conformance = "torn" => step \in {"clear", "killed"}
  /\ result => conformance \in {"pass", "torn"} /\ run = <<"blackhole_injected">> \o Stages

(* A fault in the lab, its own or one an earlier run left, does not        *)
(* outlive the script, unless that is killed or the last removal fails;    *)
(* and the collector takes its fault back before the script goes on.       *)
FaultIsRemoved ==
  /\ qdisc # "none" ~> qdisc = "none" \/ step = "killed" \/ trapFailed
  /\ [](step = "report" => qdisc = "none" \/ deleteFailed)
=============================================================================
