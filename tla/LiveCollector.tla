---------------------------- MODULE LiveCollector ----------------------------
(***************************************************************************)
(* collect_live_convergence of live_collector.py: the experiment that      *)
(* injects a blackhole, watches BFD, OSPF, the route and the ping by       *)
(* polling, reports each transition to the API once and removes the fault. *)
(* Around it run the router, which converges by itself, ping with the      *)
(* thread that reads its output, and the API.                              *)
(***************************************************************************)
EXTENDS Naturals, Sequences, FiniteSets, SequencesExt

CONSTANT MaxQueue   \* bound on the unread ping replies

ASSUME MaxQueueAssumption == MaxQueue \in Nat \ {0}

VARIABLES
  pc,          \* the collector's position
  qdisc,       \* the fault interface: "none", "clsact" or "drop" (filter in place)
  bfdUp, ospfFull, metric,   \* the router: metric 0 while the route is missing
  flight,      \* a reply that ping printed and the reader has not stamped yet
  queue,       \* the stamped replies that _drain_ping has not taken
  stamped,     \* fault_ns has been taken
  recovery,    \* the reply behind sample.icmp_sequence, if any
  sample,      \* what the probe has read in this poll
  recorded,    \* the detector's _recorded
  pending,     \* the transitions of this poll that are still to be reported
  expired,     \* the deadline has passed
  run,         \* the events the API has recorded for the run
  evidence,    \* the reply behind the recorded recovery
  deleteFailed \* tc qdisc del failed, which check=False ignores

network == <<bfdUp, ospfFull, metric>>
fault == <<qdisc, deleteFailed>>
ping == <<flight, queue, stamped>>
poll == <<recovery, sample, recorded, pending>>
api == <<run, evidence>>
vars == <<pc, network, fault, ping, poll, api, expired>>

(* The order in which the detector accepts transitions.                    *)
Stages == <<"bfd_down", "ospf_neighbor_down", "route_failover", "data_plane_recovered">>

(* A ping reply: the path it took, and whether the time at which the       *)
(* reader thread stamped it is at or after fault_ns.                       *)
Replies == [path : {"primary", "backup"}, late : BOOLEAN]
NoReply == [path |-> "none", late |-> FALSE]

NoSample == [bfd |-> TRUE, ospf |-> TRUE, metric |-> 0]

Ended == {"done", "complete", "killed"}

TypeOK ==
  /\ pc \in {"baseline", "ping", "create", "clsact", "stamp", "filter", "inject", "drain",
             "bfd", "ospf", "route", "report", "verify", "cleanup", "keep"} \cup Ended
  /\ qdisc \in {"none", "clsact", "drop"}
  /\ bfdUp \in BOOLEAN /\ ospfFull \in BOOLEAN /\ metric \in {0, 30, 140}
  /\ flight \in {"none", "primary", "backup"}
  /\ queue \in Seq(Replies) /\ Len(queue) <= MaxQueue
  /\ {recovery, evidence} \subseteq Replies \cup {NoReply}
  /\ sample \in [bfd : BOOLEAN, ospf : BOOLEAN, metric : {0, 30, 140}]
  /\ recorded \subseteq Range(Stages)
  /\ pending \in Seq(recorded)
  /\ run \in Seq(Range(Stages) \cup {"blackhole_injected"})
  /\ stamped \in BOOLEAN /\ expired \in BOOLEAN /\ deleteFailed \in BOOLEAN

(* The collector, its thread and the API before the experiment.            *)
Fresh ==
  /\ pc = "baseline" /\ deleteFailed = FALSE
  /\ flight = "none" /\ queue = <<>> /\ stamped = FALSE
  /\ recovery = NoReply /\ sample = NoSample /\ recorded = {} /\ pending = <<>>
  /\ expired = FALSE /\ run = <<>> /\ evidence = NoReply

AnyNetwork == bfdUp \in BOOLEAN /\ ospfFull \in BOOLEAN /\ metric \in {0, 30, 140}

Init == Fresh /\ AnyNetwork /\ qdisc = "none"
-----------------------------------------------------------------------------
(* The router loses the BFD session, then (by BFD or by its dead timer)    *)
(* the OSPF neighbor, then the route over it, and installs the backup.     *)
Converge ==
  /\ qdisc = "drop" /\ pc \notin Ended
  /\ \/ bfdUp /\ bfdUp' = FALSE /\ UNCHANGED <<ospfFull, metric>>
     \/ ospfFull /\ ospfFull' = FALSE /\ UNCHANGED <<bfdUp, metric>>
     \/ ~ospfFull /\ metric = 30 /\ metric' = 0 /\ UNCHANGED <<bfdUp, ospfFull>>
     \/ ~ospfFull /\ metric \in {0, 30} /\ metric' = 140 /\ UNCHANGED <<bfdUp, ospfFull>>
  /\ UNCHANGED <<pc, fault, ping, poll, api, expired>>

(* ping prints a reply: over the primary path until the filter drops       *)
(* everything, over the backup path once its route is installed.           *)
PingReply ==
  /\ pc \notin {"baseline"} \cup Ended /\ flight = "none"
  /\ \/ metric = 30 /\ qdisc # "drop" /\ flight' = "primary"
     \/ metric = 140 /\ flight' = "backup"
  /\ UNCHANGED <<pc, network, fault, queue, stamped, poll, api, expired>>

(* read_output stamps the line and queues it.                              *)
ReadOutput ==
  /\ flight # "none" /\ Len(queue) < MaxQueue
  /\ queue' = Append(queue, [path |-> flight, late |-> stamped])
  /\ flight' = "none"
  /\ UNCHANGED <<pc, network, fault, stamped, poll, api, expired>>

Expire ==
  /\ ~expired /\ pc \notin Ended
  /\ expired' = TRUE
  /\ UNCHANGED <<pc, network, fault, ping, poll, api>>
-----------------------------------------------------------------------------
GoTo(from, to) == pc = from /\ pc' = to

NothingElse == UNCHANGED <<network, fault, ping, poll, api, expired>>

InTry == pc \notin {"baseline", "cleanup", "keep"} \cup Ended

(* Leaving without removing the fault when the filter cannot be added.     *)
MutFail ==
  /\ InTry
  /\ pc' = IF pc = "filter" THEN "done" ELSE "cleanup"
  /\ NothingElse

(* A docker, tc or vtysh command fails, the baseline ping does not come,   *)
(* the API is unreachable, rejects a request or has lost the run, or the   *)
(* operator interrupts: the exception leaves the try block for its finally *)
(* clause.                                                                 *)
Fail ==
  /\ InTry
  /\ pc' = "cleanup"
  /\ NothingElse

(* health, the baseline sample and its test: no fault without a healthy    *)
(* baseline.                                                               *)
Baseline ==
  /\ \/ bfdUp /\ ospfFull /\ metric = 30 /\ GoTo("baseline", "ping")
     \/ GoTo("baseline", "done")
  /\ NothingElse

(* _wait_for_ping_baseline.                                                *)
WaitForPing ==
  /\ GoTo("ping", "create")
  /\ queue # <<>> /\ queue' = <<>>
  /\ UNCHANGED <<network, fault, flight, stamped, poll, api, expired>>

CreateRun ==
  /\ GoTo("create", "clsact")
  /\ NothingElse

AddQdisc ==
  /\ GoTo("clsact", "stamp") /\ qdisc' = "clsact"
  /\ UNCHANGED <<network, deleteFailed, ping, poll, api, expired>>

StampFault ==
  /\ GoTo("stamp", "filter") /\ stamped' = TRUE
  /\ UNCHANGED <<network, fault, flight, queue, poll, api, expired>>

AddFilter ==
  /\ GoTo("filter", "inject") /\ qdisc' = "drop"
  /\ UNCHANGED <<network, deleteFailed, ping, poll, api, expired>>

(* mark_injected and the first event, whose answer arrives or not; then    *)
(* the deadline is set.                                                    *)
RecordInjection ==
  /\ GoTo("inject", "drain") \/ GoTo("inject", "cleanup")
  /\ run' = <<"blackhole_injected">>
  /\ expired' = FALSE
  /\ UNCHANGED <<network, fault, ping, poll, evidence>>
-----------------------------------------------------------------------------
(* _drain_ping: the last reply that was stamped at or after fault_ns.      *)
RecoveryIn(replies) ==
  LET late == {i \in DOMAIN replies : replies[i].late}
  IN  IF late = {} THEN NoReply ELSE replies[Max(late)]

(* The loop's condition; then the poll first empties the queue, ...        *)
Drain ==
  /\ \/ expired /\ GoTo("drain", "cleanup") /\ UNCHANGED <<queue, recovery>>
     \/ /\ ~expired /\ GoTo("drain", "bfd")
        /\ recovery' = RecoveryIn(queue) /\ queue' = <<>>
  /\ UNCHANGED <<network, fault, flight, stamped, sample, recorded, pending, api, expired>>

(* ... then DockerFrrProbe.sample asks for BFD, OSPF and the route.        *)
Sample(from, to, read) ==
  /\ GoTo(from, to) /\ sample' = read
  /\ UNCHANGED <<network, fault, ping, recovery, recorded, pending, api, expired>>

SampleBfd == Sample("bfd", "ospf", [sample EXCEPT !.bfd = bfdUp])
SampleOspf == Sample("ospf", "route", [sample EXCEPT !.ospf = ospfFull])

(* Any departure from the baseline metric taken for the failover.          *)
MutObserved(s, r) ==
  [bfd_down |-> ~s.bfd, ospf_neighbor_down |-> ~s.ospf,
   route_failover |-> s.metric # 30, data_plane_recovered |-> r # NoReply]

(* What each stage's transition is observed by.                            *)
Observed(s, r) ==
  [bfd_down |-> ~s.bfd, ospf_neighbor_down |-> ~s.ospf,
   route_failover |-> s.metric = 140, data_plane_recovered |-> r # NoReply]

(* Reporting every observed transition, whatever is missing before it.     *)
MutTransitions(s, r, done) ==
  LET new(i) == IF Stages[i] \notin done /\ Observed(s, r)[Stages[i]] THEN <<Stages[i]>> ELSE <<>>
  IN  new(1) \o new(2) \o new(3) \o new(4)

(* LiveTransitionDetector.observe, one stage after the other: those that   *)
(* are new, up to the first that is neither recorded nor observed.         *)
Transitions(s, r, done) ==
  LET held(i) == Stages[i] \in done \/ Observed(s, r)[Stages[i]]
      new(i)  == IF Stages[i] \notin done /\ \A j \in 1..i : held(j) THEN <<Stages[i]>> ELSE <<>>
  IN  new(1) \o new(2) \o new(3) \o new(4)

(* Not remembering what was reported.                                      *)
MutSampleRoute ==
  LET read == [sample EXCEPT !.metric = metric]
  IN  /\ GoTo("route", "report")
      /\ sample' = read
      /\ pending' = Transitions(read, recovery, recorded)
      /\ UNCHANGED <<network, fault, ping, recovery, recorded, api, expired>>

(* The route is read last; the detector then sees the whole sample.        *)
SampleRoute ==
  LET read == [sample EXCEPT !.metric = metric]
      new  == Transitions(read, recovery, recorded)
  IN  /\ GoTo("route", "report")
      /\ sample' = read
      /\ pending' = new
      /\ recorded' = recorded \cup Range(new)
      /\ UNCHANGED <<network, fault, ping, recovery, api, expired>>

(* record_event: the API takes the event, and the answer arrives or not.   *)
Report ==
  /\ pc = "report" /\ pending # <<>>
  /\ run' = Append(run, Head(pending))
  /\ evidence' = IF Head(pending) = "data_plane_recovered" THEN recovery ELSE evidence
  /\ pending' = Tail(pending)
  /\ pc' \in {"report", "cleanup"}
  /\ UNCHANGED <<network, fault, ping, recovery, sample, recorded, expired>>

Poll ==
  /\ pc = "report" /\ pending = <<>>
  /\ pc' = IF recorded = Range(Stages) THEN "verify" ELSE "drain"
  /\ NothingElse

(* get_run and the test of its status.                                     *)
Verify ==
  /\ GoTo("verify", IF Range(run) = Range(Stages) \cup {"blackhole_injected"}
                    THEN "keep" ELSE "cleanup")
  /\ NothingElse

(* The finally clause: tc qdisc del, its failure ignored, and ping's end.  *)
Cleanup ==
  /\ GoTo("cleanup", "done") \/ GoTo("keep", "complete")
  /\ \/ qdisc' = "none" /\ UNCHANGED deleteFailed
     \/ deleteFailed' = TRUE /\ UNCHANGED qdisc
  /\ UNCHANGED <<network, ping, poll, api, expired>>

(* The process is killed; no finally clause runs.                          *)
Kill ==
  /\ pc \notin Ended /\ pc' = "killed"
  /\ NothingElse

Collector ==
  \/ Baseline \/ WaitForPing \/ CreateRun \/ AddQdisc \/ StampFault \/ AddFilter
  \/ RecordInjection \/ Drain \/ SampleBfd \/ SampleOspf \/ SampleRoute \/ Report \/ Poll
  \/ Verify \/ Cleanup \/ Fail

Next == Collector \/ Converge \/ PingReply \/ ReadOutput \/ Expire \/ Kill

Spec == Init /\ [][Next]_vars
-----------------------------------------------------------------------------
(* The run the API holds is at any time a prefix of the causal order,      *)
(* although one poll may report several stages and any call may fail.      *)
EventsInCausalOrder ==
  IsPrefix(run, <<"blackhole_injected">> \o Stages)

(* A stage is recorded only after the router went through it: a missing    *)
(* route is not the failover, and a stage seen early is held back.         *)
TransitionsAreReal ==
  /\ "bfd_down" \in recorded => ~bfdUp
  /\ "ospf_neighbor_down" \in recorded => ~ospfFull
  /\ "route_failover" \in recorded => metric = 140

(* The analysis counts a data plane as recovered when ICMP replies are     *)
(* seen again after the route has moved to the backup metric: the reply    *)
(* behind a recorded recovery must have taken the backup path.             *)
RecoveryIsReal ==
  "data_plane_recovered" \in Range(run) => evidence.path = "backup"
=============================================================================
