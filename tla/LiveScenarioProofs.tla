-------------------------- MODULE LiveScenarioProofs --------------------------
(***************************************************************************)
(* Proofs about LiveScenario, for every bound on the unread ping replies.  *)
(***************************************************************************)
EXTENDS LiveScenario, FiniteSetTheorems, SequenceTheorems, TLAPS

Before == {"clear", "deploy"} \cup Ready         \* the experiment has not begun
After == {"trap", "destroy", "ended", "killed"}  \* the script does not go on

(* The verdict in the artifact directory, position by position.            *)
VerdictInv ==
  /\ step \in {"deploy"} \cup (Ready \ {"health"}) => conformance = "absent"
  /\ step \in {"health", "collect", "report"} => conformance = "pass"
  /\ conformance = "torn" => step \in {"clear", "killed"}
  /\ conformance = "pass" /\ step \notin {"clear", "killed"} => second

(* What was captured of the second uplink still is the case.               *)
CaptureInv ==
  /\ DOMAIN capture = {"bfd", "ospf", "second", "metric"}
  /\ step \in {"captureRoute", "audit"} /\ capture.second => second

ExperimentInv ==
  /\ stamped => step \notin Before /\ conformance \in {"pass", "torn"}
  /\ result => /\ step \in After /\ conformance \in {"pass", "torn"}
               /\ run = <<"blackhole_injected">> \o Stages

IndInv ==
  /\ step \in Before \cup {"collect", "report"} \cup After
  /\ VerdictInv /\ CaptureInv /\ ExperimentInv

LEMMA InitHolds == ScenarioInit => IndInv
BY DEF ScenarioInit, Fresh, IndInv, Before, After, VerdictInv, CaptureInv, ExperimentInv,
       Unread, Ready

(* Up to the audit.                                                        *)
LEMMA PreparingKeeps ==
  ASSUME IndInv,
         \/ Clear \/ Deploy \/ WaitRoute \/ EnableBfd \/ WaitBfd \/ Form
         \/ CaptureBfd \/ CaptureOspf \/ CaptureRoute
  PROVE  IndInv'
<1> USE DEF IndInv, Before, After, VerdictInv, CaptureInv, ExperimentInv, Ready, Advance,
            script, lab, collector, ping, api
<1>1. CASE Clear
  BY <1>1 DEF Clear
<1>2. CASE Deploy
  BY <1>2 DEF Deploy
<1>3. CASE WaitRoute
  BY <1>3 DEF WaitRoute
<1>4. CASE EnableBfd
  BY <1>4 DEF EnableBfd
<1>5. CASE WaitBfd
  BY <1>5 DEF WaitBfd
<1>6. CASE Form
  BY <1>6 DEF Form
<1>7. CASE CaptureBfd
  BY <1>7 DEF CaptureBfd, Capture
<1>8. CASE CaptureOspf
  BY <1>8 DEF CaptureOspf, Capture
<1>9. CASE CaptureRoute
  BY <1>9 DEF CaptureRoute, Capture
<1>10. QED
  BY <1>1, <1>2, <1>3, <1>4, <1>5, <1>6, <1>7, <1>8, <1>9

(* A PASS is of a lab whose second uplink is Full.                         *)
LEMMA AuditKeeps == IndInv /\ Audit => IndInv'
BY DEF IndInv, Before, After, VerdictInv, CaptureInv, ExperimentInv, Ready, Advance,
       collector, ping, api, lab, Audit, WriteEvidence, Verdict, Conforms

(* The experiment and what follows it.                                     *)
LEMMA ExperimentKeeps ==
  ASSUME IndInv,
         \/ Health \/ Collect \/ CollectorEnds \/ CheckResult \/ ScriptFails
         \/ RemoveFault \/ Destroy \/ KillScript \/ PowerLoss
  PROVE  IndInv'
<1> USE DEF IndInv, Before, After, VerdictInv, CaptureInv, ExperimentInv, Ready, Advance,
            script, lab, collector, ping, api
<1>1. CASE Health
  BY <1>1 DEF Health
<1>2. CASE Collect
  BY <1>2 DEF Collect
<1>3. CASE CollectorEnds
  BY <1>3 DEF CollectorEnds
<1>4. CASE CheckResult
  BY <1>4 DEF CheckResult
<1>5. CASE ScriptFails
  BY <1>5 DEF ScriptFails
<1>6. CASE RemoveFault
  BY <1>6 DEF RemoveFault
<1>7. CASE Destroy
  BY <1>7 DEF Destroy
<1>8. CASE KillScript
  BY <1>8 DEF KillScript
<1>9. CASE PowerLoss
  BY <1>9 DEF PowerLoss
<1>10. QED
  BY <1>1, <1>2, <1>3, <1>4, <1>5, <1>6, <1>7, <1>8, <1>9

LEMMA StutteringKeeps == IndInv /\ UNCHANGED scenarioVars => IndInv'
BY DEF IndInv, Before, After, VerdictInv, CaptureInv, ExperimentInv, Ready,
       scenarioVars, vars, lab, script, ping, api

LEMMA Invariance == ScenarioSpec => []IndInv
<1>1. IndInv /\ [ScenarioNext]_scenarioVars => IndInv'
  BY PreparingKeeps, AuditKeeps, ExperimentKeeps, StutteringKeeps DEF ScenarioNext, Script
<1>2. QED
  BY <1>1, InitHolds, PTL DEF ScenarioSpec

(* A fault is injected and a result announced only under this run's own    *)
(* PASS, whatever fails, is killed or loses power.                         *)
THEOREM FaultsNeedConformance == ScenarioSpec => []FaultNeedsConformance
<1>1. IndInv => FaultNeedsConformance
  BY DEF IndInv, VerdictInv, ExperimentInv, FaultNeedsConformance
<1>2. QED
  BY <1>1, Invariance, PTL
-----------------------------------------------------------------------------
(* The stages up to the k-th, those after the n-th up to the k-th, and the *)
(* run that holds the injection and n of them.                             *)
Known(k) == {Stages[i] : i \in 1..k}
Coming(n, k) == SubSeq(Stages, n + 1, k)

Order == <<"blackhole_injected">> \o Stages
Begun(n) == SubSeq(Order, 1, n + 1)

LEMMA FourStages ==
  /\ Stages[1] = "bfd_down" /\ Stages[2] = "ospf_neighbor_down"
  /\ Stages[3] = "route_failover" /\ Stages[4] = "data_plane_recovered"
  /\ DOMAIN Stages = 1..4 /\ Range(Stages) = {Stages[i] : i \in 1..4}
  /\ \A i, j \in 1..4 : Stages[i] = Stages[j] => i = j
<1>1. /\ Stages[1] = "bfd_down" /\ Stages[2] = "ospf_neighbor_down"
      /\ Stages[3] = "route_failover" /\ Stages[4] = "data_plane_recovered"
      /\ DOMAIN Stages = 1..4
  BY DEF Stages
<1>2. \A i, j \in 1..4 : Stages[i] = Stages[j] => i = j
  BY <1>1
<1>3. QED
  BY <1>1, <1>2 DEF Range

LEMMA ComingGrows ==
  ASSUME NEW k \in 0..4
  PROVE  /\ Coming(k, k) = <<>> /\ <<>> \o <<>> = <<>>
         /\ \A j \in k..4 :
              Coming(k, j) \in Seq(Range(Stages)) /\ Coming(k, j) \o <<>> = Coming(k, j)
         /\ \A j \in k..3 : Coming(k, j) \o <<Stages[j + 1]>> = Coming(k, j + 1)
<1>1. Stages \in Seq(Range(Stages)) /\ Len(Stages) = 4
  BY DEF Stages, Range
<1>2. Coming(k, k) = <<>> /\ <<>> \o <<>> = <<>>
  BY SubSeqEmpty, k \in Int, k + 1 \in Int, k < k + 1 DEF Coming
<1>3. ASSUME NEW j \in k..4
      PROVE  Coming(k, j) \in Seq(Range(Stages)) /\ Coming(k, j) \o <<>> = Coming(k, j)
  <2>1. \A i \in (k + 1)..j : Stages[i] \in Range(Stages)
    BY FourStages
  <2>2. Coming(k, j) \in Seq(Range(Stages))
    BY <2>1, SubSeqProperties, k + 1 \in Int, j \in Int DEF Coming
  <2>3. QED
    BY <2>2, ConcatEmptySeq
<1>4. ASSUME NEW j \in k..3 PROVE Coming(k, j) \o <<Stages[j + 1]>> = Coming(k, j + 1)
  <2>1. k + 1 \in 1..Len(Stages) /\ j + 1 \in (k + 1)..Len(Stages) /\ (j + 1) - 1 = j
    BY <1>1
  <2>2. QED
    BY <1>1, <2>1, SubSeqRecursiveSecond DEF Coming
<1>5. QED
  BY <1>2, <1>3, <1>4

(* LiveTransitionDetector.observe reports the next stages, each observed.  *)
LEMMA TransitionsAreNext ==
  ASSUME NEW k \in 0..4, NEW s, NEW r
  PROVE  \E m \in k..4 :
           /\ Transitions(s, r, Known(k)) = Coming(k, m)
           /\ \A i \in (k + 1)..m : Observed(s, r)[Stages[i]]
<1> DEFINE seen(i) == Observed(s, r)[Stages[i]]
           held(i) == Stages[i] \in Known(k) \/ seen(i)
           new(i)  == IF Stages[i] \notin Known(k) /\ \A j \in 1..i : held(j)
                      THEN <<Stages[i]>> ELSE <<>>
<1>1. \A i \in 1..4 : Stages[i] \in Known(k) <=> i <= k
  BY FourStages DEF Known
<1>2. PICK m \in k..4 : (\A i \in (k + 1)..m : seen(i)) /\ (m < 4 => ~seen(m + 1))
  <2> HIDE DEF seen
  <2> DEFINE good(m) == (\A i \in (k + 1)..m : seen(i)) /\ (m < 4 => ~seen(m + 1))
  <2>1. CASE k = 4 \/ (k < 4 /\ ~seen(k + 1))
    <3>1. good(k)
      BY <2>1
    <3>2. QED
      BY <3>1
  <2>2. CASE k < 4 /\ seen(k + 1) /\ (k + 1 = 4 \/ ~seen(k + 2))
    <3>1. good(k + 1) /\ k + 1 \in k..4
      BY <2>2
    <3>2. QED
      BY <3>1
  <2>3. CASE k < 3 /\ seen(k + 1) /\ seen(k + 2) /\ (k + 2 = 4 \/ ~seen(k + 3))
    <3>1. good(k + 2) /\ k + 2 \in k..4
      BY <2>3
    <3>2. QED
      BY <3>1
  <2>4. CASE k < 2 /\ seen(k + 1) /\ seen(k + 2) /\ seen(k + 3) /\ (k + 3 = 4 \/ ~seen(k + 4))
    <3>1. good(k + 3) /\ k + 3 \in k..4
      BY <2>4
    <3>2. QED
      BY <3>1
  <2>5. CASE k = 0 /\ seen(1) /\ seen(2) /\ seen(3) /\ seen(4)
    <3>1. good(4) /\ 4 \in k..4
      BY <2>5
    <3>2. QED
      BY <3>1
  <2>6. QED
    BY <2>1, <2>2, <2>3, <2>4, <2>5
<1>3. \A i \in 1..4 : new(i) = IF i \in (k + 1)..m THEN <<Stages[i]>> ELSE <<>>
  <2> HIDE DEF seen
  <2>1. ASSUME NEW i \in 1..4
        PROVE  (Stages[i] \notin Known(k) /\ \A j \in 1..i : held(j)) <=> i \in (k + 1)..m
    <3>1. CASE i <= k
      BY <1>1, <3>1
    <3>2. CASE i > k /\ i <= m
      BY <1>1, <1>2, <3>2
    <3>3. CASE i > m
      <4>1. m < 4 /\ m + 1 \in 1..i /\ ~held(m + 1)
        BY <1>1, <1>2, <3>3
      <4>2. QED
        BY <3>3, <4>1
    <3>4. QED
      BY <3>1, <3>2, <3>3
  <2>2. QED
    BY <2>1
<1> DEFINE upTo(n) == IF n < k THEN <<>> ELSE Coming(k, IF n < m THEN n ELSE m)
<1> HIDE DEF new
<1>4. ASSUME NEW n \in 0..3 PROVE upTo(n) \o new(n + 1) = upTo(n + 1)
  <2>1. n + 1 \in 1..4 /\ (n + 1 \in (k + 1)..m <=> k <= n /\ n < m)
    OBVIOUS
  <2>2. CASE n < k
    <3>1. new(n + 1) = <<>> /\ upTo(n) = <<>>
      BY <1>3, <2>1, <2>2
    <3>2. n + 1 # k => upTo(n + 1) = <<>>
      BY <2>2
    <3>3. n + 1 = k => upTo(n + 1) = Coming(k, k)
      BY <2>2
    <3>4. QED
      BY <3>1, <3>2, <3>3, ComingGrows
  <2>3. CASE k <= n /\ n < m
    <3>1. new(n + 1) = <<Stages[n + 1]>> /\ upTo(n) = Coming(k, n) /\ upTo(n + 1) = Coming(k, n + 1)
      BY <1>3, <2>1, <2>3
    <3>2. n \in k..3
      BY <2>3
    <3>3. QED
      BY <3>1, <3>2, ComingGrows
  <2>4. CASE k <= n /\ m <= n
    <3>1. new(n + 1) = <<>> /\ upTo(n) = Coming(k, m) /\ upTo(n + 1) = Coming(k, m)
      BY <1>3, <2>1, <2>4
    <3>2. QED
      BY <3>1, ComingGrows
  <2>5. n < k \/ (k <= n /\ n < m) \/ (k <= n /\ m <= n)
    OBVIOUS
  <2> HIDE DEF upTo
  <2>6. QED
    BY <2>2, <2>3, <2>4, <2>5
<1>5. upTo(0) = <<>> /\ upTo(4) = Coming(k, m)
  <2>1. k # 0 => upTo(0) = <<>>
    OBVIOUS
  <2>2. k = 0 => upTo(0) = Coming(k, k)
    OBVIOUS
  <2>3. upTo(4) = Coming(k, m)
    OBVIOUS
  <2> HIDE DEF upTo
  <2>4. QED
    BY <2>1, <2>2, <2>3, ComingGrows
<1>6. <<>> \o new(1) = new(1)
  BY <1>3, 1 \in 1..4
<1>7. new(1) \o new(2) \o new(3) \o new(4) = Coming(k, m)
  <2> HIDE DEF upTo
  <2>1. new(1) = upTo(1)
    BY <1>4, <1>5, <1>6, 0 \in 0..3, 0 + 1 = 1
  <2>2. upTo(1) \o new(2) = upTo(2)
    BY <1>4, 1 \in 0..3, 1 + 1 = 2
  <2>3. upTo(2) \o new(3) = upTo(3)
    BY <1>4, 2 \in 0..3, 2 + 1 = 3
  <2>4. upTo(3) \o new(4) = upTo(4)
    BY <1>4, 3 \in 0..3, 3 + 1 = 4
  <2>5. QED
    BY <1>5, <2>1, <2>2, <2>3, <2>4
<1>8. Transitions(s, r, Known(k)) = new(1) \o new(2) \o new(3) \o new(4)
  BY DEF Transitions, new
<1>9. QED
  BY <1>2, <1>7, <1>8
-----------------------------------------------------------------------------
(* The experiment before its first event, and in its loop.                 *)
Waiting == {"baseline", "ping", "create", "clsact", "stamp", "filter", "inject"}
Looping == {"drain", "bfd", "ospf", "route", "report"}

(* The detector has recorded the first k stages, and n of them have been   *)
(* reported; the others are still to be.                                   *)
Timeline(n, k) ==
  /\ recorded = Known(k)
  /\ pc \in Waiting => k = 0 /\ run = <<>> /\ pending = <<>>
  /\ pc \in Looping => run = Begun(n) /\ pending = Coming(n, k)
  /\ pc \in Looping \ {"report"} => n = k
  /\ pc \notin Looping => run = <<>> \/ run = Begun(n)

TimelineInv == \E k \in 0..4 : \E n \in 0..k : Timeline(n, k)

(* What the probe saw of the router, and what was recorded of it, is still *)
(* the case: while there is a fault the router only goes one way.          *)
RouterInv ==
  /\ step \in Before => pc = "baseline"
  /\ pc \in Waiting => sample = NoSample /\ recorded = {}
  /\ ~sample.bfd => ~bfdUp
  /\ ~sample.ospf => ~ospfFull
  /\ sample.metric = 140 => metric = 140
  /\ TransitionsAreReal

LiveInv == ScenarioTypeOK /\ TimelineInv /\ RouterInv

LEMMA NothingKnown ==
  /\ Known(0) = {} /\ Begun(0) = <<"blackhole_injected">> /\ Coming(0, 0) = <<>>
  /\ Known(4) = Range(Stages)
<1>1. Order \in Seq(Range(Stages) \cup {"blackhole_injected"}) /\ Len(Order) = 5
      /\ Order[1] = "blackhole_injected"
  BY DEF Order, Stages, Range
<1>2. Begun(0) = <<"blackhole_injected">>
  <2>1. /\ Begun(0) \in Seq(Range(Stages) \cup {"blackhole_injected"}) /\ Len(Begun(0)) = 1
        /\ Begun(0)[1] = Order[1]
    <3>1. \A i \in 1..1 : Order[i] \in Range(Stages) \cup {"blackhole_injected"}
      BY <1>1
    <3>2. QED
      BY <3>1, SubSeqProperties, 1 \in Int, 0 + 1 = 1, 1 - 1 + 1 = 1, 1 + 1 - 1 = 1, 1 \in 1..1,
         1 <= 1 DEF Begun
  <2>2. QED
    BY <1>1, <2>1
<1>3. QED
  BY <1>2, ComingGrows, FourStages DEF Known

LEMMA RunsGrow ==
  ASSUME NEW k \in 0..4, NEW n \in 0..k
  PROVE  /\ Begun(n) \in Seq(Range(Stages) \cup {"blackhole_injected"})
         /\ IsPrefix(Begun(n), Order)
         /\ Coming(n, k) = <<>> <=> n = k
         /\ Coming(n, k) # <<>> =>
              /\ Head(Coming(n, k)) = Stages[n + 1] /\ Tail(Coming(n, k)) = Coming(n + 1, k)
              /\ Append(Begun(n), Stages[n + 1]) = Begun(n + 1)
         /\ Coming(n, k) \in Seq(Known(k))
<1> DEFINE S == Range(Stages) \cup {"blackhole_injected"}
<1>1. /\ Stages \in Seq(Range(Stages)) /\ Len(Stages) = 4
      /\ <<"blackhole_injected">> \in Seq(S) /\ Len(<<"blackhole_injected">>) = 1
  BY DEF Stages, Range
<1>2. Stages \in Seq(S)
  BY <1>1, SeqMonotonic
<1> HIDE DEF S
<1>3. /\ Order \in Seq(S) /\ Len(Order) = 5
      /\ \A i \in 1..4 : Order[i + 1] = Stages[i]
  <2>1. /\ Order \in Seq(S) /\ Len(Order) = 5
        /\ \A i \in 1..5 : Order[i] = IF i <= 1 THEN <<"blackhole_injected">>[i] ELSE Stages[i - 1]
    <3> DEFINE first == <<"blackhole_injected">>
    <3>1. first \in Seq(S) /\ Len(first) = 1 /\ Len(first) + Len(Stages) = 5
      BY <1>1
    <3> HIDE DEF first
    <3>2. /\ first \o Stages \in Seq(S) /\ Len(first \o Stages) = 5
          /\ \A i \in 1..5 : (first \o Stages)[i] = IF i <= 1 THEN first[i] ELSE Stages[i - 1]
      <4>1. Stages \in Seq(S) /\ Len(Stages) = 4
        BY <1>1, <1>2
      <4>2. /\ first \o Stages \in Seq(S) /\ Len(first \o Stages) = Len(first) + Len(Stages)
            /\ \A i \in 1..Len(first) + Len(Stages) :
                 (first \o Stages)[i] = IF i <= Len(first) THEN first[i] ELSE Stages[i - Len(first)]
        BY <3>1, <4>1, ConcatProperties
      <4>3. QED
        BY <3>1, <4>1, <4>2
    <3>3. QED
      BY <3>2 DEF Order, first
  <2>2. QED
    BY <2>1
<1>4. \A i \in 1..5 : Order[i] \in S
  BY <1>3, ElementOfSeq
<1>5. /\ Begun(n) \in Seq(S) /\ Len(Begun(n)) = n + 1
  <2>1. \A i \in 1..(n + 1) : Order[i] \in S
    BY <1>4
  <2>2. QED
    BY <2>1, SubSeqProperties, 1 \in Int, n + 1 \in Int, 1 <= n + 1, (n + 1) - 1 + 1 = n + 1 DEF
       Begun
<1>6. IsPrefix(Begun(n), Order)
  <2>1. SubSeq(Begun(n), 1, n + 1) = Begun(n)
    BY <1>5, SubSeqFull
  <2>2. QED
    BY <1>3, <1>5, <2>1 DEF IsPrefix, Begun
<1>7. \A i \in 1..k : Stages[i] \in Known(k)
  BY DEF Known
<1>8. /\ Coming(n, k) \in Seq(Known(k)) /\ Len(Coming(n, k)) = k - n
  <2>1. /\ \A i \in (n + 1)..k : Stages[i] \in Known(k)
        /\ n + 1 \in Int /\ k \in Int
        /\ (IF n + 1 <= k THEN k - (n + 1) + 1 ELSE 0) = k - n
    BY <1>7
  <2>2. QED
    BY <2>1, SubSeqProperties DEF Coming
<1>9. Coming(n, k) = <<>> <=> n = k
  <2>1. CASE n = k
    BY <2>1, ComingGrows
  <2>2. CASE n # k
    <3>1. Len(Coming(n, k)) # 0 /\ Len(<<>>) = 0
      BY <1>8, <2>2
    <3>2. QED
      BY <2>2, <3>1
  <2>3. QED
    BY <2>1, <2>2
<1>10. ASSUME n # k
       PROVE  /\ Head(Coming(n, k)) = Stages[n + 1] /\ Tail(Coming(n, k)) = Coming(n + 1, k)
              /\ Append(Begun(n), Stages[n + 1]) = Begun(n + 1)
  <2>1. n + 1 \in 1..Len(Stages) /\ k \in (n + 1)..Len(Stages)
    BY <1>1, <1>10
  <2>2. Head(Coming(n, k)) = Stages[n + 1] /\ Tail(Coming(n, k)) = Coming(n + 1, k)
    BY <1>1, <2>1, HeadTailOfSubSeq DEF Coming
  <2>3. Begun(n + 1) = Begun(n) \o <<Order[n + 2]>>
    <3>1. 1 \in 1..Len(Order) /\ n + 2 \in 1..Len(Order) /\ (n + 2) - 1 = n + 1 /\ (n + 1) + 1 = n + 2
      BY <1>3, <1>10
    <3>2. QED
      BY <1>3, <3>1, SubSeqRecursiveSecond DEF Begun
  <2>4. Order[n + 2] = Stages[n + 1] /\ Order[n + 2] \in S
    <3>1. n + 1 \in 1..4 /\ (n + 1) + 1 = n + 2
      BY <1>10
    <3>2. QED
      BY <1>3, <1>4, <3>1
  <2>5. Append(Begun(n), Order[n + 2]) = Begun(n) \o <<Order[n + 2]>>
    BY <1>5, <2>4, AppendIsConcat
  <2>6. QED
    BY <2>2, <2>3, <2>4, <2>5
<1>11. QED
  BY <1>5, <1>6, <1>8, <1>9, <1>10 DEF S

(* _drain_ping takes one of the replies, or none.                          *)
LEMMA RecoveryIsAReply ==
  ASSUME NEW q \in Seq(Replies)
  PROVE  RecoveryIn(q) \in Replies \cup {NoReply}
<1> DEFINE late == {i \in DOMAIN q : q[i].late}
<1>1. CASE late = {}
  BY <1>1 DEF RecoveryIn
<1>2. CASE late # {}
  <2> DEFINE behind == {Len(q) - i : i \in late}
  <2>1. late \subseteq 1..Len(q) /\ Len(q) \in Nat /\ behind \in SUBSET Nat /\ behind # {}
    <3>1. late \subseteq 1..Len(q) /\ Len(q) \in Nat
      OBVIOUS
    <3>2. QED
      BY <1>2, <3>1
  <2>2. PICK m \in late : \A i \in late : m >= i
    <3>1. PICK d \in behind : \A c \in behind : <<c, d>> \notin OpToRel(<, Nat)
      BY <2>1, NatLessThanWellFounded, WFMin
    <3>2. \A c \in behind : c < d => <<c, d>> \in OpToRel(<, Nat)
      BY <2>1, Zenon DEF OpToRel
    <3>3. \A c \in behind : ~(c < d)
      BY <3>1, <3>2, Zenon
    <3>4. PICK m \in late : d = Len(q) - m
      OBVIOUS
    <3>5. \A i \in late : Len(q) - i \in behind
      OBVIOUS
    <3>6. \A i \in late : ~(Len(q) - i < Len(q) - m)
      BY <3>3, <3>4, <3>5, Zenon
    <3>7. Len(q) \in Int /\ \A i \in late : i \in Int
      BY <2>1
    <3> HIDE DEF late, behind
    <3>8. \A i \in late : m >= i
      BY <3>6, <3>7
    <3>9. QED
      BY <3>8
  <2>3. Max(late) \in late
    BY <2>2 DEF Max
  <2>4. q[Max(late)] \in Replies
    BY <2>3
  <2>5. RecoveryIn(q) = q[Max(late)]
    BY <1>2 DEF RecoveryIn
  <2>6. QED
    BY <2>4, <2>5
<1>3. QED
  BY <1>1, <1>2

(* Steps that report nothing and see nothing new.                          *)
LEMMA TimelineStays ==
  ASSUME TimelineInv, UNCHANGED <<recorded, pending, run>>,
         \/ pc' = pc \/ pc' \notin Waiting \cup Looping
         \/ pc \in Waiting /\ pc' \in Waiting
         \/ pc \in Looping \ {"report"} /\ pc' \in Looping
         \/ pc = "report" /\ pending = <<>> /\ pc' \in Looping
  PROVE  TimelineInv'
<1>0. PICK k \in 0..4 : \E n \in 0..k : Timeline(n, k)
  BY DEF TimelineInv
<1>1. PICK n \in 0..k : Timeline(n, k)
  BY <1>0
<1>2. pc = "report" /\ pending = <<>> => n = k
  BY <1>1, RunsGrow DEF Timeline, Looping
<1>3. Timeline(n, k)'
  BY <1>1, <1>2 DEF Timeline, Looping, Waiting
<1>4. QED
  BY <1>3 DEF TimelineInv

LEMMA RouterStays ==
  ASSUME RouterInv, UNCHANGED <<recorded, sample, network>>,
         pc' = pc \/ pc' \notin Waiting \/ pc \in Waiting,
         step' \in Before => step \in Before /\ pc' = pc
  PROVE  RouterInv'
BY DEF RouterInv, TransitionsAreReal, network

(* The router under the fault, and its observation.                        *)
LEMMA ConvergingKeeps ==
  ASSUME RouterInv, TimelineInv, Converge, step = "collect", step' = step
  PROVE  RouterInv' /\ TimelineInv'
<1>1. UNCHANGED <<recorded, pending, run, pc, sample>>
  BY DEF Converge, poll, api
<1>2. TimelineInv'
  BY <1>1, TimelineStays
<1>3. RouterInv'
  BY <1>1 DEF Converge, RouterInv, TransitionsAreReal
<1>4. QED
  BY <1>2, <1>3

LEMMA ReadingKeeps ==
  ASSUME ScenarioTypeOK, RouterInv, TimelineInv, SampleBfd \/ SampleOspf,
         step = "collect", step' = step
  PROVE  RouterInv' /\ TimelineInv'
<1>1. /\ UNCHANGED <<recorded, pending, run, network>>
      /\ pc \in Looping \ {"report"} /\ pc' \in Looping
  BY DEF SampleBfd, SampleOspf, Sample, GoTo, Looping, api, network
<1>2. TimelineInv'
  BY <1>1, TimelineStays
<1>3. \/ sample' = [sample EXCEPT !.bfd = bfdUp]
      \/ sample' = [sample EXCEPT !.ospf = ospfFull]
  BY DEF SampleBfd, SampleOspf, Sample
<1>4. sample \in [bfd : BOOLEAN, ospf : BOOLEAN, metric : {0, 30, 140}]
  BY DEF ScenarioTypeOK, TypeOK
<1>5. /\ ~sample'.bfd => ~bfdUp
      /\ ~sample'.ospf => ~ospfFull
      /\ sample'.metric = 140 => metric = 140
  BY <1>3, <1>4 DEF RouterInv
<1>6. RouterInv'
  BY <1>1, <1>5 DEF RouterInv, TransitionsAreReal, network, Looping, Waiting, Before, Ready
<1>7. QED
  BY <1>2, <1>6

(* The detector only accepts what is the case.                             *)
LEMMA DetectingKeeps ==
  ASSUME ScenarioTypeOK, RouterInv, TimelineInv, SampleRoute, step = "collect", step' = step
  PROVE  /\ RouterInv' /\ TimelineInv'
         /\ recorded' \subseteq Range(Stages) /\ pending' \in Seq(recorded')
<1> DEFINE read == [sample EXCEPT !.metric = metric]
<1>0. PICK k \in 0..4 : \E n \in 0..k : Timeline(n, k)
  BY DEF TimelineInv
<1>1. PICK n \in 0..k : Timeline(n, k)
  BY <1>0
<1>2. /\ pc = "route" /\ pc' = "report" /\ sample' = read
      /\ UNCHANGED <<recovery, run, network>>
      /\ pending' = Transitions(read, recovery, recorded)
      /\ recorded' = recorded \cup Range(Transitions(read, recovery, recorded))
  BY DEF SampleRoute, GoTo, api
<1>3. recorded = Known(k) /\ run = Begun(k)
  BY <1>1, <1>2 DEF Timeline, Looping
<1>4. PICK m \in k..4 :
        /\ Transitions(read, recovery, Known(k)) = Coming(k, m)
        /\ \A i \in (k + 1)..m : Observed(read, recovery)[Stages[i]]
  <2> HIDE DEF read
  <2>1. QED
    BY TransitionsAreNext
<1>5. m \in 0..4 /\ k \in 0..m
  OBVIOUS
<1>6. Range(Coming(k, m)) = {Stages[i] : i \in (k + 1)..m}
  <2>1. /\ DOMAIN Coming(k, m) = 1..(m - k)
        /\ \A i \in 1..(m - k) : Coming(k, m)[i] = Stages[k + i]
    BY SMTT(40), FourStages DEF Coming
  <2>2. \A i \in (k + 1)..m : i - k \in 1..(m - k) /\ k + (i - k) = i
    OBVIOUS
  <2>3. \A i \in 1..(m - k) : k + i \in (k + 1)..m
    OBVIOUS
  <2>4. QED
    BY SMTT(40), <2>1, <2>2, <2>3 DEF Range
<1>7. recorded' = Known(m) /\ pending' = Coming(k, m)
  <2>1. Known(m) = Known(k) \cup {Stages[i] : i \in (k + 1)..m}
    <3>1. 1..m = (1..k) \cup ((k + 1)..m)
      OBVIOUS
    <3>2. QED
      BY <3>1 DEF Known
  <2>2. QED
    BY <1>2, <1>3, <1>4, <1>6, <2>1
<1>8. TimelineInv'
  <2>1. Timeline(k, m)'
    BY <1>2, <1>3, <1>7 DEF Timeline, Looping, Waiting
  <2>2. QED
    BY <1>5, <2>1 DEF TimelineInv
<1>9. recorded' \subseteq Range(Stages) /\ pending' \in Seq(recorded')
  <2>1. Coming(k, m) \in Seq(Known(m))
    BY <1>5, RunsGrow
  <2>2. Known(m) \subseteq Range(Stages)
    BY <1>5, FourStages DEF Known
  <2>3. QED
    BY <1>7, <2>1, <2>2
<1>10. sample \in [bfd : BOOLEAN, ospf : BOOLEAN, metric : {0, 30, 140}]
  BY DEF ScenarioTypeOK, TypeOK
<1>11. /\ ~read.bfd => ~bfdUp
       /\ ~read.ospf => ~ospfFull
       /\ read.metric = metric
  BY <1>10 DEF RouterInv
<1>12. /\ 1 \in (k + 1)..m => ~bfdUp
       /\ 2 \in (k + 1)..m => ~ospfFull
       /\ 3 \in (k + 1)..m => metric = 140
  <2> HIDE DEF read
  <2>1. /\ Observed(read, recovery)["bfd_down"] => ~bfdUp
        /\ Observed(read, recovery)["ospf_neighbor_down"] => ~ospfFull
        /\ Observed(read, recovery)["route_failover"] => metric = 140
    BY <1>11 DEF Observed
  <2>2. QED
    BY <1>4, <2>1, FourStages
<1>13. TransitionsAreReal'
  <2>1. /\ "bfd_down" \in recorded' => "bfd_down" \in recorded \/ 1 \in (k + 1)..m
        /\ "ospf_neighbor_down" \in recorded' => "ospf_neighbor_down" \in recorded \/ 2 \in (k + 1)..m
        /\ "route_failover" \in recorded' => "route_failover" \in recorded \/ 3 \in (k + 1)..m
    <3>1. recorded' = recorded \cup {Stages[i] : i \in (k + 1)..m}
      BY <1>2, <1>3, <1>4, <1>6
    <3>2. (k + 1)..m \subseteq 1..4
      OBVIOUS
    <3>3. QED
      BY <3>1, <3>2, FourStages
  <2>2. QED
    BY <1>2, <1>12, <2>1 DEF RouterInv, TransitionsAreReal, network
<1>14. RouterInv'
  BY <1>2, <1>11, <1>13 DEF RouterInv, network, Waiting, Before, Ready
<1>15. QED
  BY <1>8, <1>9, <1>14

(* The API takes the events in the order in which they are reported.       *)
LEMMA ReportingKeeps ==
  ASSUME RouterInv, TimelineInv, RecordInjection \/ Report, step = "collect", step' = step
  PROVE  RouterInv' /\ TimelineInv'
<1>0. PICK k \in 0..4 : \E n \in 0..k : Timeline(n, k)
  BY DEF TimelineInv
<1>1. PICK n \in 0..k : Timeline(n, k)
  BY <1>0
<1>2. UNCHANGED <<recorded, sample, network>> /\ pc' \notin Waiting
  BY DEF RecordInjection, Report, GoTo, poll, Waiting
<1>3. RouterInv'
  BY <1>2, RouterStays DEF Before, Ready
<1>4. CASE RecordInjection
  <2>1. /\ pc = "inject" /\ pc' \in {"drain", "cleanup"} /\ run' = <<"blackhole_injected">>
        /\ UNCHANGED <<recorded, pending>>
    BY <1>4 DEF RecordInjection, GoTo, poll
  <2>2. k = 0 /\ pending = <<>>
    BY <1>1, <2>1 DEF Timeline, Waiting
  <2>3. Timeline(0, 0)'
    BY <1>1, <2>1, <2>2, NothingKnown DEF Timeline, Looping, Waiting
  <2>4. 0 \in 0..4 /\ 0 \in 0..0
    OBVIOUS
  <2>5. QED
    BY <1>3, <2>3, <2>4 DEF TimelineInv
<1>5. CASE Report
  <2>1. /\ pc = "report" /\ pending # <<>> /\ pc' \in {"report", "cleanup"}
        /\ run' = Append(run, Head(pending)) /\ pending' = Tail(pending) /\ recorded' = recorded
    BY <1>5 DEF Report
  <2>2. run = Begun(n) /\ pending = Coming(n, k)
    BY <1>1, <2>1 DEF Timeline, Looping
  <2>3. n + 1 \in 0..k /\ run' = Begun(n + 1) /\ pending' = Coming(n + 1, k)
    <3>1. /\ Coming(n, k) = <<>> <=> n = k
          /\ Coming(n, k) # <<>> =>
               /\ Head(Coming(n, k)) = Stages[n + 1] /\ Tail(Coming(n, k)) = Coming(n + 1, k)
               /\ Append(Begun(n), Stages[n + 1]) = Begun(n + 1)
      BY RunsGrow
    <3>2. n # k
      BY <2>1, <2>2, <3>1
    <3>3. n + 1 \in 0..k
      BY <3>2
    <3>4. QED
      BY <2>1, <2>2, <3>1, <3>3
  <2>4. Timeline(n + 1, k)'
    BY <1>1, <2>1, <2>3 DEF Timeline, Looping, Waiting
  <2>5. QED
    BY <1>3, <2>3, <2>4 DEF TimelineInv
<1>6. QED
  BY <1>4, <1>5
-----------------------------------------------------------------------------
LEMMA RunIsOfStages ==
  TimelineInv => /\ run \in Seq(Range(Stages) \cup {"blackhole_injected"})
                 /\ IsPrefix(run, Order)
<1> SUFFICES ASSUME TimelineInv
             PROVE  /\ run \in Seq(Range(Stages) \cup {"blackhole_injected"})
                    /\ IsPrefix(run, Order)
  OBVIOUS
<1>0. PICK k \in 0..4 : \E n \in 0..k : Timeline(n, k)
  BY DEF TimelineInv
<1>1. PICK n \in 0..k : Timeline(n, k)
  BY <1>0
<1>2. run = <<>> \/ run = Begun(n)
  BY <1>1 DEF Timeline, Waiting, Looping
<1>3. IsPrefix(<<>>, Order)
  <2>1. Len(<<>>) = 0 /\ Len(Order) \in Nat
    BY DEF Order, Stages
  <2>2. SubSeq(<<>>, 1, 0) = <<>> /\ SubSeq(Order, 1, 0) = <<>>
    BY SubSeqEmpty, 1 \in Int, 0 \in Int, 0 < 1
  <2>3. QED
    BY <2>1, <2>2 DEF IsPrefix
<1>4. <<>> \in Seq(Range(Stages) \cup {"blackhole_injected"})
  BY EmptySeq
<1>5. Begun(n) \in Seq(Range(Stages) \cup {"blackhole_injected"}) /\ IsPrefix(Begun(n), Order)
  BY RunsGrow
<1>6. QED
  BY <1>2, <1>3, <1>4, <1>5

(* The types of the variables that hold one value, and of the others.      *)
PlainTypes ==
  /\ pc \in {"baseline", "ping", "create", "clsact", "stamp", "filter", "inject", "drain",
             "bfd", "ospf", "route", "report", "verify", "cleanup", "keep"} \cup Ended
  /\ qdisc \in {"none", "clsact", "drop"}
  /\ bfdUp \in BOOLEAN /\ ospfFull \in BOOLEAN /\ metric \in {0, 30, 140}
  /\ flight \in {"none", "primary", "backup"}
  /\ stamped \in BOOLEAN /\ expired \in BOOLEAN /\ deleteFailed \in BOOLEAN

DataTypes ==
  /\ queue \in Seq(Replies) /\ Len(queue) <= MaxQueue
  /\ {recovery, evidence} \subseteq Replies \cup {NoReply}
  /\ sample \in [bfd : BOOLEAN, ospf : BOOLEAN, metric : {0, 30, 140}]
  /\ recorded \subseteq Range(Stages)
  /\ pending \in Seq(recorded)
  /\ run \in Seq(Range(Stages) \cup {"blackhole_injected"})

ScriptTypes ==
  /\ step \in {"clear", "deploy", "collect", "report", "trap", "destroy", "ended", "killed"}
             \cup Ready
  /\ second \in BOOLEAN /\ bfdEnabled \in BOOLEAN
  /\ capture \in [bfd : BOOLEAN, ospf : BOOLEAN, second : BOOLEAN, metric : {0, 30, 140}]
  /\ conformance \in {"absent", "fail", "pass", "torn"}
  /\ result \in BOOLEAN /\ keepLab \in BOOLEAN /\ trapFailed \in BOOLEAN

LEMMA TypesAreThese ==
  /\ ScenarioTypeOK <=> TypeOK /\ ScriptTypes
  /\ TypeOK <=> PlainTypes /\ DataTypes
<1>1. ScenarioTypeOK <=> TypeOK /\ ScriptTypes
  BY Zenon DEF ScenarioTypeOK, ScriptTypes
<1>2. TypeOK <=> PlainTypes /\ DataTypes
  BY Zenon DEF TypeOK, PlainTypes, DataTypes
<1>3. QED
  BY <1>1, <1>2

(* The collector and its surroundings keep their types.                    *)
LEMMA CollectingKeepsPlainTypes ==
  ASSUME PlainTypes, Collector \/ Converge \/ PingReply \/ ReadOutput \/ Expire \/ Kill
  PROVE  PlainTypes'
<1> USE DEF PlainTypes, GoTo, NothingElse, network, fault, ping, poll, api, Sample, InTry, Ended
<1>1. CASE Baseline
  BY <1>1 DEF Baseline
<1>2. CASE WaitForPing
  BY <1>2 DEF WaitForPing
<1>3. CASE CreateRun
  BY <1>3 DEF CreateRun
<1>4. CASE AddQdisc
  BY <1>4 DEF AddQdisc
<1>5. CASE StampFault
  BY <1>5 DEF StampFault
<1>6. CASE AddFilter
  BY <1>6 DEF AddFilter
<1>7. CASE RecordInjection
  BY <1>7 DEF RecordInjection
<1>8. CASE Drain
  BY <1>8 DEF Drain
<1>9. CASE SampleBfd
  BY <1>9 DEF SampleBfd
<1>10. CASE SampleOspf
  BY <1>10 DEF SampleOspf
<1>11. CASE SampleRoute
  BY <1>11 DEF SampleRoute
<1>12. CASE Report
  BY <1>12 DEF Report
<1>13. CASE Poll
  BY <1>13 DEF Poll
<1>14. CASE Verify
  BY <1>14 DEF Verify
<1>15. CASE Cleanup
  BY ZenonT(40), <1>15 DEF Cleanup
<1>16. CASE Fail
  BY <1>16 DEF Fail
<1>17. CASE PingReply
  BY <1>17 DEF PingReply
<1>18. CASE ReadOutput
  BY <1>18 DEF ReadOutput
<1>19. CASE Expire
  BY <1>19 DEF Expire
<1>20. CASE Kill
  BY <1>20 DEF Kill
<1>21. CASE Converge
  <2>1. bfdUp' \in BOOLEAN /\ ospfFull' \in BOOLEAN /\ metric' \in {0, 30, 140}
    BY <1>21 DEF Converge
  <2>2. UNCHANGED <<pc, qdisc, flight, stamped, expired, deleteFailed>>
    BY <1>21 DEF Converge
  <2>3. QED
    BY <2>1, <2>2
<1>22. QED
  BY <1>1, <1>2, <1>3, <1>4, <1>5, <1>6, <1>7, <1>8, <1>9, <1>10, <1>11, <1>12, <1>13,
     <1>14, <1>15, <1>16, <1>17, <1>18, <1>19, <1>20, <1>21 DEF Collector

LEMMA CollectingKeepsDataTypes ==
  ASSUME ScenarioTypeOK, RouterInv, TimelineInv, TimelineInv', step = "collect", step' = step,
         Collector \/ Converge \/ PingReply \/ ReadOutput \/ Expire \/ Kill
  PROVE  DataTypes'
<1>0. PlainTypes /\ DataTypes
  BY TypesAreThese
<1>1. run' \in Seq(Range(Stages) \cup {"blackhole_injected"})
  <2>1. (TimelineInv => /\ run \in Seq(Range(Stages) \cup {"blackhole_injected"})
                        /\ IsPrefix(run, Order))'
    BY RunIsOfStages, PTL
  <2>2. QED
    BY <2>1
<1>2. CASE Baseline \/ CreateRun \/ AddQdisc \/ StampFault \/ AddFilter \/ Poll \/ Verify
           \/ Cleanup \/ Fail \/ Kill \/ Expire \/ PingReply \/ Converge
  <2>1. UNCHANGED <<queue, recorded, pending, run, recovery, evidence, sample>>
    BY <1>2 DEF Baseline, CreateRun, AddQdisc, StampFault, AddFilter, Poll, Verify,
           Cleanup, Fail, Kill, Expire, PingReply, Converge, NothingElse, ping, poll, api
  <2>2. QED
    BY <1>0, <2>1 DEF DataTypes
<1>3. CASE WaitForPing
  <2>1. queue' = <<>> /\ UNCHANGED <<recorded, pending, run, recovery, evidence, sample>>
    BY <1>3 DEF WaitForPing, poll, api
  <2>2. <<>> \in Seq(Replies) /\ Len(<<>>) <= MaxQueue
    BY MaxQueueAssumption
  <2>3. QED
    BY <1>0, <2>1, <2>2 DEF DataTypes
<1>4. CASE RecordInjection
  <2>1. UNCHANGED <<queue, recorded, pending, recovery, evidence, sample>>
    BY <1>4 DEF RecordInjection, ping, poll
  <2>2. QED
    BY <1>0, <1>1, <2>1 DEF DataTypes
<1>5. CASE Drain
  <2>1. /\ queue' = queue \/ queue' = <<>>
        /\ recovery' = recovery \/ recovery' = RecoveryIn(queue)
        /\ UNCHANGED <<recorded, pending, run, evidence, sample>>
    BY <1>5 DEF Drain, api
  <2>2. <<>> \in Seq(Replies) /\ Len(<<>>) <= MaxQueue
    BY MaxQueueAssumption
  <2>3. RecoveryIn(queue) \in Replies \cup {NoReply}
    BY <1>0, RecoveryIsAReply DEF DataTypes
  <2>4. QED
    BY <1>0, <2>1, <2>2, <2>3 DEF DataTypes
<1>6. CASE SampleBfd \/ SampleOspf
  <2>1. /\ sample' = [sample EXCEPT !.bfd = bfdUp] \/ sample' = [sample EXCEPT !.ospf = ospfFull]
        /\ UNCHANGED <<queue, recorded, pending, run, recovery, evidence>>
    BY <1>6 DEF SampleBfd, SampleOspf, Sample, ping, api
  <2>2. sample' \in [bfd : BOOLEAN, ospf : BOOLEAN, metric : {0, 30, 140}]
    BY <1>0, <2>1 DEF PlainTypes, DataTypes
  <2>3. QED
    BY <1>0, <2>1, <2>2 DEF DataTypes
<1>7. CASE SampleRoute
  <2>1. /\ sample' = [sample EXCEPT !.metric = metric]
        /\ UNCHANGED <<queue, run, recovery, evidence>>
    BY <1>7 DEF SampleRoute, ping, api
  <2>2. sample' \in [bfd : BOOLEAN, ospf : BOOLEAN, metric : {0, 30, 140}]
    BY <1>0, <2>1 DEF PlainTypes, DataTypes
  <2>3. recorded' \subseteq Range(Stages) /\ pending' \in Seq(recorded')
    BY <1>7, DetectingKeeps
  <2>4. QED
    BY <1>0, <2>1, <2>2, <2>3 DEF DataTypes
<1>8. CASE Report
  <2>1. /\ pending # <<>> /\ pending' = Tail(pending)
        /\ evidence' = recovery \/ evidence' = evidence
        /\ UNCHANGED <<queue, recorded, recovery, sample>>
    BY <1>8 DEF Report, ping
  <2>2. pending' \in Seq(recorded)
    BY <1>0, <2>1 DEF DataTypes
  <2>3. QED
    BY <1>0, <1>1, <2>1, <2>2 DEF DataTypes
<1>9. CASE ReadOutput
  <2>1. /\ flight \in {"primary", "backup"} /\ stamped \in BOOLEAN
        /\ Len(queue) < MaxQueue /\ queue' = Append(queue, [path |-> flight, late |-> stamped])
        /\ UNCHANGED <<recorded, pending, run, recovery, evidence, sample>>
    BY <1>0, <1>9 DEF ReadOutput, PlainTypes, poll, api
  <2>2. [path |-> flight, late |-> stamped] \in Replies
    BY <2>1 DEF Replies
  <2>3. queue' \in Seq(Replies) /\ Len(queue') <= MaxQueue
    BY <1>0, <2>1, <2>2, MaxQueueAssumption DEF DataTypes
  <2>4. QED
    BY <1>0, <2>1, <2>3 DEF DataTypes
<1>10. QED
  BY <1>2, <1>3, <1>4, <1>5, <1>6, <1>7, <1>8, <1>9 DEF Collector

LEMMA CollectKeeps ==
  ASSUME LiveInv, Collect
  PROVE  LiveInv'
<1>1. /\ step = "collect" /\ UNCHANGED <<step, lab, script>>
      /\ Collector \/ Converge \/ PingReply \/ ReadOutput \/ Expire \/ Kill
  BY DEF Collect
<1>2. RouterInv' /\ TimelineInv'
  <2>1. CASE Converge
    BY <1>1, <2>1, ConvergingKeeps DEF LiveInv
  <2>2. CASE SampleBfd \/ SampleOspf
    BY <1>1, <2>2, ReadingKeeps DEF LiveInv
  <2>3. CASE SampleRoute
    BY <1>1, <2>3, DetectingKeeps DEF LiveInv
  <2>4. CASE RecordInjection \/ Report
    BY <1>1, <2>4, ReportingKeeps DEF LiveInv
  <2>5. CASE PingReply \/ ReadOutput \/ Expire
    <3>1. UNCHANGED <<pc, recorded, pending, run, sample, network>>
      BY <2>5 DEF PingReply, ReadOutput, Expire, poll, api
    <3>2. QED
      BY <1>1, <3>1, TimelineStays, RouterStays DEF LiveInv
  <2>6. CASE Kill \/ Fail \/ Verify \/ Cleanup
    <3>1. UNCHANGED <<recorded, pending, run, sample, network>> /\ pc' \notin Waiting \cup Looping
      BY <2>6 DEF Kill, Fail, Verify, Cleanup, GoTo, NothingElse, poll, api, Waiting, Looping
    <3>2. QED
      BY <1>1, <3>1, TimelineStays, RouterStays DEF LiveInv, Before, Ready
  <2>7. CASE Baseline \/ WaitForPing \/ CreateRun \/ AddQdisc \/ StampFault \/ AddFilter
    <3>1. /\ UNCHANGED <<recorded, pending, run, sample, network>>
          /\ pc \in Waiting /\ (pc' \in Waiting \/ pc' = "done")
      BY <2>7 DEF Baseline, WaitForPing, CreateRun, AddQdisc, StampFault, AddFilter, GoTo,
                  NothingElse, poll, api, network, Waiting
    <3>2. "done" \notin Waiting \cup Looping
      BY DEF Waiting, Looping
    <3>3. QED
      BY <1>1, <3>1, <3>2, TimelineStays, RouterStays DEF LiveInv, Before, Ready
  <2>8. CASE Drain \/ Poll
    <3>1. UNCHANGED <<recorded, pending, run, sample, network>>
      BY <2>8 DEF Drain, Poll, NothingElse, poll, api
    <3>2. \/ pc = "drain" /\ pc' = "bfd"
          \/ pc' \notin Waiting \cup Looping
          \/ pc = "report" /\ pending = <<>> /\ pc' = "drain"
      BY <2>8 DEF Drain, Poll, GoTo, Waiting, Looping
    <3>3. TimelineInv'
      BY <3>1, <3>2, TimelineStays DEF LiveInv, Looping
    <3>4. RouterInv'
      BY <1>1, <3>1, <3>2, RouterStays DEF LiveInv, Waiting, Before, Ready
    <3>5. QED
      BY <3>3, <3>4
  <2>9. QED
    BY <1>1, <2>1, <2>2, <2>3, <2>4, <2>5, <2>6, <2>7, <2>8 DEF Collector
<1>3. PlainTypes' /\ DataTypes'
  BY <1>1, <1>2, TypesAreThese, CollectingKeepsPlainTypes, CollectingKeepsDataTypes DEF LiveInv
<1>4. ScenarioTypeOK'
  <2>1. ScriptTypes
    BY TypesAreThese DEF LiveInv
  <2>2. ScriptTypes'
    BY <1>1, <2>1 DEF ScriptTypes, lab, script
  <2>3. (ScenarioTypeOK <=> PlainTypes /\ DataTypes /\ ScriptTypes)'
    BY TypesAreThese, PTL
  <2>4. QED
    BY <1>3, <2>2, <2>3
<1>5. QED
  BY <1>2, <1>4 DEF LiveInv

(* The script leaves the experiment alone.                                 *)
LEMMA ScriptKeeps ==
  ASSUME LiveInv, Script \/ Form \/ KillScript \/ PowerLoss
  PROVE  LiveInv'
<1>1. UNCHANGED <<ping, poll, api, expired>> /\ (pc' = pc \/ pc' = "killed")
  BY DEF Script, Form, KillScript, PowerLoss, Clear, Deploy, WaitRoute, EnableBfd, WaitBfd,
         CaptureBfd, CaptureOspf, CaptureRoute, Capture, Audit, Health, CollectorEnds, CheckResult,
         RemoveFault, Destroy, ScriptFails, collector
<1>2. /\ pc' # pc => step' = "killed"
      /\ step' \in Before => step \in Before
      /\ UNCHANGED network \/ step \in Before
  <2>1. pc' # pc => step' = "killed"
    BY DEF Script, Form, KillScript, PowerLoss, Clear, Deploy, WaitRoute, EnableBfd, WaitBfd,
           CaptureBfd, CaptureOspf, CaptureRoute, Capture, Audit, Health, CollectorEnds, CheckResult,
           RemoveFault, Destroy, ScriptFails, Advance, Before, Ready, collector
  <2>2. step' \in Before => step \in Before
    BY DEF Script, Form, KillScript, PowerLoss, Clear, Deploy, WaitRoute, EnableBfd, WaitBfd,
           CaptureBfd, CaptureOspf, CaptureRoute, Capture, Audit, Health, CollectorEnds, CheckResult,
           RemoveFault, Destroy, ScriptFails, Advance, Before, Ready
  <2>3. Deploy \/ Form => step \in Before
    BY DEF Deploy, Form, Advance, Before, Ready
  <2>4. ~(Deploy \/ Form) => UNCHANGED network
    BY DEF Script, KillScript, PowerLoss, Clear, WaitRoute, EnableBfd, WaitBfd,
           CaptureBfd, CaptureOspf, CaptureRoute, Capture, Audit, Health, CollectorEnds, CheckResult,
           RemoveFault, Destroy, ScriptFails
  <2>5. QED
    BY <2>1, <2>2, <2>3, <2>4
<1>3. TimelineInv'
  BY <1>1, TimelineStays DEF LiveInv, poll, api, Waiting, Looping
<1>4. RouterInv'
  <2>1. CASE UNCHANGED network
    BY <1>1, <1>2, <2>1, RouterStays DEF LiveInv, poll, Waiting, Before, Ready
  <2>2. CASE step \in Before
    <3>1. pc = "baseline" /\ sample = NoSample /\ recorded = {}
      BY <2>2 DEF LiveInv, RouterInv, Waiting
    <3>2. sample' = NoSample /\ recorded' = {}
      BY <1>1, <3>1 DEF poll
    <3>3. step' \in Before => pc' = "baseline"
      BY <1>1, <1>2, <3>1 DEF Before, Ready
    <3>4. QED
      BY <3>2, <3>3 DEF RouterInv, TransitionsAreReal, NoSample
  <2>3. QED
    BY <1>2, <2>1, <2>2
<1>5. ScenarioTypeOK'
  <2>1. PlainTypes /\ DataTypes /\ ScriptTypes
    BY TypesAreThese DEF LiveInv
  <2>2. PlainTypes'
    <3> USE <2>1 DEF PlainTypes, network, fault, ping, poll, api, collector, Ended, Ready, Advance
    <3>1. CASE Clear
      BY <3>1 DEF Clear
    <3>2. CASE Deploy
      BY <3>2 DEF Deploy
    <3>3. CASE WaitRoute
      BY <3>3 DEF WaitRoute
    <3>4. CASE EnableBfd
      BY <3>4 DEF EnableBfd
    <3>5. CASE WaitBfd
      BY <3>5 DEF WaitBfd
    <3>6. CASE Audit
      BY <3>6 DEF Audit, WriteEvidence, Verdict
    <3>7. CASE Health
      BY <3>7 DEF Health
    <3>8. CASE CollectorEnds
      BY <3>8 DEF CollectorEnds
    <3>9. CASE CheckResult
      BY <3>9 DEF CheckResult
    <3>10. CASE RemoveFault
      BY <3>10 DEF RemoveFault
    <3>11. CASE Destroy
      BY <3>11 DEF Destroy
    <3>12. CASE ScriptFails
      BY <3>12 DEF ScriptFails
    <3>13. CASE KillScript
      BY <3>13 DEF KillScript
    <3>14. CASE PowerLoss
      BY <3>14 DEF PowerLoss
    <3>15. CASE CaptureBfd \/ CaptureOspf \/ CaptureRoute
      BY <3>15 DEF CaptureBfd, CaptureOspf, CaptureRoute, Capture
    <3>16. CASE Form
      <4>1. bfdUp' \in BOOLEAN /\ ospfFull' \in BOOLEAN /\ metric' \in {0, 30, 140}
        BY <3>16 DEF Form
      <4>2. UNCHANGED <<pc, qdisc, flight, stamped, expired, deleteFailed>>
        BY <3>16 DEF Form
      <4>3. QED
        BY <4>1, <4>2
    <3>17. QED
      BY <3>1, <3>2, <3>3, <3>4, <3>5, <3>6, <3>7, <3>8, <3>9, <3>10, <3>11, <3>12, <3>13,
         <3>14, <3>15, <3>16 DEF Script
  <2>3. DataTypes'
    BY <1>1, <2>1 DEF DataTypes, ping, poll, api
  <2>4. ScriptTypes'
    <3> USE <2>1 DEF ScriptTypes, collector, lab, script, Ready, Advance
    <3>1. CASE Clear
      BY <3>1 DEF Clear
    <3>2. CASE Deploy
      BY <3>2 DEF Deploy
    <3>3. CASE WaitRoute
      BY <3>3 DEF WaitRoute
    <3>4. CASE EnableBfd
      BY <3>4 DEF EnableBfd
    <3>5. CASE WaitBfd
      BY <3>5 DEF WaitBfd
    <3>6. CASE Audit
      BY <3>6 DEF Audit, WriteEvidence, Verdict
    <3>7. CASE Health
      BY <3>7 DEF Health
    <3>8. CASE CollectorEnds
      BY <3>8 DEF CollectorEnds
    <3>9. CASE CheckResult
      BY <3>9 DEF CheckResult
    <3>10. CASE RemoveFault
      BY ZenonT(40), <3>10 DEF RemoveFault
    <3>11. CASE Destroy
      BY <3>11 DEF Destroy
    <3>12. CASE ScriptFails
      BY <3>12 DEF ScriptFails
    <3>13. CASE KillScript
      BY <3>13 DEF KillScript
    <3>14. CASE PowerLoss
      BY <3>14 DEF PowerLoss
    <3>15. CASE CaptureBfd \/ CaptureOspf \/ CaptureRoute
      <4>1. \/ capture' = [capture EXCEPT !.bfd = bfdUp]
            \/ capture' = [capture EXCEPT !.ospf = ospfFull, !.second = second]
            \/ capture' = [capture EXCEPT !.metric = metric]
        BY <3>15 DEF CaptureBfd, CaptureOspf, CaptureRoute, Capture
      <4>2. capture' \in [bfd : BOOLEAN, ospf : BOOLEAN, second : BOOLEAN, metric : {0, 30, 140}]
        <5>1. /\ bfdUp \in BOOLEAN /\ ospfFull \in BOOLEAN /\ metric \in {0, 30, 140}
              /\ capture \in [bfd : BOOLEAN, ospf : BOOLEAN, second : BOOLEAN, metric : {0, 30, 140}]
          BY <2>1 DEF PlainTypes
        <5>2. CASE capture' = [capture EXCEPT !.bfd = bfdUp]
          BY <5>1, <5>2
        <5>3. CASE capture' = [capture EXCEPT !.ospf = ospfFull, !.second = second]
          BY <5>1, <5>3
        <5>4. CASE capture' = [capture EXCEPT !.metric = metric]
          BY <5>1, <5>4
        <5>5. QED
          BY <4>1, <5>2, <5>3, <5>4
      <4>3. QED
        BY <3>15, <4>2 DEF CaptureBfd, CaptureOspf, CaptureRoute, Capture
    <3>16. CASE Form
      <4>1. second' \in BOOLEAN /\ UNCHANGED <<step, bfdEnabled, script>>
        BY <3>16 DEF Form
      <4>2. QED
        BY <4>1
    <3>17. QED
      BY <3>1, <3>2, <3>3, <3>4, <3>5, <3>6, <3>7, <3>8, <3>9, <3>10, <3>11, <3>12, <3>13,
         <3>14, <3>15, <3>16 DEF Script
  <2>5. (ScenarioTypeOK <=> PlainTypes /\ DataTypes /\ ScriptTypes)'
    BY TypesAreThese, PTL
  <2>6. QED
    BY <2>2, <2>3, <2>4, <2>5
<1>6. QED
  BY <1>3, <1>4, <1>5 DEF LiveInv

LEMMA LiveInitHolds == ScenarioInit => LiveInv
<1> SUFFICES ASSUME ScenarioInit PROVE LiveInv
  OBVIOUS
<1>1. Fresh /\ AnyNetwork
  BY DEF ScenarioInit
<1>2. PlainTypes
  <2>1. bfdUp \in BOOLEAN /\ ospfFull \in BOOLEAN /\ metric \in {0, 30, 140}
    BY <1>1 DEF AnyNetwork
  <2>2. QED
    BY <1>1, <2>1 DEF PlainTypes, Fresh, ScenarioInit
<1>3. ScenarioTypeOK
  <2>1. \A S : <<>> \in Seq(S)
    BY EmptySeq
  <2>2. Len(<<>>) <= MaxQueue
    BY MaxQueueAssumption
  <2>3. NoSample \in [bfd : BOOLEAN, ospf : BOOLEAN, metric : {0, 30, 140}]
    BY DEF NoSample
  <2>4. DataTypes
    BY <1>1, <2>1, <2>2, <2>3, Zenon DEF Fresh, DataTypes
  <2>5. ScriptTypes
    <3>1. Unread \in [bfd : BOOLEAN, ospf : BOOLEAN, second : BOOLEAN, metric : {0, 30, 140}]
      BY DEF Unread
    <3>2. QED
      BY <3>1 DEF ScenarioInit, ScriptTypes
  <2>6. QED
    BY <1>2, <2>4, <2>5, TypesAreThese
<1>4. TimelineInv
  <2>1. Timeline(0, 0)
    BY <1>1, NothingKnown DEF Fresh, Timeline, Waiting, Looping
  <2>2. 0 \in 0..4 /\ 0 \in 0..0
    OBVIOUS
  <2>3. QED
    BY <2>1, <2>2 DEF TimelineInv
<1>5. RouterInv
  BY <1>1 DEF Fresh, RouterInv, NoSample, TransitionsAreReal
<1>6. QED
  BY <1>3, <1>4, <1>5 DEF LiveInv

LEMMA LiveInvariance == ScenarioSpec => []LiveInv
<1>1. LiveInv /\ UNCHANGED scenarioVars => LiveInv'
  <2> SUFFICES ASSUME LiveInv, UNCHANGED scenarioVars PROVE LiveInv'
    OBVIOUS
  <2> USE DEF scenarioVars, vars, network, fault, ping, poll, api, lab, script
  <2>1. ScenarioTypeOK'
    BY DEF LiveInv, ScenarioTypeOK, TypeOK
  <2>2. TimelineInv'
    BY TimelineStays DEF LiveInv
  <2>3. RouterInv'
    BY RouterStays DEF LiveInv
  <2>4. QED
    BY <2>1, <2>2, <2>3 DEF LiveInv
<1>2. LiveInv /\ [ScenarioNext]_scenarioVars => LiveInv'
  BY <1>1, CollectKeeps, ScriptKeeps DEF ScenarioNext
<1>3. QED
  BY <1>2, LiveInitHolds, PTL DEF ScenarioSpec

(* Every variable of the script and of the experiment keeps its type.      *)
THEOREM ScenarioTypes == ScenarioSpec => []ScenarioTypeOK
<1>1. LiveInv => ScenarioTypeOK
  BY DEF LiveInv
<1>2. QED
  BY <1>1, LiveInvariance, PTL

(* The API holds a prefix of the causal order at any time, whichever of    *)
(* the calls that record it fail and wherever script or host are stopped.  *)
THEOREM EventsStayCausal == ScenarioSpec => []EventsInCausalOrder
<1>1. LiveInv => EventsInCausalOrder
  BY RunIsOfStages DEF LiveInv, EventsInCausalOrder, Order
<1>2. QED
  BY <1>1, LiveInvariance, PTL

(* What was recorded of BFD, OSPF and the route is the case: the samples   *)
(* of one poll are taken one after the other, but a router under the fault *)
(* does not come back.  Of the data plane's recovery this says nothing:    *)
(* RecoveryIsReal is false.                                                *)
THEOREM RecordedTransitionsAreReal == ScenarioSpec => []TransitionsAreReal
<1>1. LiveInv => TransitionsAreReal
  BY DEF LiveInv, RouterInv
<1>2. QED
  BY <1>1, LiveInvariance, PTL
=============================================================================
