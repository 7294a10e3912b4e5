----------------------- MODULE TelemetryCollectorProofs -----------------------
(***************************************************************************)
(* Proofs about TelemetryCollector, for every number of routers.           *)
(***************************************************************************)
EXTENDS TelemetryCollector, TLAPS

(* A router that was asked in this round is unknown exactly if a command   *)
(* failed; the one being asked has answered each command so far; the ones  *)
(* behind it have said nothing.                                            *)
Done(t) == (readings[t] = <<>>) <=> (t \in failed)
Underway(t) == Len(readings[t]) = asked /\ t \notin failed
Untouched(t) == readings[t] = <<>> /\ t \notin failed

RoundInv ==
  /\ pc = "publish" => \A t \in Targets : Done(t)
  /\ pc = "collect" =>
       \A t \in Targets : /\ t < target => Done(t)
                          /\ t = target => Underway(t)
                          /\ t > target => Untouched(t)

(* What was said is what an answer of this round could say.                *)
Faithful(t) ==
  \A c \in DOMAIN readings[t] : \E state \in during[t] : readings[t][c] \in Parsed(c, state)

AnswersAreOfThisRound == \A t \in Targets : actual[t] \in during[t] /\ Faithful(t)

IndInv == TypeOK /\ RoundInv /\ AnswersAreOfThisRound

LEMMA Appended ==
  ASSUME NEW s \in Seq(Says), NEW a \in Says
  PROVE  /\ Append(s, a) \in Seq(Says)
         /\ Len(Append(s, a)) = Len(s) + 1
         /\ Append(s, a) # <<>>
         /\ DOMAIN Append(s, a) = DOMAIN s \cup {Len(s) + 1}
         /\ Append(s, a)[Len(s) + 1] = a
         /\ \A i \in DOMAIN s : Append(s, a)[i] = s[i]
<1>1. /\ Append(s, a) \in Seq(Says) /\ Len(Append(s, a)) = Len(s) + 1
      /\ Append(s, a) # <<>> /\ Len(s) \in Nat /\ DOMAIN s = 1..Len(s)
      /\ Append(s, a)[Len(s) + 1] = a
      /\ \A i \in 1..Len(s) : Append(s, a)[i] = s[i]
  OBVIOUS
<1>2. DOMAIN Append(s, a) = 1..(Len(s) + 1)
  BY <1>1
<1>3. QED
  BY <1>1, <1>2

LEMMA InitHolds == Init => IndInv
<1> SUFFICES ASSUME Init PROVE IndInv
  OBVIOUS
<1>1. 1 \in Targets /\ 0 \in 0..3
  BY NAssumption DEF Targets
<1>2. TypeOK
  BY <1>1 DEF Init, TypeOK
<1>3. RoundInv
  BY DEF Init, RoundInv, Done, Underway, Untouched, Targets
<1>4. AnswersAreOfThisRound
  BY DEF Init, AnswersAreOfThisRound, Faithful
<1>5. QED
  BY <1>2, <1>3, <1>4 DEF IndInv

(* Moving on, after the router being asked has become done.                *)
LEMMA NextTargetKeeps ==
  ASSUME TypeOK, pc = "collect", NextTarget,
         \A t \in Targets : t <= target => Done(t)',
         \A t \in Targets : t > target => Untouched(t)'
  PROVE  /\ RoundInv' /\ pc' \in {"collect", "publish"}
         /\ target' \in Targets /\ asked' \in 0..3
<1>1. target \in Nat /\ N \in Nat /\ Targets = 1..N /\ target \in Targets
  BY NAssumption DEF TypeOK, Targets
<1>2. CASE target < N
  <2>1. target' = target + 1 /\ pc' = "collect" /\ asked' = 0 /\ target' \in Targets
    BY <1>1, <1>2 DEF NextTarget
  <2>2. \A t \in Targets : /\ t < target' => Done(t)'
                           /\ t = target' => Untouched(t)'
                           /\ t > target' => Untouched(t)'
    <3> SUFFICES ASSUME NEW t \in Targets
                 PROVE  /\ t < target' => Done(t)'
                        /\ t >= target' => Untouched(t)'
      BY <1>1, <2>1
    <3>1. t \in Nat /\ (t < target' <=> t <= target) /\ (t >= target' <=> t > target)
      BY <1>1, <2>1
    <3>2. QED
      BY <3>1
  <2>3. QED
    BY <2>1, <2>2 DEF RoundInv, Untouched, Underway
<1>3. CASE ~(target < N)
  <2>1. target' = target /\ pc' = "publish" /\ asked' = 0
    BY <1>3 DEF NextTarget
  <2>2. \A t \in Targets : t <= target
    BY <1>1, <1>3
  <2>3. QED
    BY <1>1, <2>1, <2>2 DEF RoundInv
<1>4. QED
  BY <1>2, <1>3

LEMMA CommandKeeps == IndInv /\ Command => IndInv'
<1> SUFFICES ASSUME IndInv, Command PROVE IndInv'
  OBVIOUS
<1> USE DEF IndInv
<1>1. /\ target \in Targets /\ actual[target] \in States /\ readings[target] \in Seq(Says)
      /\ target \in Nat /\ asked \in 0..3 /\ asked + 1 \in Commands /\ Targets \subseteq Nat
      /\ pc = "collect" /\ Underway(target) /\ actual[target] \in during[target]
  BY DEF TypeOK, Command, RoundInv, AnswersAreOfThisRound, Targets, Commands
<1>2. PICK says \in Parsed(asked + 1, actual[target]) :
        readings' = [readings EXCEPT ![target] = Append(@, says)]
  BY DEF Command
<1>3. says \in Says
  BY <1>2 DEF Parsed
<1> DEFINE longer == Append(readings[target], says)
<1>4. /\ longer \in Seq(Says) /\ Len(longer) = asked + 1 /\ longer # <<>>
      /\ DOMAIN longer = DOMAIN readings[target] \cup {asked + 1}
      /\ longer[asked + 1] = says
      /\ \A i \in DOMAIN readings[target] : longer[i] = readings[target][i]
  BY <1>1, <1>3, Appended DEF Underway
<1> HIDE DEF longer
<1>5. /\ readings' = [readings EXCEPT ![target] = longer]
      /\ UNCHANGED <<mode, actual, during, failed>>
  BY <1>2 DEF Command, longer
<1>6. /\ readings' \in [Targets -> Seq(Says)] /\ readings'[target] = longer
      /\ \A t \in Targets : t # target => readings'[t] = readings[t]
  BY <1>1, <1>4, <1>5 DEF TypeOK
<1>7. AnswersAreOfThisRound'
  <2>1. \A t \in Targets : t = target => Faithful(t)'
    <3>1. \A c \in DOMAIN longer :
            \E state \in during[target] : longer[c] \in Parsed(c, state)
      <4>1. \A c \in DOMAIN readings[target] :
              \E state \in during[target] : longer[c] \in Parsed(c, state)
        BY <1>1, <1>4 DEF AnswersAreOfThisRound, Faithful
      <4>2. longer[asked + 1] \in Parsed(asked + 1, actual[target])
        BY <1>2, <1>4
      <4>3. QED
        BY <1>1, <1>4, <4>1, <4>2
    <3>2. QED
      BY <1>5, <1>6, <3>1 DEF Faithful
  <2>2. \A t \in Targets : t # target => Faithful(t)'
    BY <1>5, <1>6 DEF AnswersAreOfThisRound, Faithful
  <2>3. QED
    BY <1>5, <2>1, <2>2 DEF AnswersAreOfThisRound
<1>8. /\ \A t \in Targets : t < target => Done(t)'
      /\ \A t \in Targets : t > target => Untouched(t)'
  BY <1>1, <1>5, <1>6 DEF RoundInv, Done, Untouched
<1>9. RoundInv' /\ pc' \in {"collect", "publish"} /\ target' \in Targets /\ asked' \in 0..3
  <2>1. CASE asked + 1 \in 1..3
    <3>1. asked' = asked + 1 /\ pc' = "collect" /\ target' = target
      BY <1>1, <2>1 DEF Command
    <3>2. Underway(target)'
      BY <1>1, <1>4, <1>5, <1>6, <3>1 DEF Underway
    <3>3. QED
      BY <1>1, <1>8, <2>1, <3>1, <3>2 DEF RoundInv
  <2>2. CASE ~(asked + 1 \in 1..3)
    <3>1. \A t \in Targets : t <= target => Done(t)'
      <4>1. \A t \in Targets : t = target => Done(t)'
        BY <1>1, <1>4, <1>5, <1>6 DEF Done, Underway
      <4>2. QED
        BY <1>1, <1>8, <4>1
    <3>2. NextTarget
      BY <2>2 DEF Command
    <3>3. QED
      BY <1>1, <1>8, <3>1, <3>2, NextTargetKeeps
  <2>3. QED
    BY <2>1, <2>2
<1>10. QED
  BY <1>5, <1>6, <1>7, <1>9 DEF TypeOK

LEMMA FailureKeeps == IndInv /\ pc = "collect" /\ ReportUnknown /\ NextTarget => IndInv'
<1> SUFFICES ASSUME IndInv, pc = "collect", ReportUnknown, NextTarget PROVE IndInv'
  OBVIOUS
<1> USE DEF IndInv
<1>1. target \in Targets /\ target \in Nat /\ Targets \subseteq Nat
  BY DEF TypeOK, Targets
<1>2. /\ readings' \in [Targets -> Seq(Says)] /\ readings'[target] = <<>>
      /\ \A t \in Targets : t # target => readings'[t] = readings[t]
      /\ failed' = failed \cup {target} /\ UNCHANGED <<mode, actual, during>>
  BY <1>1 DEF ReportUnknown, TypeOK
<1>3. AnswersAreOfThisRound'
  <2>1. ASSUME NEW t \in Targets PROVE actual'[t] \in during'[t] /\ Faithful(t)'
    <3>1. actual'[t] \in during'[t] /\ Faithful(t)
      BY <1>2, <2>1 DEF AnswersAreOfThisRound
    <3>2. CASE t = target
      <4>1. DOMAIN readings'[t] = {}
        BY <1>2, <3>2
      <4>2. QED
        BY <3>1, <4>1 DEF Faithful
    <3>3. CASE t # target
      <4>1. readings'[t] = readings[t] /\ during'[t] = during[t]
        BY <1>2, <2>1, <3>3
      <4>2. QED
        BY <3>1, <4>1 DEF Faithful
    <3>4. QED
      BY <3>2, <3>3
  <2>2. QED
    BY <2>1 DEF AnswersAreOfThisRound
<1>4. /\ \A t \in Targets : t <= target => Done(t)'
      /\ \A t \in Targets : t > target => Untouched(t)'
  <2>1. \A t \in Targets : t = target => Done(t)'
    BY <1>2 DEF Done
  <2>2. \A t \in Targets : t < target => Done(t)'
    BY <1>1, <1>2 DEF RoundInv, Done
  <2>3. \A t \in Targets : t > target => Untouched(t)'
    BY <1>1, <1>2 DEF RoundInv, Untouched
  <2>4. QED
    BY <1>1, <2>1, <2>2, <2>3
<1>5. RoundInv' /\ pc' \in {"collect", "publish"} /\ target' \in Targets
      /\ asked' \in 0..3
  BY <1>4, NextTargetKeeps
<1>6. QED
  BY <1>1, <1>2, <1>3, <1>5 DEF TypeOK

LEMMA StepKeeps == IndInv /\ [Next]_vars => IndInv'
<1> SUFFICES ASSUME IndInv, [Next]_vars PROVE IndInv'
  OBVIOUS
<1>1. CASE Command
  BY <1>1, CommandKeeps
<1>2. CASE CommandFails \/ Refused
  BY <1>2, FailureKeeps DEF CommandFails, Refused
<1>3. CASE Accepted \/ Unavailable \/ AnswerLost
  BY <1>3 DEF Accepted, Unavailable, AnswerLost, Published, IndInv, TypeOK, RoundInv,
              AnswersAreOfThisRound, Faithful
<1>4. CASE Wake
  <2>1. /\ pc' = "collect" /\ target' = 1 /\ asked' = 0 /\ failed' = {}
        /\ readings' = [t \in Targets |-> <<>>] /\ during' = [t \in Targets |-> {actual[t]}]
        /\ actual' = actual /\ mode' = mode /\ 1 \in Targets
    BY <1>4, NAssumption DEF Wake, Fresh, Targets
  <2>2. TypeOK'
    BY <2>1 DEF IndInv, TypeOK
  <2>3. RoundInv'
    BY <2>1 DEF RoundInv, Done, Underway, Untouched, Targets
  <2>4. AnswersAreOfThisRound'
    BY <2>1 DEF AnswersAreOfThisRound, Faithful
  <2>5. QED
    BY <2>2, <2>3, <2>4 DEF IndInv
<1>5. CASE \E t \in Targets : Change(t)
  <2>1. PICK t \in Targets, s \in States :
          /\ actual' = [actual EXCEPT ![t] = s]
          /\ during' = [during EXCEPT ![t] = @ \cup {s}]
          /\ UNCHANGED <<mode, pc, target, asked, readings, failed>>
    BY <1>5 DEF Change
  <2>2. TypeOK'
    BY <2>1 DEF IndInv, TypeOK
  <2>3. RoundInv'
    BY <2>1 DEF IndInv, RoundInv, Done, Underway, Untouched
  <2>4. AnswersAreOfThisRound'
    BY <2>1 DEF IndInv, TypeOK, AnswersAreOfThisRound, Faithful
  <2>5. QED
    BY <2>2, <2>3, <2>4 DEF IndInv
<1>6. CASE UNCHANGED vars
  BY <1>6 DEF vars, IndInv, TypeOK, RoundInv, Done, Underway, Untouched,
              AnswersAreOfThisRound, Faithful
<1>7. QED
  BY <1>1, <1>2, <1>3, <1>4, <1>5, <1>6 DEF Next, Collector

LEMMA Invariance == Spec => []IndInv
BY InitHolds, StepKeeps, PTL DEF Spec

LEMMA IndInvIsHonest == IndInv => SnapshotsAreHonest
BY DEF IndInv, RoundInv, Done, AnswersAreOfThisRound, Faithful, SnapshotsAreHonest

(* A published snapshot says of each router only what an answer of the     *)
(* round could say, and nothing exactly of the routers whose own           *)
(* collection failed.                                                      *)
THEOREM PublishedSnapshotsAreHonest == Spec => []SnapshotsAreHonest
BY Invariance, IndInvIsHonest, PTL

(* What the interface gauge of a router is rendered from.                  *)
LEMMA InterfaceStates ==
  ASSUME IndInv, pc = "publish", NEW x \in Targets
  PROVE  \/ InterfaceState(x) = "unknown" /\ x \in failed
         \/ /\ x \notin failed
            /\ \/ InterfaceState(x) = "up" /\ "up" \in during[x]
               \/ InterfaceState(x) = "down" /\ "down" \in during[x]
               \/ InterfaceState(x) = "unknown" /\ "missing" \in during[x]
<1>1. readings[x] \in Seq(Says) /\ Done(x) /\ Faithful(x) /\ during[x] \subseteq States
  BY DEF IndInv, TypeOK, RoundInv, AnswersAreOfThisRound
<1>2. CASE readings[x] = <<>>
  BY <1>1, <1>2 DEF Done, InterfaceState
<1>3. CASE readings[x] # <<>>
  <2>1. 1 \in DOMAIN readings[x] /\ x \notin failed
    BY <1>1, <1>3 DEF Done
  <2>2. PICK state \in during[x] : readings[x][1] \in Parsed(1, state)
    BY <1>1, <2>1 DEF Faithful
  <2>3. /\ state = "up" => readings[x][1] = "up"
        /\ state = "down" => readings[x][1] = "down"
        /\ state = "missing" => readings[x][1] = "unknown"
    BY <2>2 DEF Parsed, Says
  <2>4. InterfaceState(x) = readings[x][1] /\ state \in States
    BY <1>1, <1>3, <2>2 DEF InterfaceState
  <2>5. QED
    BY <2>1, <2>2, <2>3, <2>4 DEF States
<1>4. QED
  BY <1>2, <1>3

(* A link is shown up only if both its ends were asked and up during the   *)
(* round, down only if one was asked and down, unknown only if one could   *)
(* not be asked or its interface was missing.                              *)
THEOREM MissingStatesStayUnknown == Spec => []UnknownStaysUnknown
<1>1. IndInv => UnknownStaysUnknown
  <2> SUFFICES ASSUME IndInv, pc = "publish", NEW t \in Targets, NEW u \in Targets
               PROVE  LET was(x, state) == x \notin failed /\ state \in during[x]
                          gauge == LinkGauge(t, u)
                      IN  /\ gauge = 1  => was(t, "up") /\ was(u, "up")
                          /\ gauge = 0  => was(t, "down") \/ was(u, "down")
                          /\ gauge = -1 => \E x \in {t, u} : x \in failed \/ was(x, "missing")
    BY DEF UnknownStaysUnknown
  <2>1. CASE "down" \in {InterfaceState(t), InterfaceState(u)}
    <3>1. LinkGauge(t, u) = 0
      BY <2>1 DEF LinkGauge
    <3>2. QED
      BY <2>1, <3>1, InterfaceStates
  <2>2. CASE {InterfaceState(t), InterfaceState(u)} = {"up"}
    <3>1. LinkGauge(t, u) = 1 /\ InterfaceState(t) = "up" /\ InterfaceState(u) = "up"
      BY <2>2 DEF LinkGauge
    <3>2. QED
      BY <3>1, InterfaceStates
  <2>3. CASE /\ "down" \notin {InterfaceState(t), InterfaceState(u)}
             /\ {InterfaceState(t), InterfaceState(u)} # {"up"}
    <3>1. LinkGauge(t, u) = -1
      BY <2>3 DEF LinkGauge
    <3>2. \E x \in {t, u} : InterfaceState(x) = "unknown"
      <4>1. InterfaceState(t) \in {"up", "unknown"} /\ InterfaceState(u) \in {"up", "unknown"}
        BY <2>3, InterfaceStates
      <4>2. QED
        BY <2>3, <4>1
    <3>3. QED
      BY <3>1, <3>2, InterfaceStates
  <2>4. QED
    BY <2>1, <2>2, <2>3
<1>2. QED
  BY <1>1, Invariance, PTL
=============================================================================
