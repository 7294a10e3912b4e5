--------------------------- MODULE EvidenceCapture ---------------------------
(***************************************************************************)
(* How measurements become evidence files.  A script of scenarios/ records *)
(* the lab's configuration fingerprint, captures one raw log after the     *)
(* other through tee, and has the logs aggregated into a JSON file, which  *)
(* is overwritten in place.  It may fail or be stopped anywhere; so may    *)
(* the host.  A run of a script is known by its number; a log that is      *)
(* complete holds the number of the run that captured it.                  *)
(***************************************************************************)
EXTENDS Integers, Sequences, FiniteSets, Functions

CONSTANTS
  MinTrials,     \* trials per profile that repeated evidence needs, 20
  MaxTrials,     \* and can have, 30
  MaxRuns,       \* bound: runs of the scripts, with the one that left the first logs
  MaxEvents      \* bound: captures that miss their event, edits and power losses

ASSUME CaptureAssumption ==
  /\ {MinTrials, MaxTrials, MaxRuns, MaxEvents} \subseteq Nat
  /\ 0 < MinTrials /\ MinTrials <= MaxTrials /\ 0 < MaxRuns

VARIABLES
  baseline,      \* the version of the baseline lab's files
  runs,          \* runs[i] is the version that run i fingerprinted
  logs,          \* the run that each raw log is from
  derived,       \* the claims of bfd-comparison.json and bfd-repeated-trials.json
  writer,        \* the script or aggregation that is being run
  events      \* counts them

Profiles == {"ospf_only", "bfd_100x3"}
Kinds == {"comparison", "repeated"}
Files == {f \in Kinds \X Profiles \X (1..MaxTrials) : f[1] = "comparison" => f[3] = 1}

Absent == 0
Broken == -1   \* cut off, or without an observable path transition

(* A claim names the run behind each log it was computed from.  A JSON     *)
(* file that is cut off claims nothing.                                    *)
Torn == <<>>

(* The logs of the first n trials of a kind.                               *)
Trials(k, n) == {f \in Files : f[1] = k /\ f[3] <= n}

(* In the order of a script: the profiles take turns.                      *)
Script(k, n) ==
  [i \in 1..(2 * n) |-> <<k, IF i % 2 = 1 THEN "ospf_only" ELSE "bfd_100x3", (i + 1) \div 2>>]

Idle == [at |-> "idle"]

CaptureTypeOK ==
  /\ baseline \in Nat
  /\ Len(runs) <= MaxRuns /\ Range(runs) \subseteq 1..baseline
  /\ logs \in [Files -> {Absent, Broken} \cup DOMAIN runs]
  /\ DOMAIN derived = Kinds
  /\ \A k \in Kinds : DOMAIN derived[k] \subseteq Trials(k, MaxTrials)
  /\ writer.at \in {"idle", "open", "tee", "write"}
  /\ events \in 0..MaxEvents
-----------------------------------------------------------------------------
(* A script that ran to its end, with n trials per profile, left this.     *)
CaptureInit(n) ==
  /\ baseline = 1 /\ runs = <<1>>
  /\ logs = [f \in Files |-> IF f \in Trials("comparison", 1) \cup Trials("repeated", n)
                             THEN 1 ELSE Absent]
  /\ derived = [k \in Kinds |-> [f \in Trials(k, IF k = "comparison" THEN 1 ELSE n) |-> 1]]
  /\ writer = Idle /\ events = 0

(* With the fingerprint of a lab that was deployed before.                 *)
MutStartScript(k, n) ==
  /\ writer.at = "idle" /\ Len(runs) < MaxRuns
  /\ k = "comparison" => n = 1
  /\ runs' = Append(runs, baseline - 1)
  /\ writer' = [at |-> "open", kind |-> k, trials |-> n, left |-> Script(k, n)]
  /\ UNCHANGED <<baseline, logs, derived, events>>

(* bfd_comparison_lab.sh, or bfd_repeated_trials_lab.sh: it starts with the*)
(* fingerprint of the lab that it then deploys.                            *)
StartScript(k, n) ==
  /\ writer.at = "idle" /\ Len(runs) < MaxRuns
  /\ k = "comparison" => n = 1
  /\ runs' = Append(runs, baseline)
  /\ writer' = [at |-> "open", kind |-> k, trials |-> n, left |-> Script(k, n)]
  /\ UNCHANGED <<baseline, logs, derived, events>>

(* tee truncates the log of the trial before.                              *)
OpenLog ==
  /\ writer.at = "open" /\ writer.left # <<>>
  /\ logs' = [logs EXCEPT ![Head(writer.left)] = Broken]
  /\ writer' = [writer EXCEPT !.at = "tee"]
  /\ UNCHANGED <<baseline, runs, derived, events>>

(* The capture is complete.  It may have missed the path change, which the *)
(* script does not notice.                                                 *)
CloseLog ==
  /\ writer.at = "tee"
  /\ \/ logs' = [logs EXCEPT ![Head(writer.left)] = Len(runs)] /\ UNCHANGED events
     \/ events < MaxEvents /\ events' = events + 1 /\ UNCHANGED logs
  /\ writer' = [writer EXCEPT !.at = "open", !.left = Tail(@)]
  /\ UNCHANGED <<baseline, runs, derived>>

(* parse_detection_log finds everything it needs.                          *)
Parses(f) == logs[f] \in DOMAIN runs

(* Summarizing each log by itself.                                         *)
MutAggregable(k, n) ==
  /\ k = "repeated" => MinTrials <= n /\ n <= MaxTrials
  /\ \A f \in Trials(k, n) : Parses(f)

(* build_comparison, build_repeated_evidence: every log parses, and all    *)
(* carry one configuration fingerprint.                                    *)
Aggregable(k, n) ==
  /\ k = "repeated" => MinTrials <= n /\ n <= MaxTrials
  /\ \A f \in Trials(k, n) : Parses(f)
  /\ \A f, g \in Trials(k, n) : runs[logs[f]] = runs[logs[g]]

(* The logs are read, then write_evidence truncates the JSON file ...      *)
Aggregate(k, n) ==
  /\ IF Aggregable(k, n)
     THEN /\ derived' = [derived EXCEPT ![k] = Torn]
          /\ writer' = [at |-> "write", kind |-> k, claim |-> Restrict(logs, Trials(k, n))]
     ELSE writer' = Idle /\ UNCHANGED derived
  /\ UNCHANGED <<baseline, runs, logs, events>>

(* The script goes on to aggregate.  It captures fewer trials only if told *)
(* to stop here; if it is told so with enough of them, it is as if it had  *)
(* failed.                                                                 *)
EndScript ==
  /\ writer.at = "open" /\ writer.left = <<>>
  /\ IF writer.kind = "repeated" /\ writer.trials < MinTrials
     THEN writer' = Idle /\ UNCHANGED <<baseline, runs, logs, derived, events>>
     ELSE Aggregate(writer.kind, writer.trials)

(* The aggregation is also a command of its own.                           *)
AggregateByHand(k, n) ==
  /\ writer.at = "idle"
  /\ k = "comparison" => n = 1
  /\ Aggregate(k, n)

(* ... and fills it.                                                       *)
FinishWrite ==
  /\ writer.at = "write"
  /\ derived' = [derived EXCEPT ![writer.kind] = writer.claim]
  /\ writer' = Idle
  /\ UNCHANGED <<baseline, runs, logs, events>>

(* A command of the script fails, or someone stops it.                     *)
WriterFails ==
  /\ writer.at # "idle"
  /\ writer' = Idle
  /\ UNCHANGED <<baseline, runs, logs, derived, events>>

WriterStep ==
  \/ \E k \in Kinds, n \in 1..MaxTrials : StartScript(k, n) \/ AggregateByHand(k, n)
  \/ OpenLog \/ CloseLog \/ EndScript \/ FinishWrite \/ WriterFails

(* None of these files is synced: a power loss may cut one of them off.    *)
LoseWrites ==
  /\ writer' = Idle
  /\ \/ UNCHANGED <<logs, derived>>
     \/ \E f \in Files : logs[f] # Absent /\ logs' = [logs EXCEPT ![f] = Broken] /\ UNCHANGED derived
     \/ \E k \in Kinds : derived' = [derived EXCEPT ![k] = Torn] /\ UNCHANGED logs
  /\ events < MaxEvents /\ events' = events + 1
  /\ UNCHANGED <<baseline, runs>>
-----------------------------------------------------------------------------
(* A claim is measured if it comes from complete captures only, of one     *)
(* configuration, and of an allowed number of trials for either profile.   *)
Measured(k, claim) ==
  claim # Torn =>
    /\ \E n \in 1..MaxTrials :
         DOMAIN claim = Trials(k, n) /\ (k = "repeated" => n >= MinTrials)
    /\ Range(claim) \subseteq DOMAIN runs
    /\ \A f, g \in DOMAIN claim : runs[claim[f]] = runs[claim[g]]
=============================================================================
