------------------------- MODULE EvidenceBundleProofs -------------------------
(***************************************************************************)
(* Proofs about EvidenceBundle, for all numbers of trials, runs and events. *)
(***************************************************************************)
EXTENDS EvidenceBundle, FiniteSetTheorems, TLAPS

(* Measured, as a property of the runs so far.                             *)
Sound(rs, k, claim) ==
  claim # Torn =>
    /\ \E n \in 1..MaxTrials :
         DOMAIN claim = Trials(k, n) /\ (k = "repeated" => n >= MinTrials)
    /\ Range(claim) \subseteq DOMAIN rs
    /\ \A f, g \in DOMAIN claim : rs[claim[f]] = rs[claim[g]]

LEMMA MeasuredIsSound == \A k, c : Measured(k, c) <=> Sound(runs, k, c)
BY DEF Measured, Sound

(* Two claims of one configuration.                                        *)
Versions(rs, c, d) == {rs[r] : r \in Range(c) \cup Range(d)}
OneConfig(rs, c, d) == \E v : Versions(rs, c, d) = {v}

(* Runs are only ever added.                                               *)
Grows == runs' = runs \/ \E v \in Nat : runs' = Append(runs, v)

LEMMA GrowingKeepsRuns ==
  ASSUME runs \in Seq(Nat), Grows
  PROVE  /\ runs' \in Seq(Nat) /\ DOMAIN runs \subseteq DOMAIN runs'
         /\ \A r \in DOMAIN runs : runs'[r] = runs[r]
<1>1. CASE runs' = runs
  BY <1>1
<1>2. ASSUME NEW v \in Nat, runs' = Append(runs, v)
      PROVE  /\ runs' \in Seq(Nat) /\ DOMAIN runs \subseteq DOMAIN runs'
             /\ \A r \in DOMAIN runs : runs'[r] = runs[r]
  <2>1. /\ runs' \in Seq(Nat) /\ Len(runs') = Len(runs) + 1 /\ Len(runs) \in Nat
        /\ \A r \in 1..Len(runs) : runs'[r] = runs[r]
    BY <1>2
  <2>2. DOMAIN runs = 1..Len(runs) /\ DOMAIN runs' = 1..(Len(runs) + 1)
    BY <2>1
  <2>3. QED
    BY <2>1, <2>2
<1>3. QED
  BY <1>1, <1>2 DEF Grows

(* What was sound stays sound, and what was of one configuration.          *)
LEMMA SoundStays ==
  ASSUME runs \in Seq(Nat), Grows
  PROVE  /\ \A k, c : Sound(runs, k, c) => Sound(runs', k, c)
         /\ \A k, j, c, d : Sound(runs, k, c) /\ Sound(runs, j, d) /\ OneConfig(runs, c, d)
              => OneConfig(runs', c, d)
<1>1. /\ DOMAIN runs \subseteq DOMAIN runs'
      /\ \A r \in DOMAIN runs : runs'[r] = runs[r]
  BY GrowingKeepsRuns
<1>2. \A k, c : Sound(runs, k, c) => Range(c) \subseteq DOMAIN runs
  BY DEF Sound, Range, Torn
<1>3. ASSUME NEW k, NEW c, Sound(runs, k, c) PROVE Sound(runs', k, c)
  <2>1. \A f \in DOMAIN c : c[f] \in Range(c)
    BY DEF Range
  <2>2. QED
    BY <1>1, <1>2, <1>3, <2>1 DEF Sound
<1>4. ASSUME NEW k, NEW j, NEW c, NEW d, Sound(runs, k, c), Sound(runs, j, d),
             OneConfig(runs, c, d)
      PROVE  OneConfig(runs', c, d)
  <2>1. Range(c) \cup Range(d) \subseteq DOMAIN runs
    BY <1>2, <1>4
  <2>2. Versions(runs', c, d) = Versions(runs, c, d)
    BY <1>1, <2>1 DEF Versions
  <2>3. QED
    BY <1>4, <2>2 DEF OneConfig
<1>5. QED
  BY <1>3, <1>4

(* The runs, what the captures write, and what they are about to write.    *)
CaptureInv ==
  /\ runs \in Seq(Nat) /\ baseline \in Nat
  /\ DOMAIN derived = Kinds
  /\ \A k \in Kinds : Sound(runs, k, derived[k])

WriterInv ==
  /\ writer.at \in {"idle", "open", "tee", "write"}
  /\ writer.at \in {"open", "tee"} =>
       /\ DOMAIN writer = {"at", "kind", "trials", "left"}
       /\ writer.kind \in Kinds /\ writer.trials \in 1..MaxTrials
       /\ writer.kind = "comparison" => writer.trials = 1
  /\ writer.at = "write" => writer.kind \in Kinds /\ Sound(runs, writer.kind, writer.claim)

LEMMA AggregatesAreSound ==
  ASSUME NEW k \in Kinds, NEW n \in 1..MaxTrials, k = "comparison" => n = 1,
         Aggregable(k, n)
  PROVE  Sound(runs, k, Restrict(logs, Trials(k, n)))
<1> DEFINE claim == Restrict(logs, Trials(k, n))
<1>1. DOMAIN claim = Trials(k, n) /\ \A f \in Trials(k, n) : claim[f] = logs[f]
  BY DEF Restrict
<1>2. Range(claim) \subseteq DOMAIN runs
  BY <1>1 DEF Range, Aggregable, Parses
<1>3. QED
  BY <1>1, <1>2 DEF Sound, Aggregable

LEMMA AggregatingKeeps ==
  ASSUME CaptureInv, NEW k \in Kinds, NEW n \in 1..MaxTrials, k = "comparison" => n = 1,
         Aggregate(k, n)
  PROVE  CaptureInv' /\ WriterInv' /\ runs' = runs
<1>1. runs' = runs /\ baseline' = baseline
  BY DEF Aggregate
<1>2. \A c : Sound(runs, c, Torn)
  BY DEF Sound
<1>3. CASE Aggregable(k, n)
  <2>1. /\ derived' = [derived EXCEPT ![k] = Torn]
        /\ writer' = [at |-> "write", kind |-> k, claim |-> Restrict(logs, Trials(k, n))]
    BY <1>3 DEF Aggregate
  <2>2. Sound(runs, k, Restrict(logs, Trials(k, n)))
    BY <1>3, AggregatesAreSound
  <2>3. QED
    BY <1>1, <1>2, <2>1, <2>2 DEF CaptureInv, WriterInv
<1>4. CASE ~Aggregable(k, n)
  BY <1>1, <1>4 DEF Aggregate, CaptureInv, WriterInv, Idle
<1>5. QED
  BY <1>3, <1>4

(* A run of a script, or an aggregation by hand, keeps the claims sound.   *)
LEMMA WritingKeeps ==
  ASSUME CaptureInv, WriterInv, WriterStep
  PROVE  CaptureInv' /\ WriterInv' /\ Grows
<1>1. ASSUME NEW k \in Kinds, NEW n \in 1..MaxTrials, StartScript(k, n)
      PROVE  CaptureInv' /\ WriterInv' /\ Grows
  <2>1. Grows /\ baseline' = baseline /\ derived' = derived
    BY <1>1 DEF StartScript, Grows, CaptureInv
  <2>2. CaptureInv'
    BY <2>1, GrowingKeepsRuns, SoundStays DEF CaptureInv
  <2>3. WriterInv'
    BY <1>1 DEF StartScript, WriterInv
  <2>4. QED
    BY <2>1, <2>2, <2>3
<1>2. ASSUME NEW k \in Kinds, NEW n \in 1..MaxTrials, AggregateByHand(k, n)
      PROVE  CaptureInv' /\ WriterInv' /\ Grows
  BY <1>2, AggregatingKeeps DEF AggregateByHand, Grows
<1>3. CASE OpenLog
  BY <1>3 DEF OpenLog, CaptureInv, WriterInv, Grows
<1>4. CASE CloseLog
  BY <1>4 DEF CloseLog, CaptureInv, WriterInv, Grows
<1>5. CASE EndScript
  <2>1. CASE writer.kind = "repeated" /\ writer.trials < MinTrials
    BY <1>5, <2>1 DEF EndScript, CaptureInv, WriterInv, Grows, Idle
  <2>2. CASE ~(writer.kind = "repeated" /\ writer.trials < MinTrials)
    BY <1>5, <2>2, AggregatingKeeps DEF EndScript, WriterInv, Grows
  <2>3. QED
    BY <2>1, <2>2
<1>6. CASE FinishWrite
  BY <1>6 DEF FinishWrite, CaptureInv, WriterInv, Grows, Idle
<1>7. CASE WriterFails
  BY <1>7 DEF WriterFails, CaptureInv, WriterInv, Grows, Idle
<1>8. QED
  BY <1>1, <1>2, <1>3, <1>4, <1>5, <1>6, <1>7 DEF WriterStep

LEMMA PowerLossKeepsCaptures ==
  ASSUME CaptureInv, LoseWrites
  PROVE  CaptureInv' /\ WriterInv' /\ runs' = runs
<1>1. runs' = runs /\ baseline' = baseline /\ writer' = Idle
  BY DEF LoseWrites
<1>2. derived' = derived \/ \E k \in Kinds : derived' = [derived EXCEPT ![k] = Torn]
  BY DEF LoseWrites
<1>3. CaptureInv'
  BY <1>1, <1>2 DEF CaptureInv, Sound
<1>4. QED
  BY <1>1, <1>3 DEF WriterInv, Idle
-----------------------------------------------------------------------------
LEMMA PutEffect ==
  ASSUME NEW f, NEW x, NEW v
  PROVE  /\ DOMAIN Put(f, x, v) = DOMAIN f \cup {x} /\ Put(f, x, v)[x] = v
         /\ \A y \in DOMAIN f : y # x => Put(f, x, v)[y] = f[y]
BY DEF Put

(* Where a command holds both claims, and where it has compared their      *)
(* configurations.                                                         *)
Compared == /\ checker.at \in {"comparison", "repeated", "audit", "report", "write"}
            /\ checker.at = "write" => checker.does = "report"

Loaded == \/ Compared
          \/ checker.at \in {"fingerprint", "serving"}

CheckerInv ==
  /\ "at" \in DOMAIN checker
  /\ checker.at \notin Resting => "does" \in DOMAIN checker
  /\ checker.at \in {"inventory", "load"} =>
       /\ "left" \in DOMAIN checker
       /\ \/ checker.left = <<"comparison", "repeated">>
          \/ checker.left = <<"repeated">> /\ checker.at = "load" /\ "comparison" \in DOMAIN checker
  /\ \A k \in Kinds \cap DOMAIN checker : Sound(runs, k, checker[k])
  /\ Loaded => Kinds \subseteq DOMAIN checker
  /\ Compared => OneConfig(runs, checker["comparison"], checker["repeated"])

ReportInv ==
  report # Nothing =>
    /\ \A k \in Kinds : Sound(runs, k, report[k])
    /\ OneConfig(runs, report["comparison"], report["repeated"])

IndInv == CaptureInv /\ WriterInv /\ CheckerInv /\ ReportInv

(* What the others do while runs are added.                                *)
LEMMA OthersKeep ==
  ASSUME runs \in Seq(Nat), Grows, CheckerInv, ReportInv, UNCHANGED checker,
         report' \in {report, Nothing}
  PROVE  CheckerInv' /\ ReportInv'
<1>1. CheckerInv'
  <2>1. /\ \A k \in Kinds \cap DOMAIN checker : Sound(runs', k, checker[k])
        /\ Compared => OneConfig(runs', checker["comparison"], checker["repeated"])
    <3>1. Compared => /\ Sound(runs, "comparison", checker["comparison"])
                      /\ Sound(runs, "repeated", checker["repeated"])
                      /\ OneConfig(runs, checker["comparison"], checker["repeated"])
      BY DEF CheckerInv, Loaded, Kinds
    <3>2. QED
      BY <3>1, SoundStays DEF CheckerInv
  <2>2. QED
    BY <2>1 DEF CheckerInv, Loaded, Compared
<1>2. ReportInv'
  <2>1. report # Nothing => /\ Sound(runs, "comparison", report["comparison"])
                            /\ Sound(runs, "repeated", report["repeated"])
                            /\ OneConfig(runs, report["comparison"], report["repeated"])
    BY DEF ReportInv, Kinds
  <2>2. QED
    BY <2>1, SoundStays DEF ReportInv, Kinds
<1>3. QED
  BY <1>1, <1>2

LEMMA InitHolds == Init => IndInv
<1> SUFFICES ASSUME Init PROVE IndInv
  OBVIOUS
<1>1. runs = <<1>> /\ baseline = 1 /\ writer = Idle /\ checker = Idle
  BY DEF Init, CaptureInit
<1>2. /\ DOMAIN derived = Kinds
      /\ \A k \in Kinds :
           derived[k] = [f \in Trials(k, IF k = "comparison" THEN 1 ELSE BundleTrials) |-> 1]
  BY DEF Init, CaptureInit
<1>3. \A k \in Kinds :
        /\ DOMAIN derived[k] = Trials(k, IF k = "comparison" THEN 1 ELSE BundleTrials)
        /\ \A f \in DOMAIN derived[k] : derived[k][f] = 1
  BY <1>2
<1>4. /\ (IF TRUE THEN 1 ELSE 1) \in 1..MaxTrials /\ BundleTrials \in 1..MaxTrials
      /\ BundleTrials >= MinTrials
  BY CaptureAssumption, BundleAssumption
<1>5. ASSUME NEW k \in Kinds
      PROVE  Sound(runs, k, derived[k]) /\ Range(derived[k]) \subseteq {1}
  <2>1. PICK n \in 1..MaxTrials : DOMAIN derived[k] = Trials(k, n) /\ (k = "repeated" => n >= MinTrials)
    BY <1>3, <1>4 DEF Kinds
  <2>2. Range(derived[k]) \subseteq {1}
    BY <1>3 DEF Range
  <2>3. DOMAIN runs = {1} /\ runs[1] = 1
    BY <1>1
  <2>4. QED
    BY <1>3, <2>1, <2>2, <2>3 DEF Sound
<1>6. Range(derived["comparison"]) # {}
  <2>1. <<"comparison", "ospf_only", 1>> \in Trials("comparison", 1)
    BY CaptureAssumption DEF Trials, Files, Kinds, Profiles
  <2>2. QED
    BY <1>3, <2>1 DEF Range, Kinds
<1>7. CaptureInv /\ WriterInv /\ CheckerInv
  BY <1>1, <1>2, <1>5 DEF CaptureInv, WriterInv, CheckerInv, Loaded, Compared, Resting, Idle, Kinds
<1>8. ReportInv
  <2>1. \A k \in Kinds : report[k] = derived[k]
    <3>1. report = Put(derived, "domains", domains)
      BY DEF Init, Claims
    <3>2. \A k \in Kinds : k \in DOMAIN derived /\ k # "domains"
      BY <1>2 DEF Kinds
    <3>3. QED
      BY <3>1, <3>2 DEF Put
  <2>2. Range(report["comparison"]) \cup Range(report["repeated"]) = {1}
    BY <1>5, <1>6, <2>1 DEF Kinds
  <2>3. Versions(runs, report["comparison"], report["repeated"]) = {1}
    BY <1>1, <2>2 DEF Versions
  <2>4. QED
    BY <1>5, <2>1, <2>3 DEF ReportInv, OneConfig
<1>9. QED
  BY <1>7, <1>8 DEF IndInv
(* A step of a command that keeps the claims it holds.                     *)
Carries == /\ DOMAIN checker \subseteq DOMAIN checker'
           /\ DOMAIN checker' \cap Kinds = DOMAIN checker \cap Kinds
           /\ \A k \in Kinds \cap DOMAIN checker : checker'[k] = checker[k]
           /\ "does" \in DOMAIN checker => checker'.does = checker.does

LEMMA CarryingKeeps ==
  ASSUME CheckerInv, ReportInv, Carries, runs' = runs, report' = report,
         checker.at \notin Resting,
         checker'.at \notin {"inventory", "load"},
         Loaded' => Loaded, Compared' => Compared
  PROVE  CheckerInv' /\ ReportInv'
<1>1. ReportInv'
  BY DEF ReportInv
<1>2. \A k \in Kinds \cap DOMAIN checker' : Sound(runs', k, checker'[k])
  BY DEF CheckerInv, Carries
<1>3. "at" \in DOMAIN checker' /\ "does" \in DOMAIN checker'
  BY DEF CheckerInv, Carries
<1>4. Loaded' => Kinds \subseteq DOMAIN checker'
  BY DEF CheckerInv, Carries
<1>5. Compared' => OneConfig(runs', checker'["comparison"], checker'["repeated"])
  <2>1. Compared => Kinds \subseteq DOMAIN checker
    BY DEF CheckerInv, Loaded
  <2>2. QED
    BY <2>1 DEF CheckerInv, Carries, Kinds
<1>6. QED
  BY <1>1, <1>2, <1>3, <1>4, <1>5 DEF CheckerInv

(* A step that leaves the claims behind.                                   *)
LEMMA ForgettingKeeps ==
  ASSUME CheckerInv, ReportInv, runs' = runs, report' = report,
         DOMAIN checker' \cap Kinds = {}, "at" \in DOMAIN checker',
         checker'.at \notin Resting => "does" \in DOMAIN checker',
         checker'.at \notin {"inventory", "load"}, ~Loaded', ~Compared'
  PROVE  CheckerInv' /\ ReportInv'
BY DEF CheckerInv, ReportInv

LEMMA RefusingKeeps ==
  ASSUME CheckerInv, ReportInv, Refuse
  PROVE  CheckerInv' /\ ReportInv'
<1>1. checker'.at \in {"refused", "idle"} /\ DOMAIN checker' = {"at"}
  BY DEF Refuse
<1>2. runs' = runs /\ report' = report
  BY DEF Refuse, Unread, captureVars
<1>3. QED
  BY <1>1, <1>2, ForgettingKeeps DEF Loaded, Compared, Resting, Kinds
(* Reading the two files, up to the fingerprint or the API's next file.    *)
LEMMA LoadingKeeps ==
  ASSUME IndInv, Inventory \/ LoadClaim
  PROVE  CheckerInv' /\ ReportInv' /\ runs' = runs
<1> USE DEF IndInv
<1>1. runs' = runs /\ report' = report
  BY DEF Inventory, LoadClaim, Go, Refuse, Unread, captureVars
<1>2. CASE Refuse
  BY <1>1, <1>2, RefusingKeeps
<1>3. CASE Inventory /\ ~Refuse
  <2>1. checker.at = "inventory" /\ checker' = [checker EXCEPT !.at = "load"]
    BY <1>3 DEF Inventory, Go, To
  <2>2. QED
    BY <1>1, <2>1 DEF CheckerInv, ReportInv, Loaded, Compared, Resting, Kinds
<1>4. CASE LoadClaim /\ ~Refuse
  <2> DEFINE k == Head(checker.left)
             held == Put(checker, k, derived[k])
  <2>0. checker.at = "load" /\ checker.at \notin Resting
    BY <1>4 DEF LoadClaim, Resting
  <2>1. /\ "at" \in DOMAIN checker /\ "does" \in DOMAIN checker /\ "left" \in DOMAIN checker
        /\ k \in Kinds
        /\ k = "comparison" => Tail(checker.left) = <<"repeated">>
        /\ k # "comparison" => "comparison" \in DOMAIN checker
    <3>1. CASE checker.left = <<"comparison", "repeated">>
      BY <2>0, <3>1 DEF CheckerInv, Kinds
    <3>2. CASE checker.left = <<"repeated">> /\ "comparison" \in DOMAIN checker
      BY <2>0, <3>2 DEF CheckerInv, Kinds
    <3>3. QED
      BY <2>0, <3>1, <3>2 DEF CheckerInv
  <2>2. /\ DOMAIN held = DOMAIN checker \cup {k} /\ held[k] = derived[k]
        /\ \A y \in DOMAIN checker : y # k => held[y] = checker[y]
    BY DEF Put
  <2>4. \/ k = "comparison" /\ checker' = [held EXCEPT !.left = Tail(@)]
        \/ k # "comparison" /\ checker' = [held EXCEPT !.at = "serving"]
        \/ /\ k # "comparison"
           /\ checker' = Put([held EXCEPT !.at = "fingerprint"], "domains", domains)
    <3>1. CASE derived[k] = Torn
      BY <1>4, <3>1 DEF LoadClaim
    <3>2. CASE derived[k] # Torn
      BY <1>4, <2>1, <3>2 DEF LoadClaim, Go, Kinds
    <3>3. QED
      BY <3>1, <3>2
  <2> HIDE DEF k, held
  <2>3. \A j \in Kinds \cap DOMAIN held : Sound(runs, j, held[j])
    BY <2>1, <2>2 DEF CaptureInv, CheckerInv
  <2>5. CASE k = "comparison" /\ checker' = [held EXCEPT !.left = Tail(@)]
    <3>1. /\ DOMAIN checker' = DOMAIN held /\ checker'.at = "load"
          /\ checker'.left = <<"repeated">>
          /\ \A j \in Kinds \cap DOMAIN held : checker'[j] = held[j]
      BY <2>0, <2>1, <2>2, <2>5 DEF Kinds
    <3>2. QED
      BY <1>1, <2>1, <2>2, <2>3, <2>5, <3>1
         DEF CheckerInv, ReportInv, Loaded, Compared, Resting, Kinds
  <2>6. CASE k # "comparison" /\ checker' = [held EXCEPT !.at = "serving"]
    BY <1>1, <2>1, <2>2, <2>3, <2>6 DEF CheckerInv, ReportInv, Loaded, Compared, Resting, Kinds
  <2>7. CASE /\ k # "comparison"
             /\ checker' = Put([held EXCEPT !.at = "fingerprint"], "domains", domains)
    <3>1. /\ DOMAIN checker' = DOMAIN held \cup {"domains"}
          /\ checker'.at = "fingerprint"
          /\ \A j \in Kinds \cap DOMAIN held : checker'[j] = held[j]
      BY <2>1, <2>2, <2>7 DEF Put, Kinds
    <3>2. QED
      BY <1>1, <2>1, <2>2, <2>3, <2>7, <3>1
         DEF CheckerInv, ReportInv, Loaded, Compared, Resting, Kinds
  <2>8. QED
    BY <2>4, <2>5, <2>6, <2>7
<1>5. QED
  BY <1>2, <1>3, <1>4

(* Comparing with the lab, the logs and the audit.                         *)
LEMMA ComparingKeeps ==
  ASSUME IndInv, CheckFingerprint \/ ReadLog \/ CountTrials \/ CheckAudit
  PROVE  CheckerInv' /\ ReportInv' /\ runs' = runs
<1> USE DEF IndInv
<1>1. runs' = runs /\ report' = report /\ "at" \in DOMAIN checker /\ checker.at \notin Resting
  BY DEF CheckFingerprint, ReadLog, CountTrials, CheckAudit, Go, Refuse, Unread, captureVars,
         CheckerInv, Resting
<1>2. CASE Refuse
  BY <1>1, <1>2, RefusingKeeps
<1>3. CASE CheckFingerprint /\ ~Refuse
  <2>1. /\ checker.at = "fingerprint"
        /\ Versions(runs, checker["comparison"], checker["repeated"]) = {baseline}
        /\ checker' = [[checker EXCEPT !.at = "comparison"]
                           EXCEPT !.left = Ordered("comparison", ReadingOrder, 1)]
    BY <1>3 DEF CheckFingerprint, Go, To, Versions
  <2>2. OneConfig(runs, checker["comparison"], checker["repeated"])
    BY <2>1 DEF OneConfig
  <2>3. Carries /\ checker'.at = "comparison"
    BY <1>1, <2>1 DEF Carries, Kinds
  <2>4. Kinds \subseteq DOMAIN checker
    BY <2>1 DEF CheckerInv, Loaded
  <2>5. QED
    BY <1>1, <2>2, <2>3, <2>4 DEF CheckerInv, ReportInv, Carries, Kinds
<1>4. CASE (ReadLog \/ CountTrials \/ CheckAudit) /\ ~Refuse
  <2>1. \/ checker' = [checker EXCEPT !.left = Tail(@)]
        \/ checker' = [checker EXCEPT !.at = "audit"]
        \/ \E n : checker' = [[checker EXCEPT !.at = "repeated"]
                               EXCEPT !.left = Ordered("repeated", ReadingOrder, n)]
        \/ checker.does = "report" /\ checker' = [checker EXCEPT !.at = "write"]
        \/ checker' = [checker EXCEPT !.at = "report"]
    BY <1>4 DEF ReadLog, CountTrials, CheckAudit, Go, To
  <2>2. checker.at \in {"comparison", "repeated", "audit"} /\ Compared /\ Loaded
    BY <1>4 DEF ReadLog, CountTrials, CheckAudit, Compared, Loaded
  <2>3. /\ Carries
    BY <1>1, <2>1 DEF Carries, Kinds
  <2>4. checker'.at \in {"comparison", "repeated", "audit", "report", "write"}
    BY <1>1, <2>1, <2>2
  <2>5. QED
    BY <1>1, <2>2, <2>3, <2>4, CarryingKeeps
<1>5. QED
  BY <1>2, <1>3, <1>4

(* The report is of what was compared; hashing leaves the claims behind.   *)
LEMMA EndingKeeps ==
  ASSUME IndInv,
         WriteReport \/ CompareReport \/ HashClaim \/ HashLog \/ HashLab \/ WriteManifest
  PROVE  CheckerInv' /\ ReportInv' /\ runs' = runs
<1> USE DEF IndInv
<1>1. runs' = runs
  BY DEF WriteReport, CompareReport, HashClaim, HashLog, HashLab, WriteManifest, Go, Refuse,
         Unread, captureVars
<1>2. CASE Refuse
  BY <1>1, <1>2, RefusingKeeps
<1>3. CASE WriteReport
  <2>1. /\ Compared /\ Loaded /\ checker' = Idle
        /\ report' = Restrict(checker, Kinds \cup {"domains"})
    BY <1>3 DEF WriteReport, RenderedFrom, Compared, Loaded
  <2>2. \A k \in Kinds : report'[k] = checker[k]
    BY <2>1 DEF Restrict
  <2>3. ReportInv'
    BY <1>1, <2>1, <2>2 DEF CheckerInv, ReportInv, Kinds
  <2>4. CheckerInv'
    BY <2>1 DEF CheckerInv, Loaded, Compared, Resting, Idle, Kinds
  <2>5. QED
    BY <1>1, <2>3, <2>4
<1>4. CASE CompareReport /\ ~Refuse
  <2> DEFINE next == [does |-> checker.does, at |-> "hash claims",
                      left |-> <<"comparison", "repeated">>, expected |-> checker.expected,
                      made |-> [report |-> report, claims |-> [domains |-> domains], logs |-> <<>>]]
  <2>1. report' = report
    BY <1>4 DEF CompareReport, Go, Unread
  <2>2. checker' = next
    BY <1>4 DEF CompareReport, Go
  <2>3. DOMAIN next = {"does", "at", "left", "expected", "made"} /\ next.at = "hash claims"
    OBVIOUS
  <2> HIDE DEF next
  <2>4. QED
    BY <1>1, <2>1, <2>2, <2>3, ForgettingKeeps DEF Loaded, Compared, Resting, Kinds
<1>5. CASE (HashClaim \/ HashLog \/ HashLab) /\ ~Refuse
  <2>1. /\ checker.at \in {"hash claims", "hash logs", "hash lab"}
        /\ checker.at \notin Resting
        /\ "at" \in DOMAIN checker /\ "does" \in DOMAIN checker
    BY <1>5 DEF HashClaim, HashLog, HashLab, CheckerInv, Resting
  <2>2. report' = report
    BY <1>5 DEF HashClaim, HashLog, HashLab, Go, Unread
  <2>3. \/ \E c, l : checker' = [[checker EXCEPT !.made = c] EXCEPT !.left = l]
        \/ \E c, l : checker' = [[[checker EXCEPT !.made = c] EXCEPT !.at = "hash logs"]
                                EXCEPT !.left = l]
        \/ \E c : checker' = [[checker EXCEPT !.made = c] EXCEPT !.at = "hash lab"]
        \/ \E c : /\ checker.does = "generate"
                  /\ checker' = [[checker EXCEPT !.at = "write"] EXCEPT !.made = c]
        \/ checker' = [at |-> "verified"]
    <3>1. CASE HashClaim
      BY <1>5, <3>1 DEF HashClaim, Go
    <3>2. CASE HashLog
      BY <1>5, <3>2 DEF HashLog, Go
    <3>3. CASE HashLab
      BY <1>5, <3>3 DEF HashLab, Go, To
    <3>4. QED
      BY <1>5, <3>1, <3>2, <3>3
  <2>4. CASE checker' = [at |-> "verified"]
    BY <1>1, <2>2, <2>4, ForgettingKeeps DEF Loaded, Compared, Resting, Kinds
  <2>5. CASE checker' # [at |-> "verified"]
    <3>1. Carries
      BY <2>1, <2>3, <2>5 DEF Carries, Kinds
    <3>2. \/ checker'.at \in {"hash claims", "hash logs", "hash lab"}
          \/ checker'.at = "write" /\ checker.does = "generate"
      BY <2>1, <2>3, <2>5
    <3>3. checker'.at \notin {"inventory", "load"} /\ ~Loaded' /\ ~Compared'
      BY <2>1, <3>1, <3>2 DEF Loaded, Compared, Carries
    <3>4. QED
      BY <1>1, <2>1, <2>2, <3>1, <3>3, CarryingKeeps
  <2>6. QED
    BY <2>4, <2>5
<1>6. CASE WriteManifest
  <2>1. /\ checker' = Idle /\ report' = report
    BY <1>6 DEF WriteManifest
  <2>2. QED
    BY <1>1, <2>1, ForgettingKeeps DEF Loaded, Compared, Resting, Kinds, Idle
<1>7. QED
  BY <1>2, <1>3, <1>4, <1>5, <1>6

LEMMA BeginningKeeps ==
  ASSUME IndInv, NEW does \in {"report", "generate", "verify", "serve"}, Begin(does)
  PROVE  CheckerInv' /\ ReportInv' /\ runs' = runs
<1>1. /\ runs' = runs /\ report' = report
      /\ DOMAIN checker' = {"does", "at", "left", "expected"}
      /\ checker'.at \in {"inventory", "load"} /\ checker'.left = <<"comparison", "repeated">>
  BY DEF Begin, Unread, captureVars, fileVars
<1>2. QED
  BY <1>1 DEF IndInv, CheckerInv, ReportInv, Loaded, Compared, Resting, Kinds

LEMMA Invariance == Spec => []IndInv
<1>1. ASSUME IndInv, [Next]_vars PROVE IndInv'
  <2>1. ASSUME NEW does \in {"report", "generate", "verify", "serve"}, Begin(does) PROVE IndInv'
    <3>1. CheckerInv' /\ ReportInv' /\ runs' = runs
      BY <1>1, <2>1, BeginningKeeps
    <3>2. QED
      BY <1>1, <2>1, <3>1 DEF Begin, Unread, captureVars, fileVars, IndInv, CaptureInv, WriterInv
  <2>2. CASE Check
    <3>1. CheckerInv' /\ ReportInv' /\ runs' = runs
      BY <1>1, <2>2, LoadingKeeps, ComparingKeeps, EndingKeeps DEF Check
    <3>2. UNCHANGED captureVars
      BY <2>2 DEF Check, Inventory, LoadClaim, CheckFingerprint, ReadLog, CountTrials, CheckAudit,
                  WriteReport, CompareReport, HashClaim, HashLog, HashLab, WriteManifest,
                  Go, Refuse, Unread
    <3>3. QED
      BY <1>1, <3>1, <3>2 DEF captureVars, IndInv, CaptureInv, WriterInv
  <2>3. CASE Capture
    <3>1. CaptureInv' /\ WriterInv' /\ Grows
      BY <1>1, <2>3, WritingKeeps DEF Capture, IndInv
    <3>2. CheckerInv' /\ ReportInv'
      BY <1>1, <2>3, <3>1, OthersKeep DEF Capture, IndInv, CaptureInv
    <3>3. QED
      BY <3>1, <3>2 DEF IndInv
  <2>4. CASE Edit
    BY <1>1, <2>4 DEF Edit, IndInv, CaptureInv, WriterInv, CheckerInv, ReportInv, Loaded, Compared
  <2>5. CASE FollowUp
    BY <1>1, <2>5 DEF FollowUp, captureVars, IndInv, CaptureInv, WriterInv, CheckerInv, ReportInv,
                      Loaded, Compared
  <2>6. CASE PowerLoss
    <3>1. CaptureInv' /\ WriterInv' /\ runs' = runs
      BY <1>1, <2>6, PowerLossKeepsCaptures DEF PowerLoss, IndInv
    <3>2. CheckerInv'
      BY <2>6 DEF PowerLoss, CheckerInv, Loaded, Compared, Resting, Idle, Kinds
    <3>3. ReportInv'
      BY <1>1, <2>6, <3>1 DEF PowerLoss, IndInv, ReportInv
    <3>4. QED
      BY <3>1, <3>2, <3>3 DEF IndInv
  <2>7. CASE UNCHANGED vars
    BY <1>1, <2>7 DEF vars, captureVars, IndInv, CaptureInv, WriterInv, CheckerInv, ReportInv,
                      Loaded, Compared
  <2>8. QED
    BY <1>1, <2>1, <2>2, <2>3, <2>4, <2>5, <2>6, <2>7 DEF Next
<1>2. QED
  BY <1>1, InitHolds, PTL DEF Spec

(* What the evidence files, the report and the serving API claim was       *)
(* measured: write_evidence is only given what was recomputed from         *)
(* complete logs of one configuration, and what a failed script or a power *)
(* loss leaves behind is either such a claim or does not parse.            *)
THEOREM ClaimsWereMeasured == Spec => []ClaimsAreMeasured
<1>1. IndInv => ClaimsAreMeasured
  <2> SUFFICES ASSUME IndInv PROVE ClaimsAreMeasured
    OBVIOUS
  <2>1. \A k \in Kinds : Measured(k, derived[k])
    BY MeasuredIsSound DEF IndInv, CaptureInv
  <2>2. ASSUME report # Nothing
        PROVE  /\ \A k \in Kinds : Measured(k, report[k])
               /\ Cardinality({runs[r] : r \in Range(report["comparison"]) \cup
                                               Range(report["repeated"])}) = 1
    <3>1. PICK v : Versions(runs, report["comparison"], report["repeated"]) = {v}
      BY <2>2 DEF IndInv, ReportInv, OneConfig
    <3>2. QED
      BY <2>2, <3>1, FS_Singleton, MeasuredIsSound DEF IndInv, ReportInv, Versions
  <2>3. checker.at = "serving" => \A k \in Kinds : Measured(k, checker[k])
    BY MeasuredIsSound DEF IndInv, CheckerInv, Loaded
  <2>4. QED
    BY <2>1, <2>2, <2>3 DEF ClaimsAreMeasured
<1>2. QED
  BY <1>1, Invariance, PTL
-----------------------------------------------------------------------------
(* Where a command is, and what it holds there.                            *)
CommandStages == {"inventory", "load", "fingerprint", "comparison", "repeated", "audit", "report",
                  "hash claims", "hash logs", "hash lab", "write"}

Artifacts == {"report", "claims", "logs", "lab"}

StageInv ==
  /\ checker.at \in Resting \cup CommandStages
  /\ checker.at \in {"hash claims", "hash logs", "hash lab"} =>
       /\ {"at", "left", "made", "does"} \subseteq DOMAIN checker
       /\ DOMAIN checker.made = {"report", "claims", "logs"}
  /\ checker.at = "write" /\ checker.does = "generate" => DOMAIN checker.made = Artifacts

(* Stages at which a command holds nothing that matters here.              *)
LEMMA PlainStage ==
  ASSUME checker'.at \in {"idle", "refused", "verified", "serving"} \cup
           {"inventory", "load", "fingerprint", "comparison", "repeated", "audit", "report"}
  PROVE  StageInv'
BY DEF StageInv, Resting, CommandStages

LEMMA RefusedStage == Refuse => StageInv'
<1> SUFFICES ASSUME Refuse PROVE StageInv'
  OBVIOUS
<1>1. checker'.at \in {"refused", "idle"}
  BY DEF Refuse
<1>2. QED
  BY <1>1, PlainStage

LEMMA CommandStagesKeep ==
  ASSUME StageInv, CheckerInv, Check
  PROVE  StageInv'
<1>1. "at" \in DOMAIN checker
  BY DEF CheckerInv
<1>2. CASE Refuse
  BY <1>2, RefusedStage
<1>3. CASE Inventory /\ ~Refuse
  <2>1. checker'.at = "load"
    BY <1>1, <1>3 DEF Inventory, Go, To
  <2>2. QED
    BY <2>1, PlainStage
<1>4. CASE LoadClaim /\ ~Refuse
  <2> DEFINE k == Head(checker.left)
             held == Put(checker, k, derived[k])
  <2>1. checker.at = "load" /\ k \in Kinds
    <3>1. checker.at = "load"
      BY <1>4 DEF LoadClaim
    <3>2. checker.left \in {<<"comparison", "repeated">>, <<"repeated">>}
      BY <3>1 DEF CheckerInv
    <3>3. QED
      BY <3>1, <3>2 DEF Kinds
  <2>2. "at" \in DOMAIN held /\ held.at = "load"
    BY <1>1, <2>1 DEF Put, Kinds
  <2>3. \/ checker' = [held EXCEPT !.left = Tail(@)]
        \/ checker' = [held EXCEPT !.at = "serving"]
        \/ checker' = Put([held EXCEPT !.at = "fingerprint"], "domains", domains)
    BY <1>4 DEF LoadClaim, Go
  <2> HIDE DEF held
  <2>4. checker'.at \in {"load", "serving", "fingerprint"}
    <3>1. CASE checker' = [held EXCEPT !.left = Tail(@)]
      BY <2>2, <3>1
    <3>2. CASE checker' = [held EXCEPT !.at = "serving"]
      BY <2>2, <3>2
    <3>3. CASE checker' = Put([held EXCEPT !.at = "fingerprint"], "domains", domains)
      BY <2>2, <3>3 DEF Put
    <3>4. QED
      BY <2>3, <3>1, <3>2, <3>3
  <2>5. QED
    BY <2>4, PlainStage
<1>5. CASE CheckFingerprint /\ ~Refuse
  <2>1. checker' = [[checker EXCEPT !.at = "comparison"]
                      EXCEPT !.left = Ordered("comparison", ReadingOrder, 1)]
    BY <1>5 DEF CheckFingerprint, Go, To
  <2>2. checker'.at = "comparison"
    BY <1>1, <2>1
  <2>3. QED
    BY <2>2, PlainStage
<1>6. CASE ReadLog /\ ~Refuse
  <2>1. /\ checker.at \in {"comparison", "repeated"}
        /\ \/ checker' = [checker EXCEPT !.at = "audit"]
           \/ checker' = [checker EXCEPT !.left = Tail(@)]
    BY <1>6 DEF ReadLog, Go, To
  <2>2. checker'.at \in {"comparison", "repeated", "audit"}
    BY <1>1, <2>1
  <2>3. QED
    BY <2>2, PlainStage
<1>7. CASE CountTrials /\ ~Refuse
  <2>1. \E n : checker' = [[checker EXCEPT !.at = "repeated"]
                             EXCEPT !.left = Ordered("repeated", ReadingOrder, n)]
    BY <1>7 DEF CountTrials, Go, To
  <2>2. checker'.at = "repeated"
    BY <1>1, <2>1
  <2>3. QED
    BY <2>2, PlainStage
<1>8. CASE CheckAudit /\ ~Refuse
  <2>1. \/ checker.does = "report" /\ checker' = [checker EXCEPT !.at = "write"]
        \/ checker' = [checker EXCEPT !.at = "report"]
    BY <1>8 DEF CheckAudit, Go, To
  <2>2. CASE checker' = [checker EXCEPT !.at = "report"]
    <3>1. checker'.at = "report"
      BY <1>1, <2>2
    <3>2. QED
      BY <3>1, PlainStage
  <2>3. CASE checker.does = "report" /\ checker' = [checker EXCEPT !.at = "write"]
    <3>1. checker'.at = "write" /\ checker'.does = "report"
      <4>1. "does" \in DOMAIN checker
        BY <1>8 DEF CheckAudit, CheckerInv, Resting
      <4>2. QED
        BY <1>1, <2>3, <4>1
    <3>2. QED
      BY <3>1 DEF StageInv, Resting, CommandStages
  <2>4. QED
    BY <2>1, <2>2, <2>3
<1>9. CASE WriteReport \/ WriteManifest
  <2>1. checker'.at = "idle"
    BY <1>9 DEF WriteReport, WriteManifest, Idle
  <2>2. QED
    BY <2>1, PlainStage
<1>10. CASE CompareReport /\ ~Refuse
  <2> DEFINE made == [report |-> report, claims |-> [domains |-> domains], logs |-> <<>>]
             next == [does |-> checker.does, at |-> "hash claims",
                      left |-> <<"comparison", "repeated">>, expected |-> checker.expected,
                      made |-> made]
  <2>1. checker' = next
    BY <1>10 DEF CompareReport, Go
  <2>2. DOMAIN made = {"report", "claims", "logs"}
    OBVIOUS
  <2> HIDE DEF made
  <2>3. /\ checker'.at = "hash claims" /\ checker'.made = made
        /\ DOMAIN checker' = {"does", "at", "left", "expected", "made"}
    BY <2>1
  <2>4. QED
    BY <2>2, <2>3 DEF StageInv, Resting, CommandStages
<1>11. CASE (HashClaim \/ HashLog \/ HashLab) /\ ~Refuse
  <2>1. /\ checker.at \in {"hash claims", "hash logs", "hash lab"}
        /\ {"at", "left", "made", "does"} \subseteq DOMAIN checker
        /\ DOMAIN checker.made = {"report", "claims", "logs"}
    BY <1>11 DEF HashClaim, HashLog, HashLab, StageInv
  <2> DEFINE Hashing(c) == /\ DOMAIN c = {"report", "claims", "logs"} /\ checker'.made = c
                           /\ DOMAIN checker' = DOMAIN checker
                           /\ checker'.at \in {"hash claims", "hash logs", "hash lab"}
             Finished(c) == DOMAIN c = Artifacts /\ checker'.at = "write" /\ checker'.made = c
  <2>2. ASSUME NEW c, DOMAIN c = {"report", "claims", "logs"}
        PROVE  LET held == [checker EXCEPT !.made = c]
               IN  /\ \A l : checker' = [held EXCEPT !.left = l] => Hashing(c)
                   /\ \A l : checker' = [held EXCEPT !.at = "hash logs", !.left = l] => Hashing(c)
                   /\ checker' = [held EXCEPT !.at = "hash lab"] => Hashing(c)
    BY <2>1, <2>2
  <2>3. CASE HashClaim
    <3> DEFINE k == Head(checker.left)
               c == [checker.made EXCEPT !.claims = Put(checker.made.claims, k, derived[k])]
               held == [checker EXCEPT !.made = c]
    <3>1. DOMAIN c = {"report", "claims", "logs"}
      BY <2>1
    <3>2. \/ checker' = [held EXCEPT !.left = Tail(held.left)]
          \/ \E l : checker' = [held EXCEPT !.at = "hash logs", !.left = l]
      BY <2>3, <1>11 DEF HashClaim, Go
    <3> HIDE DEF c
    <3>3. Hashing(c)
      BY <2>2, <3>1, <3>2
    <3>4. QED
      BY <2>1, <3>3 DEF StageInv, Resting, CommandStages
  <2>4. CASE HashLog
    <3> DEFINE f == Head(checker.left)
               c == [checker.made EXCEPT !.logs = Put(checker.made.logs, f, logs[f])]
               held == [checker EXCEPT !.made = c]
    <3>1. DOMAIN c = {"report", "claims", "logs"}
      BY <2>1
    <3>2. \/ checker' = [held EXCEPT !.left = Tail(held.left)]
          \/ checker' = [held EXCEPT !.at = "hash lab"]
      BY <2>4, <1>11 DEF HashLog, Go
    <3> HIDE DEF c
    <3>3. Hashing(c)
      BY <2>2, <3>1, <3>2
    <3>4. QED
      BY <2>1, <3>3 DEF StageInv, Resting, CommandStages
  <2>5. CASE HashLab
    <3> DEFINE c == Put(checker.made, "lab", Lab)
    <3>1. DOMAIN c = Artifacts
      <4>1. DOMAIN c = DOMAIN checker.made \cup {"lab"}
        BY DEF Put
      <4> HIDE DEF c
      <4>2. QED
        BY <2>1, <4>1 DEF Artifacts
    <3>2. \/ checker' = [[checker EXCEPT !.at = "write"] EXCEPT !.made = c]
          \/ checker' = [at |-> "verified"]
      BY <2>5, <1>11 DEF HashLab, Go, To
    <3> HIDE DEF c
    <3>3. CASE checker' = [[checker EXCEPT !.at = "write"] EXCEPT !.made = c]
      <4>1. Finished(c)
        BY <2>1, <3>1, <3>3
      <4>2. QED
        BY <4>1 DEF StageInv, Resting, CommandStages
    <3>4. CASE checker' = [at |-> "verified"]
      <4>1. checker'.at = "verified"
        BY <3>4
      <4>2. QED
        BY <4>1, PlainStage
    <3>5. QED
      BY <3>2, <3>3, <3>4
  <2>6. QED
    BY <1>11, <2>3, <2>4, <2>5
<1>12. QED
  BY <1>2, <1>3, <1>4, <1>5, <1>6, <1>7, <1>8, <1>9, <1>10, <1>11 DEF Check

LEMMA StageInvariance == Spec => []StageInv
<1>1. Init => StageInv
  BY DEF Init, Idle, StageInv, Resting
<1>2. ASSUME StageInv, IndInv, [Next]_vars PROVE StageInv'
  <2>1. ASSUME NEW does \in {"report", "generate", "verify", "serve"}, Begin(does) PROVE StageInv'
    <3>1. checker'.at \in {"inventory", "load"}
      BY <2>1 DEF Begin, Unread, captureVars, fileVars
    <3>2. QED
      BY <3>1, PlainStage
  <2>2. CASE Check
    BY <1>2, <2>2, CommandStagesKeep DEF IndInv
  <2>3. CASE PowerLoss
    <3>1. checker'.at = "idle"
      BY <2>3 DEF PowerLoss, Idle
    <3>2. QED
      BY <3>1, PlainStage
  <2>4. CASE Capture \/ Edit \/ FollowUp \/ UNCHANGED vars
    <3>1. checker' = checker
      BY <2>4 DEF Capture, Edit, FollowUp, vars
    <3>2. QED
      BY <1>2, <3>1 DEF StageInv
  <2>5. QED
    BY <1>2, <2>1, <2>2, <2>3, <2>4 DEF Next
<1>3. QED
  BY <1>1, <1>2, Invariance, PTL DEF Spec
-----------------------------------------------------------------------------
(* The types.                                                              *)
VersionTypes ==
  /\ candidate \in Nat
  /\ catalog \in 1..candidate /\ domains \in 1..candidate
RunTypes ==
  /\ Len(runs) \in 1..MaxRuns /\ Range(runs) \subseteq 1..baseline
  /\ logs \in [Files -> {Absent, Broken} \cup DOMAIN runs]
  /\ events \in 0..MaxEvents
ArtifactTypes ==
  /\ report # Nothing => DOMAIN report = Kinds \cup {"domains"}
  /\ DOMAIN manifest = Artifacts
  /\ undisturbed \in BOOLEAN

BundleTypes == VersionTypes /\ RunTypes /\ ArtifactTypes

LEMMA TypesInit == Init => BundleTypes
<1> SUFFICES ASSUME Init PROVE BundleTypes
  OBVIOUS
<1>1. VersionTypes
  BY DEF Init, VersionTypes
<1>2. RunTypes
  <2>1. runs = <<1>> /\ baseline = 1 /\ events = 0
    BY DEF Init, CaptureInit
  <2>2. \A f \in Files : logs[f] \in {Absent, 1}
    BY DEF Init, CaptureInit
  <2>3. DOMAIN logs = Files /\ logs = [f \in Files |-> logs[f]]
    BY DEF Init, CaptureInit
  <2>4. Len(runs) = 1 /\ DOMAIN runs = {1} /\ Range(runs) = {1}
    BY <2>1 DEF Range
  <2>5. QED
    BY <2>1, <2>2, <2>3, <2>4, CaptureAssumption DEF RunTypes
<1>3. ArtifactTypes
  <2>1. report = Claims /\ DOMAIN derived = Kinds
    BY DEF Init, CaptureInit
  <2>2. DOMAIN Claims = DOMAIN derived \cup {"domains"}
    BY DEF Claims, Put
  <2>3. undisturbed = TRUE /\ DOMAIN manifest = Artifacts
    BY DEF Init, Artifacts
  <2>4. QED
    BY <2>1, <2>2, <2>3 DEF ArtifactTypes
<1>4. QED
  BY <1>1, <1>2, <1>3 DEF BundleTypes

LEMMA VersionTypesKeep ==
  ASSUME VersionTypes, [Next]_vars
  PROVE  VersionTypes'
<1>1. CASE Edit
  <2>1. /\ UNCHANGED <<catalog, domains>>
        /\ candidate' = candidate \/ candidate' = candidate + 1
    BY <1>1 DEF Edit
  <2>2. QED
    BY <2>1 DEF VersionTypes
<1>2. CASE FollowUp
  <2>1. candidate \in Nat /\ 1 <= candidate
    BY DEF VersionTypes
  <2>2. QED
    BY <1>2, <2>1 DEF FollowUp, VersionTypes
<1>3. CASE Check
  <2>1. UNCHANGED fileVars
    BY <1>3 DEF Check, Inventory, LoadClaim, CheckFingerprint, ReadLog, CountTrials, CheckAudit,
                WriteReport, CompareReport, HashClaim, HashLog, HashLab, WriteManifest, Go,
                Refuse, Unread
  <2>2. QED
    BY <2>1 DEF fileVars, VersionTypes
<1>4. CASE \/ \E does \in {"report", "generate", "verify", "serve"} : Begin(does)
           \/ Capture \/ PowerLoss \/ UNCHANGED vars
  <2>1. UNCHANGED fileVars
    BY <1>4 DEF Begin, Unread, captureVars, fileVars, Capture, PowerLoss, vars
  <2>2. QED
    BY <2>1 DEF fileVars, VersionTypes
<1>5. QED
  BY <1>1, <1>2, <1>3, <1>4 DEF Next

LEMMA CaptureKeepsTypes ==
  ASSUME RunTypes, runs \in Seq(Nat), baseline \in Nat, WriterStep
  PROVE  RunTypes'
<1>1. ASSUME NEW k \in Kinds, NEW n \in 1..MaxTrials, StartScript(k, n) PROVE RunTypes'
  <2>1. /\ runs' = Append(runs, baseline) /\ Len(runs) < MaxRuns
        /\ UNCHANGED <<baseline, logs, events>>
    BY <1>1 DEF StartScript
  <2>2. /\ Len(runs') = Len(runs) + 1 /\ DOMAIN runs = 1..Len(runs)
        /\ DOMAIN runs' = 1..(Len(runs) + 1)
        /\ \A i \in 1..(Len(runs) + 1) : runs'[i] = IF i = Len(runs) + 1 THEN baseline ELSE runs[i]
    BY <2>1
  <2>3. baseline \in 1..baseline
    <3>1. runs[1] \in 1..baseline
      BY <2>2 DEF RunTypes, Range
    <3>2. QED
      BY <3>1
  <2>4. Range(runs') \subseteq 1..baseline
    <3>1. ASSUME NEW i \in 1..(Len(runs) + 1) PROVE runs'[i] \in 1..baseline
      <4>1. CASE i = Len(runs) + 1
        BY <2>2, <2>3, <4>1
      <4>2. CASE i # Len(runs) + 1
        <5>1. i \in DOMAIN runs
          BY <2>2, <4>2 DEF RunTypes
        <5>2. QED
          BY <2>2, <4>2, <5>1 DEF RunTypes, Range
      <4>3. QED
        BY <4>1, <4>2
    <3>2. QED
      BY <2>2, <3>1 DEF Range
  <2>5. DOMAIN runs \subseteq DOMAIN runs'
    BY <2>2 DEF RunTypes
  <2>6. Len(runs') \in 1..MaxRuns
    BY <2>1, <2>2, CaptureAssumption DEF RunTypes
  <2>7. logs' \in [Files -> {Absent, Broken} \cup DOMAIN runs']
    BY <2>1, <2>5 DEF RunTypes
  <2>8. QED
    BY <2>1, <2>4, <2>6, <2>7 DEF RunTypes
<1>2. CASE OpenLog
  BY <1>2 DEF OpenLog, RunTypes
<1>3. CASE CloseLog
  <2>1. /\ UNCHANGED <<baseline, runs>>
        /\ \/ logs' = [logs EXCEPT ![Head(writer.left)] = Len(runs)] /\ UNCHANGED events
           \/ events < MaxEvents /\ events' = events + 1 /\ UNCHANGED logs
    BY <1>3 DEF CloseLog
  <2>2. Len(runs) \in DOMAIN runs
    BY DEF RunTypes
  <2>3. logs' \in [Files -> {Absent, Broken} \cup DOMAIN runs]
    BY <2>1, <2>2 DEF RunTypes
  <2>4. events' \in 0..MaxEvents
    BY <2>1, CaptureAssumption DEF RunTypes
  <2>5. QED
    BY <2>1, <2>3, <2>4 DEF RunTypes
<1>4. CASE \/ \E k \in Kinds, n \in 1..MaxTrials : AggregateByHand(k, n)
           \/ EndScript \/ FinishWrite \/ WriterFails
  <2>1. UNCHANGED <<baseline, runs, logs, events>>
    BY <1>4 DEF AggregateByHand, EndScript, Aggregate, FinishWrite, WriterFails
  <2>2. QED
    BY <2>1 DEF RunTypes
<1>5. QED
  BY <1>1, <1>2, <1>3, <1>4 DEF WriterStep

LEMMA RunTypesKeep ==
  ASSUME RunTypes, IndInv, [Next]_vars
  PROVE  RunTypes'
<1>1. CASE Capture
  BY <1>1, CaptureKeepsTypes DEF Capture, IndInv, CaptureInv
<1>2. CASE Edit
  <2>1. /\ UNCHANGED <<runs, logs>> /\ baseline' \in {baseline, baseline + 1}
        /\ events < MaxEvents /\ events' = events + 1
    BY <1>2 DEF Edit
  <2>2. baseline \in Nat
    BY DEF IndInv, CaptureInv
  <2>3. Range(runs) \subseteq 1..baseline'
    BY <2>1, <2>2 DEF RunTypes
  <2>4. events' \in 0..MaxEvents
    BY <2>1, CaptureAssumption DEF RunTypes
  <2>5. QED
    BY <2>1, <2>3, <2>4 DEF RunTypes
<1>3. CASE PowerLoss
  <2>1. /\ UNCHANGED <<runs, baseline>> /\ events < MaxEvents /\ events' = events + 1
        /\ logs' = logs \/ \E f \in Files : logs' = [logs EXCEPT ![f] = Broken]
    BY <1>3 DEF PowerLoss, LoseWrites
  <2>2. logs' \in [Files -> {Absent, Broken} \cup DOMAIN runs]
    BY <2>1 DEF RunTypes
  <2>3. events' \in 0..MaxEvents
    BY <2>1, CaptureAssumption DEF RunTypes
  <2>4. QED
    BY <2>1, <2>2, <2>3 DEF RunTypes
<1>4. ASSUME NEW does, Begin(does) PROVE RunTypes'
  <2>1. /\ UNCHANGED <<runs, baseline, logs>>
        /\ events' = events \/ (events < MaxEvents /\ events' = events + 1)
    BY <1>4 DEF Begin, Unread, captureVars, fileVars
  <2>2. events' \in 0..MaxEvents
    BY <2>1, CaptureAssumption DEF RunTypes
  <2>3. QED
    BY <2>1, <2>2 DEF RunTypes
<1>5. CASE Check \/ FollowUp \/ UNCHANGED vars
  <2>1. UNCHANGED captureVars
    BY <1>5 DEF Check, Inventory, LoadClaim, CheckFingerprint, ReadLog, CountTrials, CheckAudit,
                WriteReport, CompareReport, HashClaim, HashLog, HashLab, WriteManifest, Go,
                Refuse, Unread, FollowUp, vars
  <2>2. QED
    BY <2>1 DEF captureVars, RunTypes
<1>6. QED
  BY <1>1, <1>2, <1>3, <1>4, <1>5 DEF Next

LEMMA ArtifactTypesKeep ==
  ASSUME ArtifactTypes, StageInv, [Next]_vars
  PROVE  ArtifactTypes'
<1>1. undisturbed' \in BOOLEAN
  <2>1. CASE Check
    BY <2>1 DEF Check, Inventory, LoadClaim, CheckFingerprint, ReadLog, CountTrials, CheckAudit,
                WriteReport, CompareReport, HashClaim, HashLog, HashLab, WriteManifest, Go,
                Refuse, ArtifactTypes
  <2>2. CASE \/ \E does \in {"report", "generate", "verify", "serve"} : Begin(does)
             \/ Capture \/ Edit \/ FollowUp \/ PowerLoss \/ UNCHANGED vars
    BY <2>2 DEF Begin, Unread, captureVars, fileVars, Capture, Edit, FollowUp, PowerLoss, vars, ArtifactTypes
  <2>3. QED
    BY <2>1, <2>2 DEF Next
<1>2. report' = report \/ report' = Nothing \/ report' = Restrict(checker, Kinds \cup {"domains"})
  BY DEF Next, Check, Inventory, LoadClaim, CheckFingerprint, ReadLog, CountTrials, CheckAudit,
         WriteReport, RenderedFrom, CompareReport, HashClaim, HashLog, HashLab, WriteManifest, Go, Refuse,
         Unread, Begin, Capture, Edit, FollowUp, PowerLoss, vars
<1>3. report' # Nothing => DOMAIN report' = Kinds \cup {"domains"}
  BY <1>2 DEF ArtifactTypes, Restrict
<1>4. manifest' = manifest \/ (/\ checker.at = "write" /\ checker.does = "generate"
                               /\ manifest' = checker.made)
  BY DEF Next, Check, Inventory, LoadClaim, CheckFingerprint, ReadLog, CountTrials, CheckAudit,
         WriteReport, CompareReport, HashClaim, HashLog, HashLab, WriteManifest, Go, Refuse,
         Unread, Begin, Capture, Edit, FollowUp, PowerLoss, vars
<1>5. DOMAIN manifest' = Artifacts
  BY <1>4 DEF ArtifactTypes, StageInv
<1>6. QED
  BY <1>1, <1>3, <1>5 DEF ArtifactTypes

LEMMA TypesInvariance == Spec => []BundleTypes
<1>1. ASSUME BundleTypes, IndInv, StageInv, [Next]_vars PROVE BundleTypes'
  BY <1>1, VersionTypesKeep, RunTypesKeep, ArtifactTypesKeep DEF BundleTypes
<1>2. QED
  BY <1>1, TypesInit, Invariance, StageInvariance, PTL DEF Spec

(* Whatever is captured, edited, lost or read: a log is of a run that was  *)
(* made, a derived file claims trials that can be captured, and the        *)
(* manifest lists all artifacts.                                           *)
THEOREM BundleIsTyped == Spec => []BundleTypeOK
<1>1. IndInv /\ StageInv /\ BundleTypes => BundleTypeOK
  <2> SUFFICES ASSUME IndInv, StageInv, BundleTypes PROVE BundleTypeOK
    OBVIOUS
  <2>1. \A k \in Kinds : DOMAIN derived[k] \subseteq Trials(k, MaxTrials)
    <3>1. ASSUME NEW k \in Kinds PROVE DOMAIN derived[k] \subseteq Trials(k, MaxTrials)
      <4>1. Sound(runs, k, derived[k])
        BY DEF IndInv, CaptureInv
      <4>2. CASE derived[k] = Torn
        BY <4>2 DEF Torn
      <4>3. CASE derived[k] # Torn
        <5>1. PICK n \in 1..MaxTrials : DOMAIN derived[k] = Trials(k, n)
          BY <4>1, <4>3 DEF Sound
        <5>2. \A f \in Trials(k, n) : f \in Files /\ f[1] = k /\ f[3] <= MaxTrials
          BY DEF Trials, Files
        <5>3. QED
          BY <5>1, <5>2 DEF Trials
      <4>4. QED
        BY <4>2, <4>3
    <3>2. QED
      BY <3>1
  <2>2. CaptureTypeOK
    BY <2>1, CaptureAssumption DEF CaptureTypeOK, IndInv, CaptureInv, WriterInv, BundleTypes, RunTypes
  <2>3. checker.at \in Resting \cup CommandStages
    BY DEF StageInv
  <2>4. QED
    BY <2>2, <2>3 DEF BundleTypeOK, BundleTypes, VersionTypes, ArtifactTypes, Artifacts, CommandStages
<1>2. QED
  BY <1>1, Invariance, StageInvariance, TypesInvariance, PTL
-----------------------------------------------------------------------------
(* What generate finds out about the bundle, and verify finds out again.   *)
HashedLogs == Range(Ordered("comparison", HashingOrder, 1) \o
                    Ordered("repeated", HashingOrder, BundleTrials))
ReadLogs(k, n) == Range(Ordered(k, ReadingOrder, n))
ClaimedTrials == Cardinality(DOMAIN derived["repeated"]) \div 2

Inventoried == \A p \in Profiles : Globbed(p) = 1..BundleTrials
Parseable == \A k \in Kinds : derived[k] # Torn
OfThisLab == Versions(runs, derived["comparison"], derived["repeated"]) = {baseline}
Agrees(f) == logs[f] = derived[f[1]][f]
Unaltered(k, n) == \A f \in ReadLogs(k, n) : Agrees(f)
Counted == \A p \in Profiles : Cardinality(Globbed(p)) = ClaimedTrials
Audited == catalog = candidate /\ domains = catalog
Complete == \A f \in HashedLogs : logs[f] # Absent

Digests(claims, ls) == [report |-> report, claims |-> claims, logs |-> ls]
Manifest == [report |-> report, claims |-> Claims, lab |-> Lab,
             logs |-> Restrict(logs, HashedLogs)]

Sealed ==
  /\ Inventoried /\ Parseable /\ OfThisLab
  /\ Unaltered("comparison", 1) /\ Counted /\ Unaltered("repeated", ClaimedTrials)
  /\ Audited /\ report = Claims /\ Complete
  /\ manifest = Manifest

(* How much of it the command that is running has found out.               *)
Comparing == {"comparison", "repeated", "audit", "report"}
Hashing == {"hash claims", "hash logs", "hash lab", "write"}

ReadSoFar(k, n) ==
  /\ checker.left \in Seq(ReadLogs(k, n))
  /\ \A f \in ReadLogs(k, n) \ Range(checker.left) : Agrees(f)

ReadProgress ==
  /\ checker.at # "inventory" => Inventoried
  /\ checker.at \in {"inventory", "load", "fingerprint"} \cup Comparing =>
       \A k \in Kinds \cap DOMAIN checker : checker[k] = derived[k] /\ derived[k] # Torn
  /\ checker.at \in {"fingerprint"} \cup Comparing =>
       "domains" \in DOMAIN checker /\ checker.domains = domains
  /\ checker.at \in Comparing \cup Hashing => Parseable /\ OfThisLab
  /\ checker.at = "comparison" => ReadSoFar("comparison", 1)
  /\ checker.at = "repeated" => ReadSoFar("repeated", ClaimedTrials)
  /\ checker.at \in {"repeated", "audit", "report"} \cup Hashing =>
       Unaltered("comparison", 1) /\ Counted
  /\ checker.at \in {"audit", "report"} \cup Hashing => Unaltered("repeated", ClaimedTrials)
  /\ checker.at \in {"report"} \cup Hashing => Audited

HashProgress ==
  /\ checker.at \in Hashing => "made" \in DOMAIN checker /\ report = Claims
  /\ checker.at = "hash claims" =>
       \/ /\ checker.left = <<"comparison", "repeated">>
          /\ checker.made = Digests([domains |-> domains], <<>>)
       \/ /\ checker.left = <<"repeated">>
          /\ checker.made =
               Digests(Put([domains |-> domains], "comparison", derived["comparison"]), <<>>)
  /\ checker.at = "hash logs" =>
       /\ checker.left \in Seq(HashedLogs) /\ checker.left # <<>>
       /\ DOMAIN checker.made.logs \cup Range(checker.left) = HashedLogs
       /\ \A f \in DOMAIN checker.made.logs : logs[f] # Absent
       /\ checker.made = Digests(Claims, Restrict(logs, DOMAIN checker.made.logs))
  /\ checker.at = "hash lab" => Complete /\ checker.made = Digests(Claims, Restrict(logs, HashedLogs))
  /\ checker.at = "write" => Complete /\ checker.made = Manifest

Progress ==
  /\ checker.at \in CommandStages
  /\ {"at", "does", "left", "expected"} \subseteq DOMAIN checker
  /\ checker.does = "verify" => checker.expected = manifest
  /\ ReadProgress /\ HashProgress

(* Undisturbed, the bundle is as generate has found it, or as much of it   *)
(* as a generate that is still running has seen.                           *)
TrustInv ==
  undisturbed =>
    /\ checker.at # "refused"
    /\ checker.at \in Resting \/ checker.does # "generate" => Sealed
    /\ checker.at \notin Resting /\ checker.does \in {"generate", "verify"} => Progress

(* The lists of logs.                                                      *)
LEMMA FirstAndRest ==
  ASSUME NEW S, NEW s \in Seq(S), s # <<>>
  PROVE  /\ Head(s) \in S /\ Tail(s) \in Seq(S) /\ Range(s) = {Head(s)} \cup Range(Tail(s))
         /\ Len(s) = 1 => Range(s) = {Head(s)}
         /\ Len(s) > 1 => Tail(s) # <<>>
<1>1. /\ Len(s) \in Nat /\ Len(s) # 0 /\ Head(s) = s[1] /\ Tail(s) \in Seq(S)
      /\ Len(Tail(s)) = Len(s) - 1 /\ \A i \in 1..(Len(s) - 1) : Tail(s)[i] = s[i + 1]
      /\ DOMAIN s = 1..Len(s) /\ DOMAIN Tail(s) = 1..(Len(s) - 1) /\ s[1] \in S
  OBVIOUS
<1>2. ASSUME NEW i \in 1..Len(s) PROVE s[i] \in {s[1]} \cup Range(Tail(s))
  <2>1. CASE i # 1
    <3>1. i - 1 \in 1..(Len(s) - 1) /\ (i - 1) + 1 = i
      BY <1>1, <2>1
    <3>2. Tail(s)[i - 1] = s[i]
      BY <1>1, <3>1
    <3>3. QED
      BY <1>1, <3>1, <3>2 DEF Range
  <2>2. QED
    BY <2>1
<1>3. ASSUME NEW i \in 1..(Len(s) - 1) PROVE Tail(s)[i] \in Range(s)
  <2>1. i + 1 \in 1..Len(s)
    BY <1>1
  <2>2. QED
    BY <1>1, <2>1 DEF Range
<1>4. Range(s) = {Head(s)} \cup Range(Tail(s))
  <2>1. s[1] \in Range(s)
    BY <1>1 DEF Range
  <2>2. \A x \in Range(s) : x \in {s[1]} \cup Range(Tail(s))
    BY <1>1, <1>2 DEF Range
  <2>3. \A x \in Range(Tail(s)) : x \in Range(s)
    BY <1>1, <1>3 DEF Range
  <2>4. QED
    BY <1>1, <2>1, <2>2, <2>3
<1>5. Len(s) = 1 => Range(Tail(s)) = {}
  BY <1>1 DEF Range
<1>6. Len(s) > 1 => Tail(s) # <<>>
  <2>1. Len(<<>>) = 0
    OBVIOUS
  <2>2. Len(s) > 1 => Len(Tail(s)) # 0
    BY <1>1
  <2>3. QED
    BY <2>1, <2>2
<1>7. QED
  BY <1>1, <1>4, <1>5, <1>6

LEMMA OrderedIs ==
  ASSUME NEW k, NEW profiles, NEW n \in Nat
  PROVE  /\ Ordered(k, profiles, n) \in Seq(Range(Ordered(k, profiles, n)))
         /\ Len(Ordered(k, profiles, n)) = 2 * n
         /\ \A f \in Range(Ordered(k, profiles, n)) : f[1] = k
<1> DEFINE s == Ordered(k, profiles, n)
<1>1. DOMAIN s = 1..(2 * n) /\ \A i \in 1..(2 * n) : s[i][1] = k
  BY DEF Ordered
<1>2. s = [i \in 1..(2 * n) |-> s[i]]
  BY DEF Ordered
<1> HIDE DEF s
<1>3. \A i \in 1..(2 * n) : s[i] \in Range(s)
  BY <1>1 DEF Range
<1>4. s \in [1..(2 * n) -> Range(s)] /\ 2 * n \in Nat
  BY <1>2, <1>3
<1>5. s \in Seq(Range(s)) /\ Len(s) = 2 * n
  BY <1>1, <1>4
<1>6. \A f \in Range(s) : f[1] = k
  BY <1>1 DEF Range
<1>7. QED
  BY <1>5, <1>6 DEF s

(* A listing in either order is of all logs of the trials.                 *)
LEMMA OrderedIsTrials ==
  ASSUME NEW k \in Kinds, NEW n \in 1..MaxTrials, k = "comparison" => n = 1,
         NEW profiles \in {ReadingOrder, HashingOrder}
  PROVE  Range(Ordered(k, profiles, n)) = Trials(k, n)
<1>1. n \in Nat /\ n > 0 /\ n <= MaxTrials /\ MaxTrials \in Nat
  BY CaptureAssumption
<1>2. profiles[1] \in Profiles /\ profiles[2] \in Profiles /\ Profiles = {profiles[1], profiles[2]}
  BY DEF ReadingOrder, HashingOrder, Profiles
<1>3. \A f \in Trials(k, n) :
        /\ f = <<k, f[2], f[3]>> /\ f[2] \in Profiles /\ f[3] \in 1..n
  BY <1>1 DEF Trials, Files
<1>4. \A p \in Profiles, t \in 1..n : <<k, p, t>> \in Trials(k, n)
  BY <1>1 DEF Trials, Files
<1> DEFINE s == Ordered(k, profiles, n)
<1>5. DOMAIN s = 1..(2 * n)
      /\ \A i \in 1..(2 * n) : s[i] = <<k, profiles[(i + n - 1) \div n], ((i - 1) % n) + 1>>
  BY DEF Ordered
<1> HIDE DEF s
<1>6. ASSUME NEW i \in 1..(2 * n) PROVE s[i] \in Trials(k, n)
  <2>1. CASE i <= n
    <3>1. (i + n - 1) \div n = 1 /\ (i - 1) % n = i - 1
      BY <1>1, <2>1
    <3>2. i \in 1..n /\ (i - 1) + 1 = i
      BY <1>1, <2>1
    <3>3. s[i] = <<k, profiles[(i + n - 1) \div n], ((i - 1) % n) + 1>>
      BY <1>5
    <3>4. s[i] = <<k, profiles[1], i>>
      BY <3>1, <3>2, <3>3
    <3>5. QED
      BY <1>2, <1>4, <3>2, <3>4
  <2>2. CASE i > n
    <3>1. (i + n - 1) \div n = 2 /\ (i - 1) % n = i - 1 - n
      BY <1>1, <2>2
    <3>2. i - n \in 1..n /\ (i - 1 - n) + 1 = i - n
      BY <1>1, <2>2
    <3>3. s[i] = <<k, profiles[(i + n - 1) \div n], ((i - 1) % n) + 1>>
      BY <1>5
    <3>4. s[i] = <<k, profiles[2], i - n>>
      BY <3>1, <3>2, <3>3
    <3>5. QED
      BY <1>2, <1>4, <3>2, <3>4
  <2>3. QED
    BY <1>1, <2>1, <2>2
<1>7. ASSUME NEW t \in 1..n
      PROVE  <<k, profiles[1], t>> \in Range(s) /\ <<k, profiles[2], t>> \in Range(s)
  <2>1. t \in 1..(2 * n) /\ n + t \in 1..(2 * n)
    BY <1>1
  <2>2. (t + n - 1) \div n = 1 /\ (t - 1) % n = t - 1
    BY <1>1
  <2>3. ((n + t) + n - 1) \div n = 2 /\ ((n + t) - 1) % n = t - 1
    BY <1>1
  <2>4. s[t] = <<k, profiles[1], t>>
    <3>1. s[t] = <<k, profiles[(t + n - 1) \div n], ((t - 1) % n) + 1>>
      BY <1>5, <2>1
    <3>2. (t - 1) + 1 = t
      OBVIOUS
    <3>3. QED
      BY <2>2, <3>1, <3>2
  <2>5. s[n + t] = <<k, profiles[2], t>>
    <3>1. s[n + t] = <<k, profiles[((n + t) + n - 1) \div n], (((n + t) - 1) % n) + 1>>
      BY <1>5, <2>1
    <3>2. (t - 1) + 1 = t
      OBVIOUS
    <3>3. QED
      BY <2>3, <3>1, <3>2
  <2>6. QED
    BY <1>5, <2>1, <2>4, <2>5 DEF Range
<1>8. \A f \in Trials(k, n) : f \in Range(s)
  BY <1>2, <1>3, <1>7
<1>9. \A f \in Range(s) : f \in Trials(k, n)
  BY <1>5, <1>6 DEF Range
<1>10. QED
  BY <1>8, <1>9 DEF s

LEMMA TrialsAreTwice ==
  ASSUME NEW n \in 1..MaxTrials
  PROVE  Cardinality(Trials("repeated", n)) = 2 * n
<1>1. n \in Nat /\ n <= MaxTrials /\ MaxTrials \in Nat
  BY CaptureAssumption
<1> DEFINE P == Profiles \X (1..n)
           g == [x \in P |-> <<"repeated", x[1], x[2]>>]
           T == Trials("repeated", n)
<1>2. \A f \in T : f = <<"repeated", f[2], f[3]>> /\ <<f[2], f[3]>> \in P
  BY <1>1 DEF Trials, Files
<1>3. \A x \in P : g[x] \in T
  BY <1>1 DEF Trials, Files, Kinds
<1>4. ExistsBijection(P, T)
  <2>1. \A x, y \in P : g[x] = g[y] => x = y
    OBVIOUS
  <2>2. \A f \in T : \E x \in P : g[x] = f
    BY <1>2
  <2>3. g \in [P -> T]
    BY <1>3
  <2> HIDE DEF g
  <2>4. g \in Injection(P, T)
    BY <2>1, <2>3 DEF Injection, IsInjective
  <2>5. g \in Surjection(P, T)
    BY <2>2, <2>3 DEF Surjection
  <2>6. QED
    BY <2>4, <2>5 DEF ExistsBijection, Bijection
<1>5. IsFiniteSet(Profiles) /\ Cardinality(Profiles) = 2
  <2>1. IsFiniteSet({"ospf_only"}) /\ Cardinality({"ospf_only"}) = 1
    BY FS_Singleton
  <2>2. /\ IsFiniteSet({"ospf_only"} \cup {"bfd_100x3"})
        /\ Cardinality({"ospf_only"} \cup {"bfd_100x3"}) = 1 + 1
    BY <2>1, FS_AddElement
  <2>3. Profiles = {"ospf_only"} \cup {"bfd_100x3"}
    BY DEF Profiles
  <2>4. QED
    BY <2>2, <2>3
<1>6. IsFiniteSet(1..n) /\ Cardinality(1..n) = n
  BY <1>1, FS_Interval
<1>7. IsFiniteSet(P) /\ Cardinality(P) = 2 * n
  BY ZenonT(40), <1>5, <1>6, FS_Product
<1> HIDE DEF P, T, g
<1>8. QED
  BY <1>4, <1>7, FS_Bijection DEF T

(* A claim that parses is of as many trials of either profile.             *)
LEMMA ClaimIsCounted ==
  ASSUME CaptureInv, derived["repeated"] # Torn
  PROVE  ClaimedTrials \in 1..MaxTrials
<1>1. PICK n \in 1..MaxTrials : DOMAIN derived["repeated"] = Trials("repeated", n)
  BY DEF CaptureInv, Sound, Kinds
<1>2. Cardinality(DOMAIN derived["repeated"]) = 2 * n /\ n \in Nat
  BY <1>1, TrialsAreTwice
<1>3. (2 * n) \div 2 = n
  BY <1>2
<1>4. QED
  BY <1>1, <1>2, <1>3 DEF ClaimedTrials

LEMMA HashedAreTrials ==
  /\ HashedLogs = Trials("comparison", 1) \cup Trials("repeated", BundleTrials)
  /\ Ordered("comparison", HashingOrder, 1) \o Ordered("repeated", HashingOrder, BundleTrials)
       \in Seq(HashedLogs)
  /\ Ordered("comparison", HashingOrder, 1) \o Ordered("repeated", HashingOrder, BundleTrials) # <<>>
<1> DEFINE a == Ordered("comparison", HashingOrder, 1)
           b == Ordered("repeated", HashingOrder, BundleTrials)
<1>1. 1 \in 1..MaxTrials /\ BundleTrials \in 1..MaxTrials /\ BundleTrials \in Nat
  BY CaptureAssumption, BundleAssumption
<1>2. Range(a) = Trials("comparison", 1) /\ Range(b) = Trials("repeated", BundleTrials)
  BY <1>1, OrderedIsTrials DEF Kinds
<1>3. a \in Seq(Range(a)) /\ Len(a) = 2 /\ b \in Seq(Range(b)) /\ Len(b) \in Nat
  <2>1. a \in Seq(Range(a)) /\ Len(a) = 2 * 1
    BY OrderedIs
  <2>2. b \in Seq(Range(b)) /\ Len(b) = 2 * BundleTrials
    BY <1>1, OrderedIs
  <2> HIDE DEF a, b
  <2>3. QED
    BY <1>1, <2>1, <2>2
<1> HIDE DEF a, b
<1> DEFINE S == Range(a) \cup Range(b)
<1>4. a \in Seq(S) /\ b \in Seq(S)
  BY <1>3
<1>5. /\ a \o b \in Seq(S) /\ Len(a \o b) = Len(a) + Len(b)
      /\ \A i \in 1..Len(a) : (a \o b)[i] = a[i]
      /\ \A i \in 1..Len(b) : (a \o b)[Len(a) + i] = b[i]
  <2> HIDE DEF S
  <2>1. QED
    BY <1>4
<1> DEFINE ab == a \o b
<1> HIDE DEF ab
<1>6. /\ DOMAIN a = 1..Len(a) /\ DOMAIN b = 1..Len(b) /\ DOMAIN ab = 1..(Len(a) + Len(b))
      /\ Len(a) \in Nat /\ ab \in Seq(S) /\ Len(ab) # 0
      /\ \A i \in 1..Len(a) : ab[i] = a[i] /\ i \in DOMAIN ab
      /\ \A i \in 1..Len(b) : ab[Len(a) + i] = b[i] /\ Len(a) + i \in DOMAIN ab
  BY <1>3, <1>4, <1>5 DEF ab
<1>7. \A x \in S : x \in Range(ab)
  BY <1>6 DEF Range
<1>8. \A x \in Range(ab) : x \in S
  BY <1>6 DEF Range
<1>9. Range(ab) = S /\ ab # <<>>
  <2>1. Len(<<>>) = 0
    OBVIOUS
  <2>2. QED
    BY <1>6, <1>7, <1>8, <2>1
<1>10. QED
  BY <1>2, <1>6, <1>9 DEF HashedLogs, ab, a, b

(* The bundle that is checked out.                                         *)
LEMMA SealedInit == Init => Sealed
<1> SUFFICES ASSUME Init PROVE Sealed
  OBVIOUS
<1>1. 1 \in 1..MaxTrials /\ BundleTrials \in 1..MaxTrials /\ BundleTrials \in Nat
      /\ MaxTrials \in Nat
  BY CaptureAssumption, BundleAssumption
<1> DEFINE C == Trials("comparison", 1)
           R == Trials("repeated", BundleTrials)
<1>2. /\ runs = <<1>> /\ baseline = 1 /\ DOMAIN derived = Kinds
      /\ \A f \in Files : logs[f] = IF f \in C \cup R THEN 1 ELSE Absent
      /\ DOMAIN derived["comparison"] = C /\ \A f \in C : derived["comparison"][f] = 1
      /\ DOMAIN derived["repeated"] = R /\ \A f \in R : derived["repeated"][f] = 1
  BY DEF Init, CaptureInit, Kinds
<1>3. /\ C \subseteq Files /\ R \subseteq Files
      /\ \A f \in C : f[1] = "comparison"
      /\ \A f \in R : f[1] = "repeated"
  BY DEF Trials
<1>4. \A p \in Profiles, t \in 1..MaxTrials :
        /\ <<"repeated", p, t>> \in Files
        /\ <<"repeated", p, t>> \in C \cup R <=> t <= BundleTrials
  BY DEF Files, Trials, Kinds
<1>5. Inventoried
  <2>1. ASSUME NEW p \in Profiles, NEW t \in 1..MaxTrials
        PROVE  t \in Globbed(p) <=> t \in 1..BundleTrials
    <3> DEFINE f == <<"repeated", p, t>>
    <3>1. f \in Files /\ (f \in C \cup R <=> t <= BundleTrials)
      BY <1>4
    <3> HIDE DEF f, C, R
    <3>2. logs[f] # Absent <=> t <= BundleTrials
      BY <1>2, <3>1 DEF Absent
    <3>3. QED
      BY <1>1, <3>2 DEF Globbed, f
  <2>2. \A p \in Profiles : Globbed(p) \subseteq 1..MaxTrials
    BY DEF Globbed
  <2>3. 1..BundleTrials \subseteq 1..MaxTrials
    BY <1>1
  <2>4. QED
    BY <2>1, <2>2, <2>3 DEF Inventoried
<1>6. <<"comparison", "ospf_only", 1>> \in C /\ <<"repeated", "ospf_only", 1>> \in R
  BY <1>1 DEF Files, Trials, Kinds, Profiles
<1>7. Parseable
  <2>1. DOMAIN derived["comparison"] # DOMAIN Torn /\ DOMAIN derived["repeated"] # DOMAIN Torn
    BY <1>2, <1>6 DEF Torn
  <2>2. QED
    BY <2>1 DEF Parseable, Kinds
<1>8. OfThisLab
  <2>1. Range(derived["comparison"]) = {1} /\ Range(derived["repeated"]) = {1}
    BY <1>2, <1>6 DEF Range
  <2>2. runs[1] = 1
    BY <1>2
  <2>3. QED
    BY <1>2, <2>1, <2>2 DEF OfThisLab, Versions
<1>9. ClaimedTrials = BundleTrials
  <2>1. Cardinality(R) = 2 * BundleTrials
    BY <1>1, TrialsAreTwice
  <2>2. (2 * BundleTrials) \div 2 = BundleTrials
    BY <1>1
  <2>3. QED
    BY <1>2, <2>1, <2>2 DEF ClaimedTrials
<1>10. Unaltered("comparison", 1) /\ Unaltered("repeated", ClaimedTrials)
  <2>1. ReadLogs("comparison", 1) = C /\ ReadLogs("repeated", BundleTrials) = R
    BY <1>1, OrderedIsTrials DEF ReadLogs, Kinds
  <2>2. ASSUME NEW f \in C \cup R PROVE logs[f] = derived[f[1]][f]
    <3> HIDE DEF C, R
    <3>1. logs[f] = 1
      BY <1>2, <1>3
    <3>2. CASE f \in C
      <4>1. f[1] = "comparison" /\ derived["comparison"][f] = 1
        BY <1>2, <1>3, <3>2
      <4>2. QED
        BY <3>1, <4>1
    <3>3. CASE f \in R
      <4>1. f[1] = "repeated"
        BY <1>3, <3>3
      <4>2. derived["repeated"][f] = 1
        BY <1>2, <3>3
      <4>3. QED
        BY <3>1, <4>1, <4>2
    <3>4. QED
      BY <3>2, <3>3
  <2>3. QED
    BY <1>9, <2>1, <2>2 DEF Unaltered, Agrees
<1>11. Counted
  BY <1>1, <1>5, <1>9, FS_Interval DEF Counted, Inventoried
<1>12. Audited /\ report = Claims
  BY DEF Init, Audited
<1>13. Complete
  BY <1>2, <1>3, HashedAreTrials DEF Complete, Absent
<1>14. manifest = Manifest
  <2>1. {f \in Files : logs[f] # Absent} = HashedLogs
    BY <1>2, <1>3, HashedAreTrials DEF Absent
  <2>2. QED
    BY <2>1 DEF Init, Manifest
<1>15. QED
  BY <1>5, <1>7, <1>8, <1>10, <1>11, <1>12, <1>13, <1>14 DEF Sealed

(* A step that writes no artifact, while runs may be added.                *)
LEMMA BundleStays ==
  ASSUME UNCHANGED <<baseline, logs, derived, fileVars, report, manifest>>,
         OfThisLab' <=> OfThisLab
  PROVE  /\ (Inventoried' <=> Inventoried) /\ (Parseable' <=> Parseable)
         /\ (OfThisLab' <=> OfThisLab) /\ (Counted' <=> Counted)
         /\ (Audited' <=> Audited) /\ (Complete' <=> Complete)
         /\ \A f : Agrees(f)' <=> Agrees(f)
         /\ \A k, n : Unaltered(k, n)' <=> Unaltered(k, n)
         /\ ClaimedTrials' = ClaimedTrials /\ Claims' = Claims /\ Manifest' = Manifest
         /\ (Sealed' <=> Sealed)
         /\ UNCHANGED <<derived, logs, domains, report, manifest, baseline>>
<1>1. /\ UNCHANGED <<baseline, logs, derived, candidate, catalog, domains>>
      /\ UNCHANGED <<report, manifest>>
  BY DEF fileVars
<1>2. /\ (Inventoried' <=> Inventoried) /\ (Parseable' <=> Parseable)
  BY <1>1 DEF Inventoried, Globbed, Parseable
<1>3. ClaimedTrials' = ClaimedTrials
  BY <1>1 DEF ClaimedTrials
<1>4. (Counted' <=> Counted) /\ (Audited' <=> Audited) /\ (Complete' <=> Complete)
  BY <1>1, <1>3 DEF Counted, Globbed, Audited, Complete
<1>5. \A f : Agrees(f)' <=> Agrees(f)
  BY <1>1 DEF Agrees
<1>6. \A k, n : Unaltered(k, n)' <=> Unaltered(k, n)
  BY <1>5 DEF Unaltered
<1>7. Claims' = Claims /\ Manifest' = Manifest
  BY <1>1 DEF Claims, Manifest, Lab
<1>8. Sealed' <=> Sealed
  BY <1>1, <1>2, <1>3, <1>4, <1>6, <1>7 DEF Sealed
<1>9. QED
  BY <1>1, <1>2, <1>3, <1>4, <1>5, <1>6, <1>7, <1>8

LEMMA FactsStay ==
  ASSUME UNCHANGED Unread
  PROVE  /\ (Inventoried' <=> Inventoried) /\ (Parseable' <=> Parseable)
         /\ (OfThisLab' <=> OfThisLab) /\ (Counted' <=> Counted)
         /\ (Audited' <=> Audited) /\ (Complete' <=> Complete)
         /\ \A f : Agrees(f)' <=> Agrees(f)
         /\ \A k, n : Unaltered(k, n)' <=> Unaltered(k, n)
         /\ ClaimedTrials' = ClaimedTrials /\ Claims' = Claims /\ Manifest' = Manifest
         /\ (Sealed' <=> Sealed)
         /\ UNCHANGED <<derived, logs, domains, report, manifest, runs, baseline>>
<1>1. UNCHANGED <<baseline, runs, logs, derived, fileVars, report, manifest>>
  BY DEF Unread, captureVars
<1>2. OfThisLab' <=> OfThisLab
  BY <1>1 DEF OfThisLab
<1>3. QED
  BY <1>1, <1>2, BundleStays

(* A step that goes on, to another stage, or a refusal with a reason.      *)
Checking == checker.at \notin Resting /\ checker.does \in {"generate", "verify"} /\ Progress

Keeps == /\ {"at", "does", "left", "expected"} \subseteq DOMAIN checker'
         /\ checker'.does = checker.does /\ checker'.expected = checker.expected

Advances == checker'.at \notin Resting /\ checker'.does = checker.does /\ Progress'

LEMMA Advancing ==
  ASSUME Checking, UNCHANGED Unread, Keeps, checker'.at \in CommandStages,
         ReadProgress', HashProgress'
  PROVE  Advances
<1>1. manifest' = manifest
  BY FactsStay
<1>2. QED
  BY <1>1 DEF Checking, Keeps, Advances, Progress, CommandStages, Resting

(* The first stages.                                                       *)
LEMMA InventoryAdvances ==
  ASSUME Checking, Inventory
  PROVE  Advances \/ (Refuse /\ ~Sealed)
<1>1. CASE ~Inventoried
  BY <1>1 DEF Inventory, Inventoried, Sealed
<1>2. CASE Inventoried
  <2>1. checker' = [checker EXCEPT !.at = "load"] /\ UNCHANGED Unread /\ checker.at = "inventory"
    BY <1>2 DEF Inventory, Inventoried, Go, To
  <2>2. Keeps /\ checker'.at = "load" /\ DOMAIN checker' = DOMAIN checker
        /\ \A k \in Kinds \cap DOMAIN checker : checker'[k] = checker[k]
    BY <2>1 DEF Checking, Progress, Keeps, Kinds
  <2>3. ReadProgress'
    BY <1>2, <2>1, <2>2, FactsStay DEF Checking, Progress, ReadProgress, Comparing, Hashing
  <2>4. HashProgress'
    BY <2>2 DEF HashProgress, Hashing
  <2>5. QED
    BY <2>1, <2>2, <2>3, <2>4, Advancing DEF CommandStages
<1>3. QED
  BY <1>1, <1>2

LEMMA LoadClaimAdvances ==
  ASSUME IndInv, Checking, LoadClaim
  PROVE  Advances \/ (Refuse /\ ~Sealed)
<1> DEFINE k == Head(checker.left)
           held == Put(checker, k, derived[k])
<1>1. /\ checker.at = "load" /\ k \in Kinds
      /\ k = "repeated" => "comparison" \in DOMAIN checker
  <2>1. checker.at = "load"
    BY DEF LoadClaim
  <2>2. \/ checker.left = <<"comparison", "repeated">>
        \/ checker.left = <<"repeated">> /\ "comparison" \in DOMAIN checker
    BY <2>1 DEF IndInv, CheckerInv
  <2>3. CASE checker.left = <<"comparison", "repeated">>
    BY <2>1, <2>3 DEF Kinds
  <2>4. CASE checker.left = <<"repeated">> /\ "comparison" \in DOMAIN checker
    BY <2>1, <2>4 DEF Kinds
  <2>5. QED
    BY <2>2, <2>3, <2>4
<1>2. CASE derived[k] = Torn
  BY <1>1, <1>2 DEF LoadClaim, Sealed, Parseable
<1>3. CASE derived[k] # Torn
  <2>1. /\ UNCHANGED Unread
        /\ \/ checker' = [held EXCEPT !.left = Tail(held.left)]
           \/ /\ k = "repeated"
              /\ checker' = Put([held EXCEPT !.at = "fingerprint"], "domains", domains)
    BY <1>3 DEF LoadClaim, Go, Checking
  <2>2. /\ DOMAIN held = DOMAIN checker \cup {k} /\ held[k] = derived[k]
        /\ \A y \in DOMAIN checker : y # k => held[y] = checker[y]
    BY DEF Put
  <2>3. {"at", "does", "left", "expected"} \subseteq DOMAIN checker
    BY DEF Checking, Progress
  <2>4. /\ Inventoried
        /\ \A j \in Kinds \cap DOMAIN checker : checker[j] = derived[j] /\ derived[j] # Torn
    BY <1>1 DEF Checking, Progress, ReadProgress
  <2> HIDE DEF k, held
  <2>5. CASE checker' = [held EXCEPT !.left = Tail(held.left)]
    <3>1. /\ DOMAIN checker' = DOMAIN held
          /\ \A y \in DOMAIN held : y # "left" => checker'[y] = held[y]
      BY <2>5
    <3>2. Keeps /\ checker'.at = "load"
      BY <1>1, <2>2, <2>3, <3>1 DEF Keeps, Kinds
    <3>3. \A j \in Kinds \cap DOMAIN checker' : checker'[j] = derived[j] /\ derived[j] # Torn
      BY <1>3, <2>2, <2>4, <3>1 DEF Kinds
    <3>4. ReadProgress'
      BY <2>1, <2>4, <3>2, <3>3, FactsStay DEF ReadProgress, Comparing, Hashing
    <3>5. HashProgress'
      BY <3>2 DEF HashProgress, Hashing
    <3>6. QED
      BY <2>1, <3>2, <3>4, <3>5, Advancing DEF CommandStages
  <2>6. CASE /\ k = "repeated"
             /\ checker' = Put([held EXCEPT !.at = "fingerprint"], "domains", domains)
    <3>1. /\ DOMAIN checker' = DOMAIN held \cup {"domains"} /\ checker'.domains = domains
          /\ "at" \in DOMAIN held => checker'.at = "fingerprint"
          /\ \A y \in DOMAIN held : y \notin {"at", "domains"} => checker'[y] = held[y]
      BY <2>6 DEF Put
    <3>2. Keeps /\ checker'.at = "fingerprint"
      BY <2>2, <2>3, <2>6, <3>1 DEF Keeps
    <3>3. \A j \in Kinds \cap DOMAIN checker' : checker'[j] = derived[j] /\ derived[j] # Torn
      BY <1>3, <2>2, <2>4, <3>1 DEF Kinds
    <3>4. ReadProgress'
      BY <2>1, <2>4, <3>1, <3>2, <3>3, FactsStay DEF ReadProgress, Comparing, Hashing
    <3>5. HashProgress'
      BY <3>2 DEF HashProgress, Hashing
    <3>6. QED
      BY <2>1, <3>2, <3>4, <3>5, Advancing DEF CommandStages
  <2>7. QED
    BY <2>1, <2>5, <2>6
<1>4. QED
  BY <1>2, <1>3

LEMMA CheckFingerprintAdvances ==
  ASSUME IndInv, Checking, CheckFingerprint
  PROVE  Advances \/ (Refuse /\ ~Sealed)
<1>1. checker.at = "fingerprint" /\ Kinds \subseteq DOMAIN checker
  BY DEF CheckFingerprint, IndInv, CheckerInv, Loaded
<1>2. /\ Inventoried /\ "domains" \in DOMAIN checker /\ checker.domains = domains
      /\ \A j \in Kinds : checker[j] = derived[j] /\ derived[j] # Torn
  BY <1>1 DEF Checking, Progress, ReadProgress
<1>3. {runs[r] : r \in Range(checker.comparison) \cup Range(checker.repeated)} = {baseline}
        <=> OfThisLab
  BY <1>2 DEF OfThisLab, Versions, Kinds
<1>4. CASE ~OfThisLab
  BY <1>3, <1>4 DEF CheckFingerprint, Sealed
<1>5. CASE OfThisLab
  <2> DEFINE l == Ordered("comparison", ReadingOrder, 1)
  <2>1. /\ UNCHANGED Unread
        /\ checker' = [[checker EXCEPT !.at = "comparison"] EXCEPT !.left = l]
    BY <1>3, <1>5 DEF CheckFingerprint, Go, To
  <2>2. l \in Seq(ReadLogs("comparison", 1)) /\ Range(l) = ReadLogs("comparison", 1)
    BY OrderedIs DEF ReadLogs
  <2> HIDE DEF l
  <2>3. {"at", "does", "left", "expected"} \subseteq DOMAIN checker
    BY DEF Checking, Progress
  <2>4. /\ Keeps /\ checker'.at = "comparison" /\ checker'.left = l
        /\ DOMAIN checker' = DOMAIN checker /\ checker'.domains = domains
        /\ \A j \in Kinds : checker'[j] = derived[j]
    BY <1>1, <1>2, <2>1, <2>3 DEF Keeps, Kinds
  <2>5. ReadSoFar("comparison", 1)'
    BY <2>2, <2>4 DEF ReadSoFar
  <2>6. ReadProgress'
    BY <1>2, <1>5, <2>1, <2>4, <2>5, FactsStay DEF ReadProgress, Comparing, Hashing, Parseable
  <2>7. HashProgress'
    BY <2>4 DEF HashProgress, Hashing
  <2>8. QED
    BY <2>1, <2>4, <2>6, <2>7, Advancing DEF CommandStages
<1>6. QED
  BY <1>4, <1>5

(* Reading the logs that were aggregated.                                  *)
LEMMA ReadLogAdvances ==
  ASSUME IndInv, Checking, ReadLog
  PROVE  Advances \/ (Refuse /\ ~Sealed)
<1> DEFINE k == checker.at
           n == IF checker.at = "comparison" THEN 1 ELSE ClaimedTrials
           f == Head(checker.left)
           last == checker.at = "repeated" /\ Len(checker.left) = 1
<1>1. k \in {"comparison", "repeated"} /\ checker.left # <<>> /\ Kinds \subseteq DOMAIN checker
  BY DEF ReadLog, IndInv, CheckerInv, Loaded, Compared
<1>2. /\ Inventoried /\ Parseable /\ OfThisLab
      /\ "domains" \in DOMAIN checker /\ checker.domains = domains
      /\ \A j \in Kinds : checker[j] = derived[j] /\ derived[j] # Torn
  BY <1>1 DEF Checking, Progress, ReadProgress, Comparing
<1>3. /\ ReadSoFar(k, n)
      /\ k = "repeated" => Unaltered("comparison", 1) /\ Counted
  BY <1>1 DEF Checking, Progress, ReadProgress
<1>4. n \in Nat
  BY <1>2, ClaimIsCounted, CaptureAssumption DEF IndInv, Kinds
<1>5. \A g \in ReadLogs(k, n) : g[1] = k
  BY <1>4, OrderedIs DEF ReadLogs
<1>6. /\ f \in ReadLogs(k, n) /\ Tail(checker.left) \in Seq(ReadLogs(k, n))
      /\ Range(checker.left) = {f} \cup Range(Tail(checker.left))
      /\ Len(checker.left) = 1 => Range(checker.left) = {f}
  BY <1>1, <1>3, FirstAndRest DEF ReadSoFar
<1>7. MatchesLog(f) <=> Agrees(f)
  BY <1>1, <1>2, <1>5, <1>6 DEF MatchesLog, Agrees, Kinds
<1>8. CASE ~Agrees(f)
  <2>1. ~Unaltered(k, n)
    BY <1>6, <1>8 DEF Unaltered
  <2>2. ~Sealed
    BY <1>1, <2>1 DEF Sealed
  <2>3. QED
    BY <1>7, <1>8, <2>2 DEF ReadLog
<1>9. CASE Agrees(f) /\ last
  <2>1. UNCHANGED Unread /\ checker' = [checker EXCEPT !.at = "audit"]
    BY <1>7, <1>9 DEF ReadLog, Go, To
  <2>2. k = "repeated" /\ Unaltered("repeated", ClaimedTrials)
    BY <1>3, <1>6, <1>9 DEF ReadSoFar, Unaltered
  <2>3. /\ Keeps /\ checker'.at = "audit"
        /\ DOMAIN checker' = DOMAIN checker /\ checker'.domains = domains
        /\ \A j \in Kinds : checker'[j] = derived[j]
    BY <1>1, <1>2, <2>1 DEF Keeps, Kinds, Checking, Progress
  <2>4. ReadProgress'
    BY <1>2, <1>3, <2>1, <2>2, <2>3, FactsStay DEF ReadProgress, Comparing, Hashing
  <2>5. HashProgress'
    BY <2>3 DEF HashProgress, Hashing
  <2>6. QED
    BY <2>1, <2>3, <2>4, <2>5, Advancing DEF CommandStages
<1>10. CASE Agrees(f) /\ ~last
  <2>1. UNCHANGED Unread /\ checker' = [checker EXCEPT !.left = Tail(checker.left)]
    BY <1>7, <1>10 DEF ReadLog, Go
  <2>2. /\ Keeps /\ checker'.at = k /\ checker'.left = Tail(checker.left)
        /\ DOMAIN checker' = DOMAIN checker /\ checker'.domains = domains
        /\ \A j \in Kinds : checker'[j] = derived[j]
    BY <1>1, <1>2, <2>1 DEF Keeps, Kinds, Checking, Progress
  <2>3. \A g \in ReadLogs(k, n) \ Range(checker'.left) : Agrees(g)
    BY <1>3, <1>6, <1>10, <2>2 DEF ReadSoFar
  <2>4. ReadSoFar(k, n)'
    <3>1. k' = k /\ n' = n /\ \A g : Agrees(g)' <=> Agrees(g)
      BY <2>1, <2>2, FactsStay
    <3>2. ReadLogs(k, n)' = ReadLogs(k, n)
      BY <3>1
    <3> HIDE DEF k, n, f
    <3>3. QED
      BY <1>6, <2>2, <2>3, <3>1, <3>2 DEF ReadSoFar
  <2>5. ReadProgress'
    BY <1>1, <1>2, <1>3, <2>1, <2>2, <2>4, FactsStay DEF ReadProgress, Comparing, Hashing
  <2>6. HashProgress'
    BY <1>1, <2>2 DEF HashProgress, Hashing
  <2>7. QED
    BY <1>1, <2>1, <2>2, <2>5, <2>6, Advancing DEF CommandStages
<1>11. QED
  BY <1>8, <1>9, <1>10

LEMMA CountTrialsAdvances ==
  ASSUME IndInv, Checking, CountTrials
  PROVE  Advances \/ (Refuse /\ ~Sealed)
<1>1. /\ checker.at = "comparison" /\ checker.left = <<>> /\ Kinds \subseteq DOMAIN checker
      /\ {"at", "does", "left", "expected"} \subseteq DOMAIN checker
  BY DEF CountTrials, IndInv, CheckerInv, Loaded, Compared, Checking, Progress
<1>2. /\ Inventoried /\ Parseable /\ OfThisLab /\ ReadSoFar("comparison", 1)
      /\ "domains" \in DOMAIN checker /\ checker.domains = domains
      /\ \A j \in Kinds : checker[j] = derived[j] /\ derived[j] # Torn
  BY <1>1 DEF Checking, Progress, ReadProgress, Comparing
<1>3. Cardinality(DOMAIN checker.repeated) \div 2 = ClaimedTrials
  BY <1>2 DEF ClaimedTrials, Kinds
<1>4. CASE ~Counted
  BY <1>3, <1>4 DEF CountTrials, Counted, Sealed
<1>5. CASE Counted
  <2> DEFINE l == Ordered("repeated", ReadingOrder, ClaimedTrials)
  <2>1. /\ UNCHANGED Unread
        /\ checker' = [[checker EXCEPT !.at = "repeated"] EXCEPT !.left = l]
    BY <1>3, <1>5 DEF CountTrials, Counted, Go, To
  <2>2. l \in Seq(ReadLogs("repeated", ClaimedTrials)) /\ Range(l) = ReadLogs("repeated", ClaimedTrials)
    <3>1. ClaimedTrials \in Nat
      BY <1>2, ClaimIsCounted, CaptureAssumption DEF IndInv, Kinds
    <3>2. QED
      BY <3>1, OrderedIs DEF ReadLogs
  <2> HIDE DEF l
  <2>3. /\ Keeps /\ checker'.at = "repeated" /\ checker'.left = l
        /\ DOMAIN checker' = DOMAIN checker /\ checker'.domains = domains
        /\ \A j \in Kinds : checker'[j] = derived[j]
    BY <1>1, <1>2, <2>1 DEF Keeps, Kinds
  <2>4. Unaltered("comparison", 1)
    <3>1. Range(<<>>) = {}
      BY DEF Range
    <3>2. QED
      BY <1>1, <1>2, <3>1 DEF ReadSoFar, Unaltered
  <2>5. ReadSoFar("repeated", ClaimedTrials)'
    <3>1. ReadLogs("repeated", ClaimedTrials)' = ReadLogs("repeated", ClaimedTrials)
      BY <2>1, FactsStay
    <3>2. QED
      BY <2>2, <2>3, <3>1 DEF ReadSoFar
  <2>6. ReadProgress'
    BY <1>2, <1>5, <2>1, <2>3, <2>4, <2>5, FactsStay DEF ReadProgress, Comparing, Hashing
  <2>7. HashProgress'
    BY <2>3 DEF HashProgress, Hashing
  <2>8. QED
    BY <2>1, <2>3, <2>6, <2>7, Advancing DEF CommandStages
<1>6. QED
  BY <1>4, <1>5

LEMMA CheckAuditAdvances ==
  ASSUME IndInv, Checking, CheckAudit
  PROVE  Advances \/ (Refuse /\ ~Sealed)
<1>1. /\ checker.at = "audit" /\ Kinds \subseteq DOMAIN checker
      /\ {"at", "does", "left", "expected"} \subseteq DOMAIN checker
  BY DEF CheckAudit, IndInv, CheckerInv, Loaded, Compared, Checking, Progress
<1>2. /\ Inventoried /\ Parseable /\ OfThisLab
      /\ Unaltered("comparison", 1) /\ Counted /\ Unaltered("repeated", ClaimedTrials)
      /\ "domains" \in DOMAIN checker /\ checker.domains = domains
      /\ \A j \in Kinds : checker[j] = derived[j] /\ derived[j] # Torn
  BY <1>1 DEF Checking, Progress, ReadProgress, Comparing
<1>3. CASE ~Audited
  BY <1>2, <1>3 DEF CheckAudit, Audited, Sealed
<1>4. CASE Audited
  <2>1. UNCHANGED Unread /\ checker' = [checker EXCEPT !.at = "report"]
    BY <1>2, <1>4 DEF CheckAudit, Audited, Checking, Go, To
  <2>2. /\ Keeps /\ checker'.at = "report"
        /\ DOMAIN checker' = DOMAIN checker /\ checker'.domains = domains
        /\ \A j \in Kinds : checker'[j] = derived[j]
    BY <1>1, <1>2, <2>1 DEF Keeps, Kinds
  <2>3. ReadProgress'
    BY <1>2, <1>4, <2>1, <2>2, FactsStay DEF ReadProgress, Comparing, Hashing
  <2>4. HashProgress'
    BY <2>2 DEF HashProgress, Hashing
  <2>5. QED
    BY <2>1, <2>2, <2>3, <2>4, Advancing DEF CommandStages
<1>5. QED
  BY <1>3, <1>4

LEMMA CompareReportAdvances ==
  ASSUME IndInv, Checking, CompareReport
  PROVE  Advances \/ (Refuse /\ ~Sealed)
<1>1. /\ checker.at = "report" /\ Kinds \subseteq DOMAIN checker
      /\ {"at", "does", "left", "expected"} \subseteq DOMAIN checker
  BY DEF CompareReport, IndInv, CheckerInv, Loaded, Compared, Checking, Progress
<1>2. /\ Inventoried /\ Parseable /\ OfThisLab /\ Audited
      /\ Unaltered("comparison", 1) /\ Counted /\ Unaltered("repeated", ClaimedTrials)
      /\ "domains" \in DOMAIN checker /\ checker.domains = domains
      /\ \A j \in Kinds : checker[j] = derived[j] /\ derived[j] # Torn
  BY <1>1 DEF Checking, Progress, ReadProgress, Comparing
<1>3. RenderedFrom = Claims
  <2>1. /\ RenderedFrom = [x \in Kinds \cup {"domains"} |-> checker[x]]
        /\ Claims = [x \in Kinds \cup {"domains"} |-> IF x = "domains" THEN domains ELSE derived[x]]
    BY DEF RenderedFrom, Claims, Restrict, Put, IndInv, CaptureInv
  <2>2. \A x \in Kinds \cup {"domains"} :
          checker[x] = IF x = "domains" THEN domains ELSE derived[x]
    BY <1>2 DEF Kinds
  <2>3. QED
    BY <2>1, <2>2
<1>4. CASE report # Claims
  BY <1>3, <1>4 DEF CompareReport, ReportIsCurrent, Sealed
<1>5. CASE report = Claims
  <2>1. /\ UNCHANGED Unread
        /\ checker' = [does |-> checker.does, at |-> "hash claims",
                       left |-> <<"comparison", "repeated">>, expected |-> checker.expected,
                       made |-> Digests([domains |-> domains], <<>>)]
    BY <1>3, <1>5 DEF CompareReport, ReportIsCurrent, Go, Digests
  <2>2. /\ Keeps /\ checker'.at = "hash claims" /\ "made" \in DOMAIN checker'
        /\ checker'.left = <<"comparison", "repeated">>
        /\ checker'.made = Digests([domains |-> domains], <<>>)
    BY <2>1 DEF Keeps
  <2>3. ReadProgress'
    BY <1>2, <2>1, <2>2, FactsStay DEF ReadProgress, Comparing, Hashing
  <2>4. HashProgress'
    <3>1. report' = report /\ Claims' = Claims /\ domains' = domains
      BY <2>1, FactsStay
    <3>2. QED
      BY <1>5, <2>2, <3>1 DEF HashProgress, Digests
  <2>5. QED
    BY <2>1, <2>2, <2>3, <2>4, Advancing DEF CommandStages
<1>6. QED
  BY <1>4, <1>5

(* Hashing is reading bytes: what was found out before stays known.        *)
LEMMA HashingOn ==
  ASSUME Checking, checker.at \in Hashing, UNCHANGED Unread,
         Keeps, checker'.at \in Hashing, "made" \in DOMAIN checker',
         checker'.at = "hash claims" =>
           /\ checker'.left = <<"repeated">>
           /\ checker'.made =
                Digests(Put([domains |-> domains], "comparison", derived["comparison"]), <<>>),
         checker'.at = "hash logs" =>
           /\ checker'.left \in Seq(HashedLogs) /\ checker'.left # <<>>
           /\ DOMAIN checker'.made.logs \cup Range(checker'.left) = HashedLogs
           /\ \A f \in DOMAIN checker'.made.logs : logs[f] # Absent
           /\ checker'.made = Digests(Claims, Restrict(logs, DOMAIN checker'.made.logs)),
         checker'.at = "hash lab" =>
           Complete /\ checker'.made = Digests(Claims, Restrict(logs, HashedLogs)),
         checker'.at = "write" => Complete /\ checker'.made = Manifest
  PROVE  Advances
<1>1. /\ Inventoried /\ Parseable /\ OfThisLab /\ Audited /\ report = Claims
      /\ Unaltered("comparison", 1) /\ Counted /\ Unaltered("repeated", ClaimedTrials)
  BY DEF Checking, Progress, ReadProgress, HashProgress, Hashing
<1>2. ReadProgress'
  BY <1>1, FactsStay DEF ReadProgress, Comparing, Hashing
<1>3. HashProgress'
  <2>1. /\ report' = report /\ domains' = domains /\ logs' = logs /\ derived' = derived
        /\ Claims' = Claims /\ Manifest' = Manifest /\ (Complete' <=> Complete)
    BY FactsStay
  <2>2. \A c, l : Digests(c, l)' = Digests(c, l)
    BY <2>1 DEF Digests
  <2>3. HashedLogs' = HashedLogs
    OBVIOUS
  <2>4. checker'.at \in Hashing => "made" \in DOMAIN checker' /\ report' = Claims'
    BY <1>1, <2>1
  <2>5. QED
    BY <2>1, <2>2, <2>3, <2>4 DEF HashProgress, Digests
<1>4. QED
  BY <1>2, <1>3, Advancing DEF CommandStages, Hashing

LEMMA DigestsHold == \A claims, ls : Digests(claims, ls).logs = ls
BY DEF Digests

LEMMA HashClaimAdvances ==
  ASSUME IndInv, StageInv, Checking, HashClaim
  PROVE  Advances
<1> DEFINE k == Head(checker.left)
           claims == Put(checker.made.claims, k, derived[k])
           made == Digests(claims, <<>>)
           held == [checker EXCEPT !.made.claims = claims]
           l == Ordered("comparison", HashingOrder, 1) \o
                  Ordered("repeated", HashingOrder, BundleTrials)
           d == Put([domains |-> domains], "comparison", derived["comparison"])
<1>1. /\ checker.at = "hash claims"
      /\ {"at", "does", "left", "expected", "made"} \subseteq DOMAIN checker
  BY DEF HashClaim, StageInv, Checking, Progress
<1>2. \/ /\ checker.left = <<"comparison", "repeated">>
         /\ checker.made = Digests([domains |-> domains], <<>>)
      \/ checker.left = <<"repeated">> /\ checker.made = Digests(d, <<>>)
  BY <1>1 DEF Checking, Progress, HashProgress
<1>3. /\ UNCHANGED Unread
      /\ k = "comparison" => checker' = [held EXCEPT !.left = Tail(held.left)]
      /\ k # "comparison" => checker' = [[held EXCEPT !.at = "hash logs"] EXCEPT !.left = l]
  BY DEF HashClaim, Go
<1>4. /\ DOMAIN held = DOMAIN checker /\ held.made = made
      /\ \A y \in DOMAIN checker : y # "made" => held[y] = checker[y]
  <2>1. held = [checker EXCEPT !.made = [checker.made EXCEPT !.claims = claims]]
    OBVIOUS
  <2>2. [checker.made EXCEPT !.claims = claims] = made
    BY <1>2 DEF Digests
  <2>3. QED
    BY <1>1, <2>1, <2>2
<1>5. CASE checker.left = <<"comparison", "repeated">>
  <2>1. k = "comparison" /\ Tail(checker.left) = <<"repeated">>
    BY <1>5
  <2>2. checker.made = Digests([domains |-> domains], <<>>)
    BY <1>2, <1>5
  <2>3. claims = d
    BY <2>1, <2>2 DEF Digests
  <2> HIDE DEF k, held, claims, d
  <2>4. /\ checker'.at = "hash claims" /\ checker'.left = <<"repeated">>
        /\ checker'.made = Digests(d, <<>>) /\ "made" \in DOMAIN checker' /\ Keeps
    BY <1>1, <1>3, <1>4, <2>1, <2>3 DEF Keeps
  <2>5. QED
    BY <1>1, <1>3, <2>4, HashingOn DEF Hashing, d
<1>6. CASE checker.left = <<"repeated">>
  <2>1. k = "repeated"
    BY <1>6
  <2>2. checker.made = Digests(d, <<>>)
    BY <1>2, <1>6
  <2>3. claims = Put(d, "repeated", derived["repeated"])
    BY <2>1, <2>2 DEF Digests
  <2>4. claims = Claims
    <3>1. /\ DOMAIN d = {"domains", "comparison"} /\ d["domains"] = domains
          /\ d["comparison"] = derived["comparison"]
      BY DEF Put
    <3>2. Put(d, "repeated", derived["repeated"]) =
            [x \in {"domains", "comparison", "repeated"} |->
               IF x = "domains" THEN domains ELSE derived[x]]
      <4> HIDE DEF d
      <4>1. QED
        BY <3>1 DEF Put
    <3>3. Claims = [x \in {"domains", "comparison", "repeated"} |->
                      IF x = "domains" THEN domains ELSE derived[x]]
      BY DEF Claims, Put, IndInv, CaptureInv, Kinds
    <3>4. QED
      BY <2>3, <3>2, <3>3
  <2> HIDE DEF k, held, claims, l
  <2>5. /\ checker'.at = "hash logs" /\ checker'.left = l
        /\ checker'.made = Digests(Claims, <<>>) /\ "made" \in DOMAIN checker' /\ Keeps
    BY <1>1, <1>3, <1>4, <2>1, <2>4 DEF Keeps
  <2>6. l \in Seq(HashedLogs) /\ l # <<>> /\ Range(l) = HashedLogs
    BY HashedAreTrials DEF l, HashedLogs
  <2>7. checker'.made.logs = <<>> /\ DOMAIN <<>> = {} /\ Restrict(logs, {}) = <<>>
    <3>1. checker'.made.logs = <<>>
      BY <2>5, DigestsHold
    <3>2. DOMAIN <<>> = {}
      OBVIOUS
    <3>3. Restrict(logs, {}) = <<>>
      BY DEF Restrict
    <3>4. QED
      BY <3>1, <3>2, <3>3
  <2>8. QED
    BY <1>1, <1>3, <2>5, <2>6, <2>7, HashingOn DEF Hashing
<1>7. QED
  BY <1>2, <1>5, <1>6

LEMMA HashLogAdvances ==
  ASSUME IndInv, StageInv, Checking, HashLog
  PROVE  Advances \/ (Refuse /\ ~Sealed)
<1> DEFINE f == Head(checker.left)
           D == DOMAIN checker.made.logs
           ls == Put(checker.made.logs, f, logs[f])
           held == [checker EXCEPT !.made.logs = ls]
<1>1. /\ checker.at = "hash logs"
      /\ {"at", "does", "left", "expected", "made"} \subseteq DOMAIN checker
  BY DEF HashLog, StageInv, Checking, Progress
<1>2. /\ checker.left \in Seq(HashedLogs) /\ checker.left # <<>>
      /\ D \cup Range(checker.left) = HashedLogs
      /\ \A g \in D : logs[g] # Absent
      /\ checker.made = Digests(Claims, Restrict(logs, D))
  BY <1>1 DEF Checking, Progress, HashProgress
<1>3. /\ f \in HashedLogs /\ Tail(checker.left) \in Seq(HashedLogs)
      /\ Range(checker.left) = {f} \cup Range(Tail(checker.left))
      /\ Len(checker.left) = 1 => Range(checker.left) = {f}
      /\ Len(checker.left) > 1 => Tail(checker.left) # <<>>
  BY <1>2, FirstAndRest
<1>4. CASE logs[f] = Absent
  BY <1>3, <1>4 DEF HashLog, Sealed, Complete
<1>5. CASE logs[f] # Absent
  <2>1. ls = Restrict(logs, D \cup {f}) /\ DOMAIN Restrict(logs, D \cup {f}) = D \cup {f}
    <3>1. checker.made.logs = Restrict(logs, D)
      BY <1>2 DEF Digests
    <3>2. \A g \in D : checker.made.logs[g] = logs[g]
      BY <3>1 DEF Restrict
    <3> HIDE DEF D, f
    <3>3. Put(checker.made.logs, f, logs[f]) = [g \in D \cup {f} |-> logs[g]]
      BY <3>2 DEF Put, D
    <3>4. QED
      BY <3>3 DEF Restrict, f, D
  <2>2. /\ DOMAIN held = DOMAIN checker /\ held.made = Digests(Claims, Restrict(logs, D \cup {f}))
        /\ \A y \in DOMAIN checker : y # "made" => held[y] = checker[y]
    <3>1. held = [checker EXCEPT !.made = [checker.made EXCEPT !.logs = ls]]
      OBVIOUS
    <3> HIDE DEF ls, D, f
    <3>2. [checker.made EXCEPT !.logs = ls] = Digests(Claims, ls)
      BY <1>2 DEF Digests
    <3>3. QED
      BY <1>1, <2>1, <3>1, <3>2
  <2>3. UNCHANGED Unread
    BY DEF HashLog, Go, Refuse
  <2>4. \A g \in D \cup {f} : logs[g] # Absent
    BY <1>2, <1>5
  <2>5. \/ Len(checker.left) = 1 /\ checker' = [held EXCEPT !.at = "hash lab"]
        \/ Len(checker.left) > 1 /\ checker' = [held EXCEPT !.left = Tail(held.left)]
    BY <1>5 DEF HashLog, Go
  <2> HIDE DEF held, ls, D, f
  <2>6. CASE Len(checker.left) = 1 /\ checker' = [held EXCEPT !.at = "hash lab"]
    <3>1. D \cup {f} = HashedLogs
      BY <1>2, <1>3, <2>6
    <3>2. Complete
      BY <2>4, <3>1 DEF Complete
    <3>3. /\ checker'.at = "hash lab" /\ checker'.made = Digests(Claims, Restrict(logs, HashedLogs))
          /\ "made" \in DOMAIN checker' /\ Keeps
      BY <1>1, <2>2, <2>6, <3>1 DEF Keeps
    <3>4. QED
      BY <1>1, <2>3, <3>2, <3>3, HashingOn DEF Hashing
  <2>7. CASE Len(checker.left) > 1 /\ checker' = [held EXCEPT !.left = Tail(held.left)]
    <3>1. /\ checker'.at = "hash logs"
          /\ checker'.made = Digests(Claims, Restrict(logs, D \cup {f}))
          /\ checker'.left = Tail(checker.left)
          /\ "made" \in DOMAIN checker' /\ Keeps
      BY <1>1, <2>2, <2>7 DEF Keeps
    <3>2. DOMAIN checker'.made.logs = D \cup {f}
      BY <2>1, <3>1, DigestsHold
    <3>3. (D \cup {f}) \cup Range(checker'.left) = HashedLogs
      BY <1>2, <1>3, <3>1
    <3>4. QED
      BY <1>1, <1>3, <2>3, <2>4, <2>7, <3>1, <3>2, <3>3, HashingOn DEF Hashing
  <2>8. QED
    BY <2>5, <2>6, <2>7
<1>6. QED
  BY <1>4, <1>5

LEMMA HashLabAdvances ==
  ASSUME IndInv, StageInv, Checking, HashLab
  PROVE  \/ Advances \/ (Refuse /\ ~Sealed)
         \/ checker.does = "verify" /\ checker'.at = "verified" /\ UNCHANGED <<Unread, undisturbed>>
<1> DEFINE made == Put(checker.made, "lab", Lab)
<1>1. /\ checker.at = "hash lab"
      /\ {"at", "does", "left", "expected", "made"} \subseteq DOMAIN checker
  BY DEF HashLab, StageInv, Checking, Progress
<1>2. Complete /\ checker.made = Digests(Claims, Restrict(logs, HashedLogs)) /\ report = Claims
  BY <1>1 DEF Checking, Progress, HashProgress, Hashing
<1>3. made = Manifest
  <2> DEFINE ls == Restrict(logs, HashedLogs)
  <2>1. checker.made = [report |-> report, claims |-> Claims, logs |-> ls]
    BY <1>2 DEF Digests
  <2> HIDE DEF ls
  <2>2. made = [report |-> report, claims |-> Claims, lab |-> Lab, logs |-> ls]
    BY <2>1 DEF Put
  <2>3. QED
    BY <2>2 DEF ls, Manifest
<1> HIDE DEF made
<1>4. CASE checker.does = "generate"
  <2>1. UNCHANGED Unread /\ checker' = [[checker EXCEPT !.at = "write"] EXCEPT !.made = made]
    BY <1>4 DEF HashLab, Go, To, made
  <2>2. /\ Keeps /\ checker'.at = "write" /\ checker'.made = Manifest /\ "made" \in DOMAIN checker'
    BY <1>1, <1>3, <2>1 DEF Keeps
  <2>3. QED
    BY <1>1, <1>2, <2>1, <2>2, HashingOn DEF Hashing
<1>5. CASE checker.does = "verify"
  <2>1. checker.expected = manifest
    BY <1>5 DEF Checking, Progress
  <2>2. CASE manifest = Manifest
    <3>1. checker' = [at |-> "verified"] /\ UNCHANGED <<Unread, undisturbed>>
      BY <1>3, <1>5, <2>1, <2>2 DEF HashLab, Go, made
    <3>2. QED
      BY <1>5, <3>1
  <2>3. CASE manifest # Manifest
    BY <1>3, <1>5, <2>1, <2>3 DEF HashLab, Sealed, made
  <2>4. QED
    BY <2>2, <2>3
<1>6. QED
  BY <1>4, <1>5 DEF Checking

(* The manifest that generate writes is of what it has found.              *)
LEMMA WrittenIsSealed ==
  ASSUME IndInv, Checking, WriteManifest
  PROVE  Sealed' /\ checker'.at = "idle"
<1>1. checker.at = "write" /\ manifest' = checker.made /\ checker' = Idle
      /\ UNCHANGED <<captureVars, fileVars, report>>
  BY DEF WriteManifest
<1>2. /\ Inventoried /\ Parseable /\ OfThisLab /\ Audited /\ report = Claims
      /\ Unaltered("comparison", 1) /\ Counted /\ Unaltered("repeated", ClaimedTrials)
      /\ Complete /\ checker.made = Manifest
  BY <1>1 DEF Checking, Progress, ReadProgress, HashProgress, Hashing
<1>3. /\ UNCHANGED <<baseline, runs, logs, derived, candidate, catalog, domains>>
      /\ UNCHANGED report
  BY <1>1 DEF captureVars, fileVars
<1>4. Claims' = Claims /\ Manifest' = Manifest /\ ClaimedTrials' = ClaimedTrials
  BY <1>3 DEF Claims, Manifest, Lab, ClaimedTrials
<1>5. Inventoried' /\ Parseable' /\ OfThisLab' /\ Audited' /\ Counted' /\ Complete'
  BY <1>2, <1>3, <1>4 DEF Inventoried, Globbed, Parseable, OfThisLab, Audited, Counted, Complete
<1>6. Unaltered("comparison", 1)' /\ Unaltered("repeated", ClaimedTrials)'
  <2>1. \A f : Agrees(f)' <=> Agrees(f)
    BY <1>3 DEF Agrees
  <2>2. QED
    BY <1>2, <1>4, <2>1 DEF Unaltered
<1>7. QED
  BY <1>1, <1>2, <1>3, <1>4, <1>5, <1>6 DEF Sealed, Idle

(* The commands other than generate and verify.                            *)
LEMMA OtherCommands ==
  ASSUME IndInv, checker.at \notin Resting, checker.does \notin {"generate", "verify"},
         Check
  PROVE  /\ undisturbed' => undisturbed /\ UNCHANGED Unread
         /\ checker'.at \notin {"refused", "verified"}
         /\ checker'.at \in Resting \/ checker'.does \notin {"generate", "verify"}
<1>1. {"at", "does"} \subseteq DOMAIN checker
  BY DEF IndInv, CheckerInv
<1>2. CASE Refuse
  BY <1>2 DEF Refuse, Resting
<1>3. CASE WriteReport
  BY <1>3 DEF WriteReport, Idle, Resting
<1>4. CASE ~Refuse /\ ~WriteReport
  <2>1. UNCHANGED <<Unread, undisturbed>>
    BY <1>4 DEF Check, Inventory, LoadClaim, CheckFingerprint, ReadLog, CountTrials,
                CheckAudit, CompareReport, HashClaim, HashLog, HashLab, WriteManifest, Go
  <2>2. checker'.does = checker.does /\ checker'.at \notin {"refused", "verified"}
    <3>1. CASE Inventory \/ CheckFingerprint \/ ReadLog \/ CountTrials \/ CheckAudit
      BY <1>1, <1>4, <3>1 DEF Inventory, CheckFingerprint, ReadLog, CountTrials, CheckAudit, Go, To
    <3>2. CASE LoadClaim
      <4> DEFINE k == Head(checker.left)
                 held == Put(checker, k, derived[k])
      <4>1. /\ checker.at = "load" /\ k \in Kinds
            /\ \/ checker' = [held EXCEPT !.left = Tail(held.left)]
               \/ checker' = [held EXCEPT !.at = "serving"]
               \/ checker' = Put([held EXCEPT !.at = "fingerprint"], "domains", domains)
        BY <1>4, <3>2 DEF LoadClaim, Go, Kinds
      <4>2. /\ "at" \in DOMAIN held /\ held.at = "load"
            /\ "does" \in DOMAIN held /\ held.does = checker.does
        BY <1>1, <4>1 DEF Put, Kinds
      <4> HIDE DEF held, k
      <4>3. QED
        BY <4>1, <4>2 DEF Put
    <3>3. CASE CompareReport
      <4> DEFINE made == [report |-> report, claims |-> [domains |-> domains], logs |-> <<>>]
      <4>1. checker' = [does |-> checker.does, at |-> "hash claims",
                        left |-> <<"comparison", "repeated">>,
                        expected |-> checker.expected, made |-> made]
        BY <1>4, <3>3 DEF CompareReport, Go
      <4> HIDE DEF made
      <4>2. QED
        BY <4>1
    <3>4. ASSUME NEW held, DOMAIN held = DOMAIN checker,
                 \A y \in DOMAIN checker : y # "made" => held[y] = checker[y],
                 \/ \E l : checker' = [held EXCEPT !.left = l]
                 \/ \E l : checker' = [held EXCEPT !.at = "hash logs", !.left = l]
                 \/ checker' = [held EXCEPT !.at = "hash lab"],
                 checker.at \notin {"refused", "verified"}
          PROVE  checker'.does = checker.does /\ checker'.at \notin {"refused", "verified"}
      BY <1>1, <3>4
    <3>5. CASE HashClaim
      <4> DEFINE held == [checker EXCEPT !.made.claims =
                            Put(@, Head(checker.left), derived[Head(checker.left)])]
      <4>1. \/ \E l : checker' = [held EXCEPT !.left = l]
            \/ \E l : checker' = [held EXCEPT !.at = "hash logs", !.left = l]
        BY <1>4, <3>5 DEF HashClaim, Go
      <4>2. /\ DOMAIN held = DOMAIN checker /\ checker.at \notin {"refused", "verified"}
            /\ \A y \in DOMAIN checker : y # "made" => held[y] = checker[y]
        BY <3>5 DEF HashClaim
      <4> HIDE DEF held
      <4>3. QED
        BY <3>4, <4>1, <4>2
    <3>6. CASE HashLog
      <4> DEFINE f == Head(checker.left)
                 held == [checker EXCEPT !.made.logs = Put(@, f, logs[f])]
      <4>1. \/ checker' = [held EXCEPT !.at = "hash lab"]
            \/ \E l : checker' = [held EXCEPT !.left = l]
        BY <1>4, <3>6 DEF HashLog, Go
      <4>2. /\ DOMAIN held = DOMAIN checker /\ checker.at \notin {"refused", "verified"}
            /\ \A y \in DOMAIN checker : y # "made" => held[y] = checker[y]
        BY <3>6 DEF HashLog
      <4> HIDE DEF held
      <4>3. QED
        BY <3>4, <4>1, <4>2
    <3>7. ~HashLab /\ ~WriteManifest
      BY DEF HashLab, WriteManifest
    <3>8. QED
      BY <1>4, <3>1, <3>2, <3>3, <3>5, <3>6, <3>7 DEF Check
  <2>3. QED
    BY <2>1, <2>2
<1>5. QED
  BY <1>2, <1>3, <1>4

(* Captures that touch no evidence, and stuttering.                        *)
LEMMA TrustStays ==
  ASSUME TrustInv, UNCHANGED <<baseline, logs, derived, fileVars, report, manifest, checker>>,
         OfThisLab' <=> OfThisLab, undisturbed' => undisturbed
  PROVE  TrustInv'
<1>1. UNCHANGED <<checker, manifest, report, derived, domains, logs>>
  BY DEF fileVars
<1>2. Sealed' <=> Sealed
  BY BundleStays
<1>3. ReadProgress' <=> ReadProgress
  <2>1. \A k, n : ReadSoFar(k, n)' <=> ReadSoFar(k, n)
    BY <1>1, BundleStays DEF ReadSoFar
  <2>2. QED
    BY <1>1, <2>1, BundleStays DEF ReadProgress
<1>4. HashProgress' <=> HashProgress
  BY <1>1, BundleStays DEF HashProgress, Digests
<1>5. Progress' <=> Progress
  BY <1>1, <1>3, <1>4 DEF Progress
<1>6. QED
  BY <1>1, <1>2, <1>5 DEF TrustInv

LEMMA BeginningTrusts ==
  ASSUME TrustInv, NEW does \in {"report", "generate", "verify", "serve"}, Begin(does)
  PROVE  TrustInv'
<1>1. /\ checker.at \in Resting
      /\ checker' = [does |-> does,
                     at |-> IF does \in {"generate", "verify"} THEN "inventory" ELSE "load",
                     left |-> <<"comparison", "repeated">>,
                     expected |-> IF does = "verify" THEN manifest ELSE Nothing]
      /\ undisturbed' = (undisturbed \/ does = "generate")
      /\ UNCHANGED <<baseline, runs, logs, derived, fileVars, report, manifest>>
  BY DEF Begin, Unread, captureVars, fileVars
<1>2. (Sealed' <=> Sealed) /\ manifest' = manifest
  <2>1. OfThisLab' <=> OfThisLab
    BY <1>1 DEF OfThisLab
  <2>2. QED
    BY <1>1, <2>1, BundleStays
<1>3. /\ DOMAIN checker' = {"does", "at", "left", "expected"} /\ checker'.does = does
      /\ checker'.at \in {"inventory", "load"}
      /\ does = "verify" => checker'.expected = manifest
      /\ does \in {"generate", "verify"} => checker'.at = "inventory"
  BY <1>1
<1>4. does \in {"generate", "verify"} => Progress'
  <2>1. does \in {"generate", "verify"} => ReadProgress' /\ HashProgress'
    BY <1>3 DEF ReadProgress, HashProgress, Kinds, Comparing, Hashing
  <2>2. QED
    BY <1>2, <1>3, <2>1 DEF Progress, CommandStages
<1>5. undisturbed' /\ does # "generate" => Sealed'
  BY <1>1, <1>2 DEF TrustInv
<1>6. QED
  BY <1>3, <1>4, <1>5 DEF TrustInv, Resting

LEMMA CheckingTrusts ==
  ASSUME IndInv, StageInv, TrustInv, Check
  PROVE  TrustInv'
<1> SUFFICES ASSUME undisturbed' PROVE TrustInv'
  BY DEF TrustInv
<1>1. checker.at \notin Resting
  BY DEF Check, Inventory, LoadClaim, CheckFingerprint, ReadLog, CountTrials, CheckAudit,
         WriteReport, CompareReport, HashClaim, HashLog, HashLab, WriteManifest, Resting
<1>2. CASE checker.does \notin {"generate", "verify"}
  <2>1. /\ undisturbed /\ UNCHANGED Unread /\ checker'.at # "refused"
        /\ checker'.at \in Resting \/ checker'.does \notin {"generate", "verify"}
    BY <1>1, <1>2, OtherCommands
  <2>2. Sealed'
    BY <1>2, <2>1, FactsStay DEF TrustInv
  <2>3. QED
    BY <2>1, <2>2 DEF TrustInv
<1>3. CASE checker.does \in {"generate", "verify"}
  <2>1. undisturbed
    BY <1>3 DEF Check, Inventory, LoadClaim, CheckFingerprint, ReadLog, CountTrials,
                CheckAudit, WriteReport, CompareReport, HashClaim, HashLog, HashLab, WriteManifest, Go, Refuse
  <2>2. Checking /\ (checker.does = "verify" => Sealed)
    BY <1>1, <1>3, <2>1 DEF Checking, TrustInv
  <2>3. ~WriteReport
    BY <1>3, <2>2 DEF WriteReport, Checking, Progress, CommandStages
  <2>4. CASE WriteManifest
    BY <2>2, <2>4, WrittenIsSealed DEF TrustInv, Resting
  <2>5. CASE Advances /\ UNCHANGED Unread
    <3>1. checker'.does # "generate" => Sealed'
      BY <1>3, <2>2, <2>5, FactsStay DEF Advances
    <3>2. QED
      BY <2>5, <3>1 DEF TrustInv, Advances, Resting
  <2>6. CASE Refuse /\ ~Sealed
    BY <1>3, <2>2, <2>6 DEF Refuse
  <2>7. CASE checker.does = "verify" /\ checker'.at = "verified" /\ UNCHANGED <<Unread, undisturbed>>
    <3>1. Sealed'
      BY <2>2, <2>7, FactsStay
    <3>2. QED
      BY <2>7, <3>1 DEF TrustInv, Resting
  <2>8. WriteManifest \/ UNCHANGED Unread
    BY <2>3 DEF Check, Inventory, LoadClaim, CheckFingerprint, ReadLog, CountTrials, CheckAudit,
                CompareReport, HashClaim, HashLog, HashLab, Go, Refuse
  <2>9. \/ WriteManifest \/ Advances \/ (Refuse /\ ~Sealed)
        \/ checker.does = "verify" /\ checker'.at = "verified" /\ UNCHANGED <<Unread, undisturbed>>
    BY <2>2, <2>3, InventoryAdvances, LoadClaimAdvances, CheckFingerprintAdvances, ReadLogAdvances,
       CountTrialsAdvances, CheckAuditAdvances, CompareReportAdvances, HashClaimAdvances,
       HashLogAdvances, HashLabAdvances DEF Check
  <2>10. QED
    BY <2>4, <2>5, <2>6, <2>7, <2>8, <2>9
<1>4. QED
  BY <1>2, <1>3

LEMMA CapturingTrusts ==
  ASSUME IndInv, TrustInv, Capture
  PROVE  TrustInv'
<1> SUFFICES ASSUME undisturbed' PROVE TrustInv'
  BY DEF TrustInv
<1>1. undisturbed /\ UNCHANGED <<logs, derived, fileVars, report, manifest, checker>> /\ WriterStep
  BY DEF Capture
<1>2. baseline' = baseline
  BY <1>1 DEF WriterStep, StartScript, AggregateByHand, Aggregate, OpenLog, CloseLog, EndScript,
              FinishWrite, WriterFails
<1>3. OfThisLab' <=> OfThisLab
  <2>1. Grows /\ runs \in Seq(Nat)
    BY <1>1, WritingKeeps DEF IndInv, CaptureInv
  <2>2. Range(derived["comparison"]) \cup Range(derived["repeated"]) \subseteq DOMAIN runs
    BY DEF IndInv, CaptureInv, Sound, Kinds, Range, Torn
  <2>3. Versions(runs', derived["comparison"], derived["repeated"]) =
          Versions(runs, derived["comparison"], derived["repeated"])
    BY <2>1, <2>2, GrowingKeepsRuns DEF Versions
  <2>4. QED
    BY <1>1, <1>2, <2>3 DEF OfThisLab
<1>4. QED
  BY <1>1, <1>2, <1>3, TrustStays

LEMMA PowerLossTrusts ==
  ASSUME TrustInv, PowerLoss
  PROVE  TrustInv'
<1> SUFFICES ASSUME undisturbed' PROVE TrustInv'
  BY DEF TrustInv
<1>1. /\ undisturbed /\ checker.at \in Resting /\ checker'.at = "idle"
      /\ UNCHANGED <<baseline, runs, logs, derived, fileVars, report, manifest>>
  BY DEF PowerLoss, LoseWrites, Idle
<1>2. OfThisLab' <=> OfThisLab
  BY <1>1 DEF OfThisLab
<1>3. Sealed'
  BY <1>1, <1>2, BundleStays DEF TrustInv
<1>4. QED
  BY <1>1, <1>3 DEF TrustInv, Resting

LEMMA TrustInvariance == Spec => []TrustInv
<1>1. Init => TrustInv
  BY SealedInit DEF Init, Idle, TrustInv, Resting
<1>2. ASSUME IndInv, StageInv, TrustInv, [Next]_vars PROVE TrustInv'
  <2>1. CASE Edit \/ FollowUp
    BY <2>1 DEF Edit, FollowUp, TrustInv
  <2>2. CASE UNCHANGED vars
    <3>1. /\ UNCHANGED <<baseline, runs, logs, derived, fileVars, report, manifest, checker>>
          /\ undisturbed' = undisturbed
      BY <2>2 DEF vars, captureVars
    <3>2. OfThisLab' <=> OfThisLab
      BY <3>1 DEF OfThisLab
    <3>3. QED
      BY <1>2, <3>1, <3>2, TrustStays
  <2>3. QED
    BY <1>2, <2>1, <2>2, BeginningTrusts, CheckingTrusts, CapturingTrusts, PowerLossTrusts DEF Next
<1>3. QED
  BY <1>1, <1>2, Invariance, StageInvariance, PTL DEF Spec

(* docs/EVIDENCE_VERIFICATION.md: verify fails if an artifact has changed, *)
(* and only then: the manifest that generate leaves is of a bundle that    *)
(* passes every check of verify, and nothing but a write to an artifact    *)
(* makes one of them fail.                                                 *)
THEOREM VerifyRaisesNoFalseAlarm == Spec => []NoFalseAlarm
<1>1. TrustInv => NoFalseAlarm
  BY DEF TrustInv, NoFalseAlarm
<1>2. QED
  BY <1>1, TrustInvariance, PTL
-----------------------------------------------------------------------------
(* Time, as the raw logs tell it.  A run captures a log at most once, and  *)
(* later runs have higher numbers: what a log held once it never holds     *)
(* again after anything else.                                              *)
Pending(f) == writer.at \in {"open", "tee"} /\ f \in Range(writer.left)

(* The log was captured, by run r or a later one, and will be by later ones*)
(* only.                                                                   *)
AtLeast(f, r) ==
  /\ f \in Files /\ r \in DOMAIN runs /\ logs[f] # Absent
  /\ logs[f] \in DOMAIN runs => r <= logs[f]
  /\ Pending(f) => r < Len(runs)

(* Run r is a thing of the past.                                           *)
Over(f, r) == AtLeast(f, r) /\ logs[f] # r

Captured(claim) ==
  /\ claim = [f \in DOMAIN claim |-> claim[f]]
  /\ \A f \in DOMAIN claim : AtLeast(f, claim[f])

Newer(d, c) == \A f \in DOMAIN c \cap DOMAIN d : c[f] <= d[f]

(* A claim that was made some time ago: the present one, or the one that is*)
(* about to be written, is of the same logs or of later ones.              *)
Held(k, claim) ==
  /\ Captured(claim) /\ Newer(derived[k], claim)
  /\ writer.at = "write" /\ writer.kind = k => Newer(writer.claim, claim)

OnceInv ==
  /\ writer.at \in {"open", "tee"} =>
       /\ writer.left \in Seq(Files)
       /\ \A i, j \in DOMAIN writer.left : writer.left[i] = writer.left[j] => i = j
       /\ \A f \in Range(writer.left) : logs[f] # Len(runs)
  /\ writer.at = "tee" => writer.left # <<>>
  /\ writer.at = "write" => derived[writer.kind] = Torn /\ Captured(writer.claim)
  /\ \A k \in Kinds : Captured(derived[k])

(* What is known of a report and of the artifacts that were hashed after it*)
(* was rendered: they may be later than the report, never earlier.         *)
Recent(rep, version) ==
  \E v \in 1..version : Versions(runs, rep["comparison"], rep["repeated"]) = {v}

Rendered(rep) ==
  /\ DOMAIN rep = Kinds \cup {"domains"}
  /\ \A k \in Kinds : rep[k] # Torn /\ Sound(runs, k, rep[k]) /\ Held(k, rep[k])
  /\ Recent(rep, baseline)
  /\ rep["domains"] \in Nat /\ rep["domains"] <= catalog /\ rep["domains"] <= candidate

ClaimFits(k, rep, c) ==
  /\ Sound(runs, k, c) /\ Captured(c)
  /\ \A f \in DOMAIN rep[k] \cap DOMAIN c : c[f] = rep[k][f] \/ Over(f, rep[k][f])

ClaimsFit(rep, claims) ==
  /\ "domains" \in DOMAIN claims /\ claims["domains"] \in Nat
  /\ rep["domains"] <= claims["domains"] /\ claims["domains"] <= domains
  /\ \A k \in Kinds \cap DOMAIN claims : ClaimFits(k, rep, claims[k])

LogsFit(rep, ls) ==
  \A k \in Kinds : \A f \in DOMAIN rep[k] \cap DOMAIN ls :
    ls[f] = rep[k][f] \/ Over(f, rep[k][f])

LabFits(rep, lab) ==
  /\ Recent(rep, lab.baseline) /\ lab.baseline \in Nat /\ lab.baseline <= baseline
  /\ lab.catalog \in Nat /\ rep["domains"] <= lab.catalog /\ lab.catalog <= catalog
  /\ lab.candidate \in Nat /\ rep["domains"] <= lab.candidate
  /\ lab.candidate <= candidate

Fits(m) ==
  /\ Rendered(m.report)
  /\ ClaimsFit(m.report, m.claims) /\ DOMAIN m.claims = Kinds \cup {"domains"}
  /\ LogsFit(m.report, m.logs) /\ DOMAIN m.logs = HashedLogs
  /\ LabFits(m.report, m.lab)

(* What a command holds, on its way to a manifest.                         *)
Holding == {"inventory", "load", "fingerprint"} \cup Comparing

HeldInv ==
  /\ checker.at \in Holding =>
       \A k \in Kinds \cap DOMAIN checker : checker[k] # Torn /\ Held(k, checker[k])
  /\ checker.at \in {"fingerprint"} \cup Comparing =>
       "domains" \in DOMAIN checker /\ checker.domains \in Nat /\ checker.domains <= domains
  /\ checker.at \in Comparing => Recent(checker, baseline)
  /\ checker.at = "report" => checker.domains <= catalog /\ checker.domains <= candidate

MadeInv ==
  /\ checker.at \in Hashing =>
       /\ "made" \in DOMAIN checker /\ Artifacts \ {"lab"} \subseteq DOMAIN checker.made
       /\ Rendered(checker.made.report)
       /\ ClaimsFit(checker.made.report, checker.made.claims)
       /\ LogsFit(checker.made.report, checker.made.logs)
  /\ checker.at = "hash claims" =>
       \/ checker.left = <<"comparison", "repeated">> /\ DOMAIN checker.made.claims = {"domains"}
       \/ /\ checker.left = <<"repeated">>
          /\ DOMAIN checker.made.claims = {"domains", "comparison"}
  /\ checker.at \in {"hash logs", "hash lab", "write"} =>
       DOMAIN checker.made.claims = Kinds \cup {"domains"}
  /\ checker.at \in {"hash claims"} => DOMAIN checker.made.logs = {}
  /\ checker.at = "hash logs" =>
       /\ checker.left \in Seq(HashedLogs) /\ checker.left # <<>>
       /\ DOMAIN checker.made.logs \cup Range(checker.left) = HashedLogs
  /\ checker.at \in {"hash lab", "write"} => DOMAIN checker.made.logs = HashedLogs
  /\ checker.at = "write" => Fits(checker.made)

(* What verify, besides, finds out about the manifest: if its own report   *)
(* turns out to be the manifest's, nothing was later than the report.      *)
Same(k) == checker[k] = manifest.report[k]

Borne(f) ==
  LET k == f[1]
  IN  f \in DOMAIN manifest.report[k] =>
        /\ f \in DOMAIN manifest.logs => manifest.logs[f] = manifest.report[k][f]
        /\ f \in DOMAIN manifest.claims[k] => manifest.claims[k][f] = manifest.report[k][f]

BorneBy(k, fs) == Same(k) => \A f \in fs : Borne(f)

ReadsOn(k) ==
  /\ checker.left \in Seq({f \in Files : f[1] = k})
  /\ BorneBy(k, DOMAIN checker[k] \ Range(checker.left))

Listed == \A f \in DOMAIN manifest.report["repeated"] \cup DOMAIN manifest.claims["repeated"] :
            f[3] <= BundleTrials

VerifyInv ==
  /\ checker.expected = manifest
  /\ checker.at \in Holding \ {"inventory"} => Listed
  /\ checker.at \in {"fingerprint"} \cup Comparing => manifest.claims["domains"] <= checker.domains
  /\ checker.at \in Comparing =>
       (Same("comparison") /\ Same("repeated") =>
          Versions(runs, manifest.report["comparison"], manifest.report["repeated"]) =
            {manifest.lab.baseline})
  /\ checker.at = "comparison" => ReadsOn("comparison")
  /\ checker.at \in {"repeated", "audit", "report"} =>
       BorneBy("comparison", DOMAIN checker["comparison"])
  /\ checker.at = "repeated" => ReadsOn("repeated")
  /\ checker.at \in {"audit", "report"} => BorneBy("repeated", DOMAIN checker["repeated"])
  /\ checker.at = "report" =>
       (checker.domains = manifest.report["domains"] =>
          {manifest.report["domains"], manifest.claims["domains"], manifest.lab.catalog} =
            {manifest.lab.candidate})
  /\ checker.at \in Hashing => (checker.made.report = manifest.report => Consistent(manifest))

Bundling == checker.at \in CommandStages /\ checker.does \in {"generate", "verify"}

Following ==
  /\ {"at", "does", "left", "expected"} \subseteq DOMAIN checker
  /\ HeldInv /\ MadeInv
  /\ checker.does = "verify" => VerifyInv

HistoryInv ==
  /\ OnceInv /\ Fits(manifest)
  /\ Bundling => Following
  /\ VerifiedManifestIsConsistent

(* Steps on which time goes on: a log that is written was pending, and is  *)
(* written as the last run's.                                              *)
Moves ==
  /\ Grows
  /\ \A f \in Files : logs'[f] \in {logs[f], Broken} \/ (Pending(f) /\ logs'[f] = Len(runs))
  /\ \A f : Pending(f)' => Pending(f) \/ Len(runs) < Len(runs')

Writes ==
  /\ \A k \in Kinds : \/ derived'[k] \in {derived[k], Torn}
                      \/ writer.at = "write" /\ writer.kind = k /\ derived'[k] = writer.claim
  /\ writer'.at = "write" =>
       \/ writer' = writer
       \/ \A f \in DOMAIN writer'.claim : writer'.claim[f] = logs[f] /\ logs[f] \in DOMAIN runs

LEMMA MovingKeeps ==
  ASSUME runs \in Seq(Nat), RunTypes, Moves, NEW f, NEW r
  PROVE  (AtLeast(f, r) => AtLeast(f, r)') /\ (Over(f, r) => Over(f, r)')
<1>1. /\ DOMAIN runs = 1..Len(runs) /\ Len(runs) \in Nat
      /\ DOMAIN runs' = 1..Len(runs') /\ Len(runs') \in Nat /\ Len(runs) <= Len(runs')
  <2>1. CASE runs' = runs
    BY <2>1
  <2>2. ASSUME NEW v \in Nat, runs' = Append(runs, v)
        PROVE  DOMAIN runs' = 1..Len(runs') /\ Len(runs') \in Nat /\ Len(runs) <= Len(runs')
    BY <2>2
  <2>3. QED
    BY <2>1, <2>2 DEF Moves, Grows
<1>2. ASSUME AtLeast(f, r)
      PROVE  /\ AtLeast(f, r)'
             /\ logs'[f] = r => logs[f] = r
  <2>1. /\ f \in Files /\ r \in 1..Len(runs) /\ logs[f] # Absent
        /\ logs[f] \in 1..Len(runs) => r <= logs[f]
        /\ Pending(f) => r < Len(runs)
    BY <1>1, <1>2 DEF AtLeast
  <2>2. logs[f] \in {Absent, Broken} \cup 1..Len(runs)
    BY <1>1, <2>1 DEF RunTypes
  <2>3. logs'[f] \in {logs[f], Broken} \/ (Pending(f) /\ logs'[f] = Len(runs))
    BY <2>1 DEF Moves
  <2>4. /\ logs'[f] # Absent
        /\ logs'[f] \in 1..Len(runs') => r <= logs'[f]
        /\ logs'[f] = r => logs[f] = r
    BY <1>1, <2>1, <2>2, <2>3 DEF Absent, Broken
  <2>5. Pending(f)' => r < Len(runs')
    BY <1>1, <2>1 DEF Moves
  <2>6. QED
    BY <1>1, <2>1, <2>4, <2>5 DEF AtLeast
<1>3. QED
  BY <1>2 DEF Over

LEMMA HoldingKeeps ==
  ASSUME runs \in Seq(Nat), RunTypes, Moves, Writes, NEW k \in Kinds, NEW c, Held(k, c)
  PROVE  Held(k, c)'
<1>1. Captured(c)'
  BY MovingKeeps DEF Held, Captured
<1>2. Newer(derived'[k], c)
  <2>1. CASE derived'[k] = Torn
    BY <2>1 DEF Torn, Newer
  <2>2. CASE derived'[k] # Torn
    BY <2>2 DEF Writes, Held
  <2>3. QED
    BY <2>1, <2>2
<1>3. ASSUME writer'.at = "write", writer'.kind = k PROVE Newer(writer'.claim, c)
  <2>1. CASE writer' = writer
    BY <1>3, <2>1 DEF Held
  <2>2. CASE writer' # writer
    <3>1. ASSUME NEW f \in DOMAIN c, f \in DOMAIN writer'.claim PROVE c[f] <= writer'.claim[f]
      <4>1. AtLeast(f, c[f])
        BY DEF Held, Captured
      <4>2. QED
        BY <1>3, <2>2, <3>1, <4>1 DEF Writes, AtLeast
    <3>2. QED
      BY <3>1 DEF Newer
  <2>3. QED
    BY <2>1, <2>2
<1>4. QED
  BY <1>1, <1>2, <1>3 DEF Held, Newer

(* A script captures every log once.                                       *)
LEMMA ScriptIsOnce ==
  ASSUME NEW k \in Kinds, NEW n \in 1..MaxTrials, k = "comparison" => n = 1
  PROVE  /\ Script(k, n) \in Seq(Files)
         /\ \A i, j \in DOMAIN Script(k, n) : Script(k, n)[i] = Script(k, n)[j] => i = j
<1> DEFINE s == Script(k, n)
           p(i) == IF i % 2 = 1 THEN "ospf_only" ELSE "bfd_100x3"
<1>1. n \in Nat /\ n <= MaxTrials /\ MaxTrials \in Nat
  BY CaptureAssumption
<1>2. s = [i \in 1..(2 * n) |-> <<k, p(i), (i + 1) \div 2>>]
  BY DEF Script
<1>3. \A i \in 1..(2 * n) : (i + 1) \div 2 \in 1..n
  BY <1>1
<1>4. \A i \in 1..(2 * n) : p(i) \in Profiles
  BY DEF Profiles
<1>5. \A i, j \in 1..(2 * n) : p(i) = p(j) /\ (i + 1) \div 2 = (j + 1) \div 2 => i = j
  <2>1. ASSUME NEW i \in 1..(2 * n), NEW j \in 1..(2 * n), p(i) = p(j), (i + 1) \div 2 = (j + 1) \div 2
        PROVE  i = j
    <3>1. (i % 2 = 1) = (j % 2 = 1)
      BY <2>1
    <3>2. QED
      BY <1>1, <2>1, <3>1
  <2>2. QED
    BY <2>1
<1> HIDE DEF p
<1>6. \A i \in 1..(2 * n) : <<k, p(i), (i + 1) \div 2>> \in Files
  <2>1. ASSUME NEW i \in 1..(2 * n) PROVE <<k, p(i), (i + 1) \div 2>> \in Files
    <3> DEFINE t == (i + 1) \div 2
    <3>1. t \in 1..n /\ p(i) \in Profiles
      BY <1>3, <1>4
    <3> HIDE DEF t
    <3>2. t \in 1..MaxTrials /\ (k = "comparison" => t = 1)
      BY <1>1, <3>1
    <3>3. <<k, p(i), t>> \in Files
      BY <3>1, <3>2 DEF Files
    <3>4. QED
      BY <3>3 DEF t
  <2>2. QED
    BY <2>1
<1>7. s \in [1..(2 * n) -> Files] /\ 2 * n \in Nat
  BY <1>1, <1>2, <1>6
<1>8. \A i, j \in 1..(2 * n) : s[i] = s[j] => i = j
  BY <1>2, <1>5
<1>9. DOMAIN s = 1..(2 * n)
  BY <1>2
<1> HIDE DEF s
<1>10. s \in Seq(Files)
  BY <1>7
<1>11. QED
  BY <1>8, <1>9, <1>10 DEF s

LEMMA AggregatingMoves ==
  ASSUME CaptureInv, RunTypes, OnceInv, writer.at # "write", \A f : ~Pending(f),
         NEW k \in Kinds, NEW n, Aggregate(k, n)
  PROVE  Moves /\ Writes /\ OnceInv'
<1>1. UNCHANGED <<runs, logs>> /\ writer'.at \in {"write", "idle"}
  BY DEF Aggregate, Idle
<1>2. \A f : ~Pending(f)'
  BY <1>1 DEF Pending
<1>3. Moves
  BY <1>1, <1>2 DEF Moves, Grows
<1>4. \A f, r : AtLeast(f, r) => AtLeast(f, r)'
  BY <1>3, MovingKeeps DEF CaptureInv
<1>5. CASE Aggregable(k, n)
  <2> DEFINE claim == Restrict(logs, Trials(k, n))
  <2>1. /\ derived' = [derived EXCEPT ![k] = Torn]
        /\ writer' = [at |-> "write", kind |-> k, claim |-> claim]
    BY <1>5 DEF Aggregate
  <2>2. /\ DOMAIN claim = Trials(k, n) /\ \A f \in Trials(k, n) : claim[f] = logs[f]
        /\ claim = [f \in DOMAIN claim |-> claim[f]]
    BY DEF Restrict
  <2>3. \A f \in Trials(k, n) : f \in Files /\ logs[f] \in DOMAIN runs
    BY <1>5 DEF Trials, Aggregable, Parses
  <2> HIDE DEF claim
  <2>4. \A f \in DOMAIN claim : AtLeast(f, claim[f])
    <3>1. ASSUME NEW f \in DOMAIN claim PROVE AtLeast(f, claim[f])
      <4>1. f \in Files /\ claim[f] = logs[f] /\ logs[f] \in DOMAIN runs /\ ~Pending(f)
        BY <2>2, <2>3
      <4>2. logs[f] \in 1..Len(runs)
        BY <4>1 DEF CaptureInv
      <4>3. QED
        BY <4>1, <4>2 DEF AtLeast, Absent
    <3>2. QED
      BY <3>1
  <2>5. /\ \A j \in Kinds : derived'[j] = IF j = k THEN Torn ELSE derived[j]
        /\ writer'.at = "write" /\ writer'.kind = k /\ writer'.claim = claim
    BY <2>1 DEF CaptureInv
  <2>6. Captured(writer.claim)'
    BY <1>4, <2>2, <2>4, <2>5 DEF Captured
  <2>7. \A j \in Kinds : Captured(derived[j])'
    <3>1. ASSUME NEW j \in Kinds PROVE Captured(derived[j])'
      BY <1>4, <2>5 DEF OnceInv, Captured, Torn
    <3>2. QED
      BY <3>1
  <2>8. OnceInv'
    BY <2>5, <2>6, <2>7 DEF OnceInv
  <2>9. Writes
    BY <2>2, <2>3, <2>5 DEF Writes
  <2>10. QED
    BY <1>3, <2>8, <2>9
<1>6. CASE ~Aggregable(k, n)
  <2>1. writer' = Idle /\ derived' = derived
    BY <1>6 DEF Aggregate
  <2>2. OnceInv'
    BY <1>4, <2>1 DEF OnceInv, Captured, Idle
  <2>3. Writes
    BY <2>1 DEF Writes, Idle
  <2>4. QED
    BY <1>3, <2>2, <2>3
<1>7. QED
  BY <1>5, <1>6

LEMMA WritingMoves ==
  ASSUME CaptureInv, WriterInv, RunTypes, OnceInv, WriterStep
  PROVE  Moves /\ Writes /\ OnceInv'
<1>1. runs \in Seq(Nat) /\ DOMAIN runs = 1..Len(runs) /\ Len(runs) \in Nat
  BY DEF CaptureInv
<1>2. ASSUME Moves, derived' = derived, writer'.at \in {"idle", "open", "tee"},
             writer'.at \in {"open", "tee"} =>
               /\ writer'.left \in Seq(Files)
               /\ \A i, j \in DOMAIN writer'.left : writer'.left[i] = writer'.left[j] => i = j
               /\ \A f \in Range(writer'.left) : logs'[f] # Len(runs'),
             writer'.at = "tee" => writer'.left # <<>>
      PROVE  Moves /\ Writes /\ OnceInv'
  <2>1. \A f, r : AtLeast(f, r) => AtLeast(f, r)'
    BY <1>1, <1>2, MovingKeeps
  <2>2. \A k \in Kinds : Captured(derived[k])'
    BY <1>2, <2>1 DEF OnceInv, Captured
  <2>3. OnceInv'
    BY <1>2, <2>2 DEF OnceInv
  <2>4. Writes
    BY <1>2 DEF Writes
  <2>5. QED
    BY <1>2, <2>3, <2>4
<1>3. ASSUME NEW k \in Kinds, NEW n \in 1..MaxTrials, StartScript(k, n)
      PROVE  Moves /\ Writes /\ OnceInv'
  <2>1. /\ runs' = Append(runs, baseline) /\ UNCHANGED <<logs, derived>>
        /\ writer'.at = "open" /\ writer'.left = Script(k, n) /\ (k = "comparison" => n = 1)
    BY <1>3 DEF StartScript
  <2>2. Len(runs') = Len(runs) + 1
    BY <1>1, <2>1 DEF CaptureInv
  <2>3. Moves
    <3>1. Grows
      BY <2>1 DEF Grows, CaptureInv
    <3>2. Len(runs) < Len(runs')
      BY <1>1, <2>2
    <3>3. QED
      BY <2>1, <3>1, <3>2 DEF Moves
  <2>4. \A f \in Files : logs'[f] # Len(runs')
    BY <1>1, <2>1, <2>2 DEF RunTypes, Absent, Broken
  <2> DEFINE s == Script(k, n)
  <2>5. s \in Seq(Files) /\ \A i, j \in DOMAIN s : s[i] = s[j] => i = j
    BY <2>1, ScriptIsOnce
  <2> HIDE DEF s
  <2>6. Range(s) \subseteq Files
    BY <2>5 DEF Range
  <2>7. writer'.left = s
    BY <2>1 DEF s
  <2>8. QED
    BY <1>2, <2>1, <2>3, <2>4, <2>5, <2>6, <2>7
<1>4. ASSUME NEW k \in Kinds, NEW n \in 1..MaxTrials, AggregateByHand(k, n)
      PROVE  Moves /\ Writes /\ OnceInv'
  <2>1. writer.at = "idle" /\ Aggregate(k, n)
    BY <1>4 DEF AggregateByHand
  <2>2. QED
    BY <2>1, AggregatingMoves DEF Pending
<1>5. CASE OpenLog
  <2> DEFINE h == Head(writer.left)
  <2>1. /\ writer.at = "open" /\ writer.left # <<>> /\ UNCHANGED <<runs, derived>>
        /\ logs' = [logs EXCEPT ![h] = Broken] /\ writer' = [writer EXCEPT !.at = "tee"]
    BY <1>5 DEF OpenLog
  <2>2. writer'.at = "tee" /\ writer'.left = writer.left
    BY <2>1 DEF WriterInv
  <2> HIDE DEF h
  <2>3. \A f \in Files : logs'[f] \in {logs[f], Broken}
    BY <2>1 DEF RunTypes
  <2>4. Moves
    BY <2>1, <2>2, <2>3 DEF Moves, Grows, Pending
  <2>5. /\ writer.left \in Seq(Files)
        /\ \A i, j \in DOMAIN writer.left : writer.left[i] = writer.left[j] => i = j
        /\ \A f \in Range(writer.left) : f \in Files /\ logs[f] # Len(runs)
    BY <2>1 DEF OnceInv, Range
  <2>6. \A f \in Range(writer.left) : logs'[f] # Len(runs)
    BY <1>1, <2>3, <2>5 DEF Broken
  <2>7. QED
    BY <1>2, <2>1, <2>2, <2>4, <2>5, <2>6
<1>6. CASE CloseLog
  <2> DEFINE h == Head(writer.left)
             l == Tail(writer.left)
  <2>1. /\ writer.at = "tee" /\ UNCHANGED <<runs, derived>>
        /\ logs' = [logs EXCEPT ![h] = Len(runs)] \/ UNCHANGED logs
        /\ writer' = [[writer EXCEPT !.at = "open"] EXCEPT !.left = l]
    BY <1>6 DEF CloseLog
  <2>2. writer'.at = "open" /\ writer'.left = l
    BY <2>1 DEF WriterInv
  <2>3. /\ writer.left \in Seq(Files) /\ writer.left # <<>>
        /\ \A i, j \in DOMAIN writer.left : writer.left[i] = writer.left[j] => i = j
        /\ \A f \in Range(writer.left) : logs[f] # Len(runs)
    BY <2>1 DEF OnceInv
  <2>4. /\ h \in Files /\ l \in Seq(Files) /\ Range(writer.left) = {h} \cup Range(l)
    BY <2>3, FirstAndRest
  <2>5. /\ \A i, j \in DOMAIN l : l[i] = l[j] => i = j
        /\ h \notin Range(l)
    <3> DEFINE s == writer.left
    <3>1. /\ s \in Seq(Files) /\ Len(s) \in Nat /\ Len(s) # 0 /\ DOMAIN s = 1..Len(s)
          /\ DOMAIN l = 1..(Len(s) - 1) /\ h = s[1] /\ \A i \in DOMAIN l : l[i] = s[i + 1]
      BY <2>3
    <3>2. \A i \in DOMAIN l : i + 1 \in DOMAIN s /\ i + 1 # 1 /\ 1 \in DOMAIN s /\ i \in Nat
      BY <3>1
    <3> HIDE DEF s, l, h
    <3>3. \A i, j \in DOMAIN s : s[i] = s[j] => i = j
      BY <2>3 DEF s
    <3>4. ASSUME NEW i \in DOMAIN l, NEW j \in DOMAIN l, l[i] = l[j] PROVE i = j
      <4>1. i + 1 = j + 1
        BY <3>1, <3>2, <3>3, <3>4
      <4>2. QED
        BY <3>2, <4>1
    <3>5. h \notin Range(l)
      BY <3>1, <3>2, <3>3 DEF Range
    <3>6. QED
      BY <3>4, <3>5
  <2>6. Pending(h) /\ \A f \in Range(l) : Pending(f)
    BY <2>1, <2>4 DEF Pending
  <2> HIDE DEF h, l
  <2>7. \A f \in Files : logs'[f] = logs[f] \/ (f = h /\ logs'[f] = Len(runs))
    BY <2>1 DEF RunTypes
  <2>8. \A f : Pending(f)' => Pending(f)
    BY <2>2, <2>6 DEF Pending
  <2>9. Moves
    BY <2>1, <2>6, <2>7, <2>8 DEF Moves, Grows
  <2>10. \A f \in Range(l) : logs'[f] # Len(runs)
    <3>1. Range(l) \subseteq Files
      BY <2>4 DEF Range
    <3>2. QED
      BY <2>3, <2>4, <2>5, <2>7, <3>1
  <2>11. QED
    BY <1>2, <2>1, <2>2, <2>4, <2>5, <2>9, <2>10
<1>7. CASE EndScript
  <2>1. writer.at = "open" /\ writer.left = <<>>
    BY <1>7 DEF EndScript
  <2>2. \A f : ~Pending(f)
    BY <2>1 DEF Pending, Range
  <2>3. CASE writer.kind = "repeated" /\ writer.trials < MinTrials
    <3>1. UNCHANGED <<runs, logs, derived>> /\ writer'.at = "idle"
      BY <1>7, <2>3 DEF EndScript, Idle
    <3>2. Moves
      BY <3>1 DEF Moves, Grows, Pending
    <3>3. QED
      BY <1>2, <3>1, <3>2
  <2>4. CASE ~(writer.kind = "repeated" /\ writer.trials < MinTrials)
    <3>1. Aggregate(writer.kind, writer.trials) /\ writer.kind \in Kinds
      BY <1>7, <2>1, <2>4 DEF EndScript, WriterInv
    <3>2. QED
      BY <2>1, <2>2, <3>1, AggregatingMoves
  <2>5. QED
    BY <2>3, <2>4
<1>8. CASE FinishWrite
  <2>1. /\ UNCHANGED <<runs, logs>> /\ writer.at = "write" /\ writer'.at = "idle"
        /\ \A k \in Kinds : derived'[k] = IF k = writer.kind THEN writer.claim ELSE derived[k]
    BY <1>8 DEF FinishWrite, Idle, CaptureInv
  <2>2. Moves
    BY <2>1 DEF Moves, Grows, Pending
  <2>3. \A f, r : AtLeast(f, r) => AtLeast(f, r)'
    BY <1>1, <2>2, MovingKeeps
  <2>4. \A k \in Kinds : Captured(derived[k])'
    <3>1. ASSUME NEW k \in Kinds PROVE Captured(derived[k])'
      BY <2>1, <2>3 DEF OnceInv, Captured
    <3>2. QED
      BY <3>1
  <2>5. OnceInv'
    BY <2>1, <2>4 DEF OnceInv
  <2>6. QED
    BY <2>1, <2>2, <2>5 DEF Writes
<1>9. CASE WriterFails
  <2>1. UNCHANGED <<runs, logs, derived>> /\ writer'.at = "idle"
    BY <1>9 DEF WriterFails, Idle
  <2>2. Moves
    BY <2>1 DEF Moves, Grows, Pending
  <2>3. QED
    BY <1>2, <2>1, <2>2
<1>10. QED
  BY <1>3, <1>4, <1>5, <1>6, <1>7, <1>8, <1>9 DEF WriterStep

LEMMA LosingMoves ==
  ASSUME CaptureInv, RunTypes, OnceInv, LoseWrites
  PROVE  Moves /\ Writes /\ OnceInv'
<1>1. /\ runs' = runs /\ writer'.at = "idle"
      /\ \A f \in Files : logs'[f] \in {logs[f], Broken}
      /\ \A k \in Kinds : derived'[k] \in {derived[k], Torn}
  BY DEF LoseWrites, Idle, RunTypes, CaptureInv
<1>2. Moves
  BY <1>1 DEF Moves, Grows, Pending
<1>3. \A f, r : AtLeast(f, r) => AtLeast(f, r)'
  BY <1>2, MovingKeeps DEF CaptureInv
<1>4. \A k \in Kinds : Captured(derived[k])'
  <2>1. ASSUME NEW k \in Kinds PROVE Captured(derived[k])'
    <3>1. CASE derived'[k] = Torn
      BY <3>1 DEF Captured, Torn
    <3>2. CASE derived'[k] = derived[k]
      BY <1>3, <3>2 DEF OnceInv, Captured
    <3>3. QED
      BY <1>1, <3>1, <3>2
  <2>2. QED
    BY <2>1
<1>5. OnceInv'
  BY <1>1, <1>4 DEF OnceInv
<1>6. QED
  BY <1>1, <1>2, <1>5 DEF Writes

(* What no step undoes.                                                    *)
Onward ==
  /\ Grows
  /\ \A f, r : (AtLeast(f, r) => AtLeast(f, r)') /\ (Over(f, r) => Over(f, r)')
  /\ \A k \in Kinds : \A c : Held(k, c) => Held(k, c)'
  /\ {baseline, domains, catalog, candidate} \subseteq Nat
  /\ {baseline', domains', catalog', candidate'} \subseteq Nat
  /\ baseline <= baseline' /\ domains <= domains' /\ catalog <= catalog'
  /\ candidate <= candidate'

LEMMA TimeGoesOn ==
  ASSUME IndInv, BundleTypes, OnceInv, [Next]_vars
  PROVE  Onward /\ OnceInv'
<1>1. runs \in Seq(Nat) /\ baseline \in Nat /\ RunTypes /\ VersionTypes
  BY DEF IndInv, CaptureInv, BundleTypes
<1>2. /\ {domains, catalog, candidate} \subseteq Nat
      /\ domains <= candidate /\ catalog <= candidate
  BY <1>1 DEF VersionTypes
<1>3. /\ {domains', catalog', candidate'} \subseteq Nat
      /\ domains <= domains' /\ catalog <= catalog' /\ candidate <= candidate'
  <2>1. VersionTypes'
    BY <1>1, VersionTypesKeep
  <2>2. {domains', catalog', candidate'} \subseteq Nat
    BY <2>1 DEF VersionTypes
  <2>3. CASE Edit
    <3>1. /\ UNCHANGED <<catalog, domains>>
          /\ candidate' = candidate \/ candidate' = candidate + 1
      BY <2>3 DEF Edit
    <3>2. candidate <= candidate'
      BY <1>1, <3>1 DEF VersionTypes
    <3>3. QED
      BY <1>2, <2>2, <3>1, <3>2
  <2>4. CASE FollowUp
    BY <1>2, <2>2, <2>4 DEF FollowUp
  <2>5. CASE Check
    <3>1. UNCHANGED fileVars
      BY <2>5 DEF Check, Inventory, LoadClaim, CheckFingerprint, ReadLog, CountTrials, CheckAudit,
                  WriteReport, CompareReport, HashClaim, HashLog, HashLab, WriteManifest, Go,
                  Refuse, Unread
    <3>2. QED
      BY <1>2, <3>1 DEF fileVars
  <2>6. CASE \/ \E does \in {"report", "generate", "verify", "serve"} : Begin(does)
             \/ Capture \/ PowerLoss \/ UNCHANGED vars
    <3>1. UNCHANGED fileVars
      BY <2>6 DEF Begin, Unread, captureVars, fileVars, Capture, PowerLoss, vars
    <3>2. QED
      BY <1>2, <3>1 DEF fileVars
  <2>7. QED
    BY <2>3, <2>4, <2>5, <2>6 DEF Next
<1>4. ASSUME UNCHANGED <<runs, logs, derived, writer>> PROVE Moves /\ Writes /\ OnceInv'
  <2>1. Moves /\ Writes
    BY <1>4 DEF Moves, Grows, Pending, Writes
  <2>2. \A f, r : AtLeast(f, r) => AtLeast(f, r)'
    BY <1>1, <2>1, MovingKeeps
  <2>3. OnceInv'
    BY <1>4, <2>2 DEF OnceInv, Captured
  <2>4. QED
    BY <2>1, <2>3
<1>5. Moves /\ Writes /\ OnceInv' /\ baseline' \in Nat /\ baseline <= baseline'
  <2>1. CASE Capture
    <3>1. baseline' = baseline
      BY <2>1 DEF Capture, WriterStep, StartScript, AggregateByHand, Aggregate, OpenLog, CloseLog,
                  EndScript, FinishWrite, WriterFails
    <3>2. QED
      BY <1>1, <2>1, <3>1, WritingMoves DEF Capture, IndInv
  <2>2. CASE PowerLoss
    <3>1. baseline' = baseline
      BY <2>2 DEF PowerLoss, LoseWrites
    <3>2. QED
      BY <1>1, <2>2, <3>1, LosingMoves DEF PowerLoss, IndInv
  <2>3. CASE Edit
    <3>1. UNCHANGED <<runs, logs, derived, writer>> /\ baseline' \in {baseline, baseline + 1}
      BY <2>3 DEF Edit
    <3>2. QED
      BY <1>1, <1>4, <3>1
  <2>4. CASE Check \/ FollowUp
    <3>1. UNCHANGED captureVars
      BY <2>4 DEF Check, Inventory, LoadClaim, CheckFingerprint, ReadLog, CountTrials, CheckAudit,
                  WriteReport, CompareReport, HashClaim, HashLog, HashLab, WriteManifest, Go,
                  Refuse, Unread, FollowUp
    <3>2. QED
      BY <1>1, <1>4, <3>1 DEF captureVars
  <2>5. CASE (\E does \in {"report", "generate", "verify", "serve"} : Begin(does)) \/ UNCHANGED vars
    <3>1. UNCHANGED <<baseline, runs, logs, derived, writer>>
      BY <2>5 DEF Begin, Unread, captureVars, fileVars, vars
    <3>2. QED
      BY <1>1, <1>4, <3>1
  <2>6. QED
    BY <2>1, <2>2, <2>3, <2>4, <2>5 DEF Next
<1>6. Grows
  BY <1>5 DEF Moves
<1>7. \A f, r : (AtLeast(f, r) => AtLeast(f, r)') /\ (Over(f, r) => Over(f, r)')
  BY <1>1, <1>5, MovingKeeps
<1>8. \A k \in Kinds : \A c : Held(k, c) => Held(k, c)'
  BY <1>1, <1>5, HoldingKeeps
<1>9. QED
  BY <1>1, <1>2, <1>3, <1>5, <1>6, <1>7, <1>8 DEF Onward

(* What fits a report goes on to fit it.                                   *)
LEMMA FittingStays ==
  ASSUME runs \in Seq(Nat), Onward
  PROVE  /\ \A rep : Rendered(rep) => Rendered(rep)'
         /\ \A rep, claims : ClaimsFit(rep, claims) => ClaimsFit(rep, claims)'
         /\ \A rep, ls : LogsFit(rep, ls) => LogsFit(rep, ls)'
         /\ \A m : Fits(m) => Fits(m)'
<1>1. \A k, c : Sound(runs, k, c) => Sound(runs', k, c)
  BY SoundStays DEF Onward
<1>2. \A c, d : \A j, k : Sound(runs, j, c) /\ Sound(runs, k, d) =>
        Versions(runs', c, d) = Versions(runs, c, d)
  <2>1. \A c : \A k : Sound(runs, k, c) => Range(c) \subseteq DOMAIN runs
    BY DEF Sound, Range, Torn
  <2>2. \A r \in DOMAIN runs : runs'[r] = runs[r]
    BY GrowingKeepsRuns DEF Onward
  <2>3. QED
    BY <2>1, <2>2 DEF Versions
<1>3. \A rep : Rendered(rep) => Rendered(rep)'
  <2>1. ASSUME NEW rep, Rendered(rep) PROVE Rendered(rep)'
    <3>1. \A k \in Kinds : rep[k] # Torn /\ Sound(runs', k, rep[k]) /\ Held(k, rep[k])'
      BY <1>1, <2>1 DEF Rendered, Onward
    <3>2. Versions(runs', rep["comparison"], rep["repeated"]) =
            Versions(runs, rep["comparison"], rep["repeated"])
      BY <1>2, <2>1 DEF Rendered, Kinds
    <3>3. Recent(rep, baseline)'
      <4>1. 1..baseline \subseteq 1..baseline'
        BY DEF Onward
      <4>2. QED
        BY <2>1, <3>2, <4>1 DEF Rendered, Recent
    <3>4. rep["domains"] \in Nat /\ rep["domains"] <= catalog' /\ rep["domains"] <= candidate'
      BY <2>1 DEF Rendered, Onward
    <3>5. QED
      BY <2>1, <3>1, <3>3, <3>4 DEF Rendered
  <2>2. QED
    BY <2>1
<1>4. \A rep, claims : ClaimsFit(rep, claims) => ClaimsFit(rep, claims)'
  <2>1. ASSUME NEW rep, NEW claims, ClaimsFit(rep, claims) PROVE ClaimsFit(rep, claims)'
    <3>1. ASSUME NEW k, NEW c, ClaimFits(k, rep, c) PROVE ClaimFits(k, rep, c)'
      BY <1>1, <3>1 DEF ClaimFits, Captured, Onward
    <3>2. claims["domains"] <= domains'
      BY <2>1 DEF ClaimsFit, Onward
    <3>3. QED
      BY <2>1, <3>1, <3>2 DEF ClaimsFit
  <2>2. QED
    BY <2>1
<1>5. \A rep, ls : LogsFit(rep, ls) => LogsFit(rep, ls)'
  BY DEF LogsFit, Onward
<1>6. \A m : Fits(m) => Fits(m)'
  <2>1. ASSUME NEW m, Fits(m) PROVE Fits(m)'
    <3>1. LabFits(m.report, m.lab)'
      <4>1. Versions(runs', m.report["comparison"], m.report["repeated"]) =
              Versions(runs, m.report["comparison"], m.report["repeated"])
        BY <1>2, <2>1 DEF Fits, Rendered, Kinds
      <4>2. m.lab.baseline <= baseline' /\ m.lab.catalog <= catalog'
            /\ m.lab.candidate <= candidate'
        BY SMTT(40), <2>1 DEF Fits, LabFits, Onward
      <4>3. QED
        BY <2>1, <4>1, <4>2 DEF Fits, LabFits, Recent
    <3>2. QED
      BY <1>3, <1>4, <1>5, <2>1, <3>1 DEF Fits
  <2>2. QED
    BY <2>1
<1>7. QED
  BY <1>3, <1>4, <1>5, <1>6

LEMMA ConsistencyStays ==
  ASSUME runs \in Seq(Nat), Onward, NEW m, Consistent(m)
  PROVE  Consistent(m)'
<1>1. /\ DOMAIN runs \subseteq DOMAIN runs'
      /\ \A r \in DOMAIN runs : runs'[r] = runs[r]
  BY GrowingKeepsRuns DEF Onward
<1>2. Range(m.logs) \subseteq DOMAIN runs /\ {runs[r] : r \in Range(m.logs)} = {m.lab.baseline}
  BY DEF Consistent
<1>3. Range(m.logs) \subseteq DOMAIN runs' /\ {runs'[r] : r \in Range(m.logs)} = {m.lab.baseline}
  BY <1>1, <1>2
<1>4. QED
  BY <1>3 DEF Consistent

(* While a command rests between two steps.                                *)
LEMMA FollowingStays ==
  ASSUME IndInv, Onward, UNCHANGED <<checker, manifest>>, Fits(manifest), Bundling, Following
  PROVE  Following'
<1>1. runs \in Seq(Nat) /\ checker' = checker /\ manifest' = manifest
  BY DEF IndInv, CaptureInv
<1>2. \A c, d : \A j, k : Sound(runs, k, c) /\ Sound(runs, j, d) =>
        Versions(runs', c, d) = Versions(runs, c, d)
  <2>1. \A c : \A k : Sound(runs, k, c) => Range(c) \subseteq DOMAIN runs
    BY DEF Sound, Range, Torn
  <2>2. \A r \in DOMAIN runs : runs'[r] = runs[r]
    BY <1>1, GrowingKeepsRuns DEF Onward
  <2>3. QED
    BY <2>1, <2>2 DEF Versions
<1>3. HeldInv'
  <2>1. checker.at \in Holding =>
          \A k \in Kinds \cap DOMAIN checker : checker[k] # Torn /\ Held(k, checker[k])'
    BY DEF Following, HeldInv, Onward
  <2>2. checker.at \in {"fingerprint"} \cup Comparing =>
          "domains" \in DOMAIN checker /\ checker.domains \in Nat /\ checker.domains <= domains'
    BY DEF Following, HeldInv, Onward
  <2>3. checker.at \in Comparing => Recent(checker, baseline)'
    <3>1. SUFFICES ASSUME checker.at \in Comparing PROVE Recent(checker, baseline)'
      OBVIOUS
    <3>2. /\ Sound(runs, "comparison", checker["comparison"])
          /\ Sound(runs, "repeated", checker["repeated"])
      BY <3>1 DEF IndInv, CheckerInv, Loaded, Compared, Comparing, Kinds
    <3>3. Versions(runs', checker["comparison"], checker["repeated"]) =
            Versions(runs, checker["comparison"], checker["repeated"])
      BY <1>2, <3>2
    <3>4. 1..baseline \subseteq 1..baseline'
      BY DEF Onward
    <3>5. QED
      BY <1>1, <3>1, <3>3, <3>4 DEF Following, HeldInv, Recent
  <2>4. checker.at = "report" => checker.domains <= catalog' /\ checker.domains <= candidate'
    BY DEF Following, HeldInv, Onward, Comparing
  <2>5. QED
    BY <1>1, <2>1, <2>2, <2>3, <2>4 DEF HeldInv
<1>4. MadeInv'
  <2>1. checker.at \in Hashing =>
          /\ Rendered(checker.made.report)' /\ LogsFit(checker.made.report, checker.made.logs)'
          /\ ClaimsFit(checker.made.report, checker.made.claims)'
    BY <1>1, FittingStays DEF Following, MadeInv
  <2>2. checker.at = "write" => Fits(checker.made)'
    BY <1>1, FittingStays DEF Following, MadeInv
  <2>3. QED
    BY <1>1, <2>1, <2>2 DEF Following, MadeInv
<1>5. checker.does = "verify" => VerifyInv'
  <2>1. SUFFICES ASSUME checker.does = "verify" PROVE VerifyInv'
    OBVIOUS
  <2>2. Versions(runs', manifest.report["comparison"], manifest.report["repeated"]) =
          Versions(runs, manifest.report["comparison"], manifest.report["repeated"])
    BY <1>2 DEF Fits, Rendered, Kinds
  <2>3. Consistent(manifest) => Consistent(manifest)'
    BY <1>1, ConsistencyStays
  <2>4. /\ \A k : ReadsOn(k)' <=> ReadsOn(k)
        /\ \A k, fs : BorneBy(k, fs)' <=> BorneBy(k, fs)
        /\ \A k : Same(k)' <=> Same(k)
        /\ Listed' <=> Listed
    BY <1>1 DEF ReadsOn, BorneBy, Borne, Same, Listed
  <2>5. VerifyInv
    BY <2>1 DEF Following
  <2>6. QED
    BY <1>1, <2>2, <2>3, <2>4, <2>5 DEF VerifyInv
<1>6. QED
  BY <1>1, <1>3, <1>4, <1>5 DEF Following

(* The steps of generate and verify.                                       *)
Underway == IndInv /\ StageInv /\ OnceInv /\ Fits(manifest) /\ Bundling /\ Following

Follows == (Bundling' => Following') /\ checker'.at # "verified"

LEMMA RefusalFollows == Refuse => Follows
<1> SUFFICES ASSUME Refuse PROVE Follows
  OBVIOUS
<1>1. checker'.at \in {"refused", "idle"}
  BY DEF Refuse
<1>2. QED
  BY <1>1 DEF Follows, Bundling, CommandStages

LEMMA StepFollows ==
  ASSUME Underway, UNCHANGED Unread, Keeps, checker'.at \in CommandStages,
         HeldInv', MadeInv', checker.does = "verify" => VerifyInv'
  PROVE  Follows
BY DEF Keeps, Following, Follows, CommandStages

LEMMA InventoryFollows ==
  ASSUME Underway, Onward, Inventory
  PROVE  Follows
<1>1. CASE Refuse
  BY <1>1, RefusalFollows
<1>2. CASE ~Refuse
  <2>1. /\ checker' = [checker EXCEPT !.at = "load"] /\ UNCHANGED Unread /\ checker.at = "inventory"
        /\ \A p \in Profiles : Globbed(p) = 1..BundleTrials
    BY <1>2 DEF Inventory, Go, To
  <2>2. UNCHANGED manifest
    BY <2>1 DEF Unread
  <2>3. Keeps /\ checker'.at = "load" /\ DOMAIN checker' = DOMAIN checker
        /\ \A k \in Kinds \cap DOMAIN checker : checker'[k] = checker[k]
    BY <2>1 DEF Underway, Following, Keeps, Kinds
  <2>4. HeldInv'
    <3>1. \A k \in Kinds \cap DOMAIN checker : checker[k] # Torn /\ Held(k, checker[k])
      BY <2>1 DEF Underway, Following, HeldInv, Holding
    <3>2. QED
      BY <2>3, <3>1 DEF HeldInv, Comparing, Onward
  <2>5. MadeInv'
    BY <2>3 DEF MadeInv, Hashing
  <2>6. checker.does = "verify" => VerifyInv'
    <3>1. SUFFICES ASSUME checker.does = "verify" PROVE VerifyInv'
      OBVIOUS
    <3>2. checker.expected = manifest
      BY <3>1 DEF Underway, Following, VerifyInv
    <3>3. ASSUME NEW c, Sound(runs, "repeated", c), Captured(c), NEW f \in DOMAIN c
          PROVE  f[3] <= BundleTrials
      <4>1. c # Torn
        BY <3>3 DEF Torn
      <4>2. PICK n \in 1..MaxTrials : DOMAIN c = Trials("repeated", n)
        BY <3>3, <4>1 DEF Sound
      <4>3. f = <<"repeated", f[2], f[3]>> /\ f[2] \in Profiles /\ f[3] \in 1..MaxTrials
        BY <3>3, <4>2 DEF Trials, Files
      <4>4. logs[f] # Absent
        BY <3>3 DEF Captured, AtLeast
      <4>5. f[3] \in Globbed(f[2])
        BY <4>3, <4>4 DEF Globbed
      <4>6. QED
        BY <2>1, <4>3, <4>5, BundleAssumption
    <3>4. /\ Sound(runs, "repeated", manifest.report["repeated"])
          /\ Captured(manifest.report["repeated"])
          /\ Sound(runs, "repeated", manifest.claims["repeated"])
          /\ Captured(manifest.claims["repeated"])
      BY DEF Underway, Fits, Rendered, Held, ClaimsFit, ClaimFits, Kinds
    <3>5. Listed
      BY <3>3, <3>4 DEF Listed
    <3>6. QED
      BY <2>2, <2>3, <3>2, <3>5 DEF VerifyInv, Listed, Keeps, Comparing, Hashing, Holding
  <2>7. QED
    BY <2>1, <2>3, <2>4, <2>5, <2>6, StepFollows DEF CommandStages
<1>3. QED
  BY <1>1, <1>2

(* A claim that was just read.                                             *)
LEMMA PresentIsHeld ==
  ASSUME runs \in Seq(Nat), OnceInv, NEW k \in Kinds, derived[k] # Torn
  PROVE  Held(k, derived[k])
<1>1. Captured(derived[k])
  BY DEF OnceInv
<1>2. \A f \in DOMAIN derived[k] : derived[k][f] \in 1..Len(runs)
  BY <1>1 DEF Captured, AtLeast
<1>3. Newer(derived[k], derived[k])
  BY <1>2 DEF Newer
<1>4. QED
  BY <1>1, <1>3 DEF OnceInv, Held

LEMMA LoadClaimFollows ==
  ASSUME Underway, Onward, LoadClaim
  PROVE  Follows
<1> DEFINE k == Head(checker.left)
           held == Put(checker, k, derived[k])
<1>1. checker.at = "load" /\ k \in Kinds
  <2>1. checker.at = "load"
    BY DEF LoadClaim
  <2>2. checker.left = <<"comparison", "repeated">> \/ checker.left = <<"repeated">>
    BY <2>1 DEF Underway, IndInv, CheckerInv
  <2>3. CASE checker.left = <<"comparison", "repeated">>
    BY <2>1, <2>3 DEF Kinds
  <2>4. CASE checker.left = <<"repeated">>
    BY <2>1, <2>4 DEF Kinds
  <2>5. QED
    BY <2>2, <2>3, <2>4
<1>2. CASE derived[k] = Torn
  BY <1>2, RefusalFollows DEF LoadClaim
<1>3. CASE derived[k] # Torn
  <2>1. /\ UNCHANGED Unread
        /\ \/ checker' = [held EXCEPT !.left = Tail(held.left)]
           \/ checker' = Put([held EXCEPT !.at = "fingerprint"], "domains", domains)
    BY <1>3 DEF LoadClaim, Go, Underway, Bundling
  <2>2. /\ DOMAIN held = DOMAIN checker \cup {k} /\ held[k] = derived[k]
        /\ \A y \in DOMAIN checker : y # k => held[y] = checker[y]
    BY DEF Put
  <2>3. {"at", "does", "left", "expected"} \subseteq DOMAIN checker
    BY DEF Underway, Following
  <2>4. Held(k, derived[k])
    BY <1>1, <1>3, PresentIsHeld DEF Underway, IndInv, CaptureInv
  <2>5. \A j \in Kinds \cap DOMAIN held : held[j] # Torn /\ Held(j, held[j])
    <3>1. \A j \in Kinds \cap DOMAIN checker : checker[j] # Torn /\ Held(j, checker[j])
      BY <1>1 DEF Underway, Following, HeldInv, Holding
    <3> HIDE DEF k, held
    <3>2. QED
      BY <1>3, <2>2, <2>4, <3>1
  <2>6. manifest' = manifest /\ domains' = domains
    BY <2>1 DEF Unread, fileVars
  <2>7. domains \in Nat /\ domains <= domains' /\ manifest.claims["domains"] <= domains
    BY <2>6 DEF Underway, Onward, Fits, ClaimsFit
  <2>8. checker.does = "verify" => checker.expected = manifest /\ Listed
    BY <1>1 DEF Underway, Following, VerifyInv, Holding
  <2>9. Listed => Listed'
    BY <2>6 DEF Listed
  <2> HIDE DEF k, held
  <2>10. CASE checker' = [held EXCEPT !.left = Tail(held.left)]
    <3>1. /\ DOMAIN checker' = DOMAIN held
          /\ \A y \in DOMAIN held : y # "left" => checker'[y] = held[y]
      BY <2>10
    <3>2. Keeps /\ checker'.at = "load"
      BY <1>1, <2>2, <2>3, <3>1 DEF Keeps, Kinds
    <3>3. \A j \in Kinds \cap DOMAIN checker' : checker'[j] # Torn /\ Held(j, checker'[j])
      BY <2>5, <3>1 DEF Kinds
    <3>4. HeldInv'
      BY <3>2, <3>3 DEF HeldInv, Comparing, Onward
    <3>5. MadeInv'
      BY <3>2 DEF MadeInv, Hashing
    <3>6. checker.does = "verify" => VerifyInv'
      BY <2>6, <2>8, <2>9, <3>2 DEF VerifyInv, Keeps, Comparing, Hashing
    <3>7. QED
      BY <2>1, <3>2, <3>4, <3>5, <3>6, StepFollows DEF CommandStages
  <2>11. CASE checker' = Put([held EXCEPT !.at = "fingerprint"], "domains", domains)
    <3>1. /\ DOMAIN checker' = DOMAIN held \cup {"domains"} /\ checker'.domains = domains
          /\ "at" \in DOMAIN held => checker'.at = "fingerprint"
          /\ \A y \in DOMAIN held : y \notin {"at", "domains"} => checker'[y] = held[y]
      BY <2>11 DEF Put
    <3>2. Keeps /\ checker'.at = "fingerprint"
      BY <1>1, <2>2, <2>3, <2>11, <3>1 DEF Keeps, Kinds
    <3>3. \A j \in Kinds \cap DOMAIN checker' : checker'[j] # Torn /\ Held(j, checker'[j])
      BY <2>5, <3>1 DEF Kinds
    <3>4. HeldInv'
      BY <2>7, <3>1, <3>2, <3>3 DEF HeldInv, Comparing, Onward
    <3>5. MadeInv'
      BY <3>2 DEF MadeInv, Hashing
    <3>6. checker.does = "verify" => VerifyInv'
      BY <2>6, <2>7, <2>8, <2>9, <3>1, <3>2 DEF VerifyInv, Keeps, Comparing, Hashing
    <3>7. QED
      BY <2>1, <3>2, <3>4, <3>5, <3>6, StepFollows DEF CommandStages
  <2>12. QED
    BY <2>1, <2>10, <2>11
<1>4. QED
  BY <1>2, <1>3

(* From the comparison of the configurations on to that of the reports.    *)
LEMMA ComparingOn ==
  ASSUME Underway, Onward, UNCHANGED Unread, checker.at \in Comparing,
         DOMAIN checker' = DOMAIN checker, checker'.at \in Comparing,
         \A y \in DOMAIN checker : y \notin {"at", "left"} => checker'[y] = checker[y],
         checker'.at = "report" => checker.domains <= catalog /\ checker.domains <= candidate,
         checker.does = "verify" =>
           /\ checker'.at = "comparison" => ReadsOn("comparison")'
           /\ checker'.at \in {"repeated", "audit", "report"} =>
                BorneBy("comparison", DOMAIN checker["comparison"])
           /\ checker'.at = "repeated" => ReadsOn("repeated")'
           /\ checker'.at \in {"audit", "report"} => BorneBy("repeated", DOMAIN checker["repeated"])
           /\ checker'.at = "report" =>
                (checker.domains = manifest.report["domains"] =>
                   {manifest.report["domains"], manifest.claims["domains"], manifest.lab.catalog} =
                     {manifest.lab.candidate})
  PROVE  Follows
<1>1. UNCHANGED <<manifest, runs, baseline, domains, catalog, candidate>>
  BY DEF Unread, captureVars, fileVars
<1>2. /\ Kinds \subseteq DOMAIN checker /\ "domains" \in DOMAIN checker
      /\ {"at", "does", "left", "expected"} \subseteq DOMAIN checker
  BY DEF Underway, IndInv, CheckerInv, Loaded, Compared, Comparing, Following, HeldInv
<1>3. /\ \A k \in Kinds : checker'[k] = checker[k]
      /\ checker'.domains = checker.domains /\ Keeps
  BY <1>2 DEF Kinds, Keeps
<1>4. HeldInv'
  <2>1. /\ \A k \in Kinds : checker[k] # Torn /\ Held(k, checker[k])
        /\ checker.domains \in Nat /\ checker.domains <= domains /\ Recent(checker, baseline)
    BY <1>2 DEF Underway, Following, HeldInv, Holding
  <2>2. Recent(checker, baseline)'
    BY <1>1, <1>3, <2>1 DEF Recent, Kinds
  <2>3. QED
    BY <1>1, <1>2, <1>3, <2>1, <2>2 DEF HeldInv, Onward
<1>5. MadeInv'
  BY DEF MadeInv, Hashing, Comparing
<1>6. checker.does = "verify" => VerifyInv'
  <2>1. SUFFICES ASSUME checker.does = "verify" PROVE VerifyInv'
    OBVIOUS
  <2>2. /\ checker.expected = manifest /\ Listed /\ manifest.claims["domains"] <= checker.domains
        /\ Same("comparison") /\ Same("repeated") =>
             Versions(runs, manifest.report["comparison"], manifest.report["repeated"]) =
               {manifest.lab.baseline}
    BY <2>1 DEF Underway, Following, VerifyInv, Holding, Comparing
  <2>3. /\ \A k \in Kinds : Same(k)' <=> Same(k)
        /\ \A fs : \A k \in Kinds : BorneBy(k, fs)' <=> BorneBy(k, fs)
        /\ Listed' <=> Listed
    BY <1>1, <1>3 DEF BorneBy, Borne, Same, Listed
  <2>4. QED
    BY <1>1, <1>3, <2>1, <2>2, <2>3 DEF VerifyInv, Keeps, Kinds, Comparing, Hashing
<1>7. QED
  BY <1>3, <1>4, <1>5, <1>6, StepFollows DEF CommandStages, Comparing

(* A comparison's logs are those of one trial.                             *)
LEMMA ComparedTrials ==
  ASSUME NEW c, Sound(runs, "comparison", c), c # Torn
  PROVE  DOMAIN c = Trials("comparison", 1)
<1>1. PICK n \in 1..MaxTrials : DOMAIN c = Trials("comparison", n)
  BY DEF Sound
<1>2. Trials("comparison", n) = Trials("comparison", 1)
  BY CaptureAssumption DEF Trials, Files
<1>3. QED
  BY <1>1, <1>2

LEMMA CheckFingerprintFollows ==
  ASSUME Underway, Onward, CheckFingerprint
  PROVE  Follows
<1>1. CASE Refuse
  BY <1>1, RefusalFollows
<1>2. CASE ~Refuse
  <2> DEFINE l == Ordered("comparison", ReadingOrder, 1)
  <2>1. /\ UNCHANGED Unread /\ checker.at = "fingerprint"
        /\ checker' = [[checker EXCEPT !.at = "comparison"] EXCEPT !.left = l]
        /\ Versions(runs, checker["comparison"], checker["repeated"]) = {baseline}
    BY <1>2 DEF CheckFingerprint, Go, To, Versions
  <2>2. /\ UNCHANGED <<manifest, runs, baseline, domains>>
        /\ baseline \in 1..baseline
    <3>1. UNCHANGED <<manifest, runs, baseline, domains>>
      BY <2>1 DEF Unread, captureVars, fileVars
    <3>2. PICK v \in 1..baseline :
            Versions(runs, manifest.report["comparison"], manifest.report["repeated"]) = {v}
      BY DEF Underway, Fits, Rendered, Recent
    <3>3. QED
      BY <3>1, <3>2 DEF Onward
  <2>3. Kinds \subseteq DOMAIN checker /\ {"at", "does", "left", "expected"} \subseteq DOMAIN checker
    BY <2>1 DEF Underway, IndInv, CheckerInv, Loaded, Following
  <2>4. Range(l) = Trials("comparison", 1) /\ l \in Seq({f \in Files : f[1] = "comparison"})
    <3>1. 1 \in 1..MaxTrials
      BY CaptureAssumption
    <3>2. Range(l) = Trials("comparison", 1)
      BY <3>1, OrderedIsTrials DEF Kinds
    <3>3. l \in Seq(Range(l))
      BY OrderedIs
    <3>4. Trials("comparison", 1) \subseteq {f \in Files : f[1] = "comparison"}
      BY DEF Trials
    <3> HIDE DEF l
    <3>5. QED
      BY <3>2, <3>3, <3>4
  <2> HIDE DEF l
  <2>5. /\ Keeps /\ checker'.at = "comparison" /\ checker'.left = l
        /\ DOMAIN checker' = DOMAIN checker /\ \A j \in Kinds : checker'[j] = checker[j]
        /\ "domains" \in DOMAIN checker => checker'.domains = checker.domains
    BY <2>1, <2>3 DEF Keeps, Kinds
  <2>6. /\ \A k \in Kinds : checker[k] # Torn /\ Held(k, checker[k])
        /\ "domains" \in DOMAIN checker /\ checker.domains \in Nat /\ checker.domains <= domains
    BY <2>1, <2>3 DEF Underway, Following, HeldInv, Holding
  <2>7. Recent(checker, baseline)'
    BY <2>1, <2>2, <2>5 DEF Recent, Kinds
  <2>8. HeldInv'
    BY <2>2, <2>5, <2>6, <2>7 DEF HeldInv, Onward
  <2>9. MadeInv'
    BY <2>5 DEF MadeInv, Hashing
  <2>10. checker.does = "verify" => VerifyInv'
    <3>1. SUFFICES ASSUME checker.does = "verify" PROVE VerifyInv'
      OBVIOUS
    <3>2. checker.expected = manifest /\ Listed /\ manifest.claims["domains"] <= checker.domains
      BY <2>1, <3>1 DEF Underway, Following, VerifyInv, Holding
    <3>3. Same("comparison") /\ Same("repeated") =>
            Versions(runs, manifest.report["comparison"], manifest.report["repeated"]) =
              {manifest.lab.baseline}
      <4>1. SUFFICES ASSUME Same("comparison"), Same("repeated")
                     PROVE  baseline = manifest.lab.baseline
        BY <2>1 DEF Same
      <4>2. manifest.lab.baseline \in Nat /\ manifest.lab.baseline <= baseline
        BY DEF Underway, Fits, LabFits
      <4>3. PICK v \in 1..manifest.lab.baseline :
              Versions(runs, manifest.report["comparison"], manifest.report["repeated"]) = {v}
        BY DEF Underway, Fits, LabFits, Recent
      <4>4. v = baseline
        BY <2>1, <4>1, <4>3 DEF Same
      <4>5. QED
        BY <2>2, <4>2, <4>4
    <3>4. ReadsOn("comparison")'
      <4>1. DOMAIN checker["comparison"] = Trials("comparison", 1)
        BY <2>3, <2>6, ComparedTrials DEF Underway, IndInv, CheckerInv, Kinds
      <4>2. DOMAIN checker'["comparison"] \ Range(checker'.left) = {}
        BY <2>4, <2>5, <4>1 DEF Kinds
      <4>3. checker'.left \in Seq({f \in Files : f[1] = "comparison"})
        BY <2>4, <2>5
      <4>4. QED
        BY <4>2, <4>3 DEF ReadsOn, BorneBy
    <3>5. (Listed' <=> Listed) /\ \A k \in Kinds : Same(k)' <=> Same(k)
      BY <2>2, <2>5 DEF Listed, Same
    <3>6. QED
      BY <2>2, <2>5, <2>6, <3>2, <3>3, <3>4, <3>5 DEF VerifyInv, Keeps, Kinds, Comparing, Hashing
  <2>11. QED
    BY <2>1, <2>5, <2>8, <2>9, <2>10, StepFollows DEF CommandStages
<1>3. QED
  BY <1>1, <1>2

LEMMA ReadLogFollows ==
  ASSUME Underway, Onward, ReadLog
  PROVE  Follows
<1> DEFINE k == checker.at
           f == Head(checker.left)
           l == Tail(checker.left)
<1>1. CASE Refuse
  BY <1>1, RefusalFollows
<1>2. CASE ~Refuse
  <2>1. /\ UNCHANGED Unread /\ k \in {"comparison", "repeated"} /\ checker.left # <<>> /\ MatchesLog(f)
        /\ \/ /\ k = "repeated" /\ Len(checker.left) = 1
              /\ checker' = [checker EXCEPT !.at = "audit"]
           \/ checker' = [checker EXCEPT !.left = l]
    BY <1>2 DEF ReadLog, Go, To
  <2>2. Kinds \subseteq DOMAIN checker /\ {"at", "does", "left", "expected"} \subseteq DOMAIN checker
    BY <2>1 DEF Underway, IndInv, CheckerInv, Loaded, Compared, Following
  <2>3. checker.does = "verify" =>
          /\ ReadsOn(k)
          /\ k = "repeated" => BorneBy("comparison", DOMAIN checker["comparison"])
    BY <2>1 DEF Underway, Following, VerifyInv
  <2>4. checker.does = "verify" =>
          /\ f[1] = k /\ l \in Seq({g \in Files : g[1] = k})
          /\ Range(checker.left) = {f} \cup Range(l)
          /\ Len(checker.left) = 1 => Range(checker.left) = {f}
    <3> DEFINE S == {g \in Files : g[1] = k}
               s == checker.left
    <3> SUFFICES ASSUME checker.does = "verify"
                 PROVE  /\ f[1] = k /\ l \in Seq(S) /\ Range(s) = {f} \cup Range(l)
                        /\ Len(s) = 1 => Range(s) = {f}
      OBVIOUS
    <3>1. s \in Seq(S) /\ s # <<>>
      BY <2>1, <2>3 DEF ReadsOn
    <3>2. /\ Head(s) \in S /\ Tail(s) \in Seq(S) /\ Range(s) = {Head(s)} \cup Range(Tail(s))
          /\ Len(s) = 1 => Range(s) = {Head(s)}
      <4> HIDE DEF S, s
      <4>1. QED
        BY <3>1, FirstAndRest
    <3>3. QED
      BY <3>2
  <2>5. checker.does = "verify" /\ Same(k) => Borne(f)
    <3>1. SUFFICES ASSUME checker.does = "verify", Same(k), f \in DOMAIN manifest.report[k]
                   PROVE  /\ f \in DOMAIN manifest.logs => manifest.logs[f] = manifest.report[k][f]
                          /\ f \in DOMAIN manifest.claims[k] =>
                               manifest.claims[k][f] = manifest.report[k][f]
      BY <2>4 DEF Borne
    <3>2. logs[f] = manifest.report[k][f]
      BY <2>1, <2>4, <3>1 DEF MatchesLog, Same
    <3>3. ~Over(f, manifest.report[k][f])
      BY <3>2 DEF Over
    <3>4. k \in Kinds
      BY <2>1 DEF Kinds
    <3> HIDE DEF k, f
    <3>5. QED
      BY <3>1, <3>3, <3>4 DEF Underway, Fits, LogsFit, ClaimsFit, ClaimFits
  <2>6. checker.does = "verify" => BorneBy(k, DOMAIN checker[k] \ Range(l))
    BY <2>3, <2>4, <2>5 DEF ReadsOn, BorneBy
  <2>7. CASE /\ k = "repeated" /\ Len(checker.left) = 1
             /\ checker' = [checker EXCEPT !.at = "audit"]
    <3>1. checker.does = "verify" => BorneBy("repeated", DOMAIN checker["repeated"])
      BY <2>3, <2>4, <2>5, <2>7 DEF ReadsOn, BorneBy
    <3>2. /\ checker'.at = "audit" /\ DOMAIN checker' = DOMAIN checker
          /\ \A y \in DOMAIN checker : y # "at" => checker'[y] = checker[y]
      BY <2>2, <2>7
    <3>3. QED
      BY <2>1, <2>3, <2>7, <3>1, <3>2, ComparingOn DEF Comparing
  <2>8. CASE checker' = [checker EXCEPT !.left = l]
    <3>1. /\ checker'.at = k /\ DOMAIN checker' = DOMAIN checker /\ checker'.left = l
          /\ \A y \in DOMAIN checker : y # "left" => checker'[y] = checker[y]
      BY <2>2, <2>8
    <3>2. checker.does = "verify" => ReadsOn(k)'
      <4>1. k \in Kinds /\ k' = k
        BY <2>1, <3>1 DEF Kinds
      <4>2. manifest' = manifest
        BY <2>1 DEF Unread
      <4>3. checker'[k] = checker[k]
        BY <2>2, <3>1, <4>1 DEF Kinds
      <4> HIDE DEF k, l
      <4>4. QED
        BY <2>4, <2>6, <3>1, <4>1, <4>2, <4>3 DEF ReadsOn, BorneBy, Same, Borne
    <3>3. k' = k
      BY <3>1
    <3>4. checker.does = "verify" =>
            /\ checker'.at = "comparison" => ReadsOn("comparison")'
            /\ checker'.at = "repeated" => ReadsOn("repeated")'
      BY <3>1, <3>2, <3>3
    <3>5. QED
      BY <2>1, <2>3, <3>1, <3>4, ComparingOn DEF Comparing
  <2>9. QED
    BY <2>1, <2>7, <2>8
<1>3. QED
  BY <1>1, <1>2

LEMMA CountTrialsFollows ==
  ASSUME Underway, Onward, CountTrials
  PROVE  Follows
<1>1. CASE Refuse
  BY <1>1, RefusalFollows
<1>2. CASE ~Refuse
  <2> DEFINE n == Cardinality(DOMAIN checker.repeated) \div 2
             l == Ordered("repeated", ReadingOrder, n)
  <2>1. /\ UNCHANGED Unread /\ checker.at = "comparison" /\ checker.left = <<>>
        /\ checker' = [[checker EXCEPT !.at = "repeated"] EXCEPT !.left = l]
    BY <1>2 DEF CountTrials, Go, To
  <2>2. Kinds \subseteq DOMAIN checker /\ {"at", "does", "left", "expected"} \subseteq DOMAIN checker
    BY <2>1 DEF Underway, IndInv, CheckerInv, Loaded, Compared, Following
  <2>3. Sound(runs, "repeated", checker["repeated"]) /\ checker["repeated"] # Torn
    BY <2>1, <2>2 DEF Underway, IndInv, CheckerInv, Following, HeldInv, Holding, Comparing, Kinds
  <2>4. PICK m \in 1..MaxTrials : DOMAIN checker["repeated"] = Trials("repeated", m)
    BY <2>3 DEF Sound
  <2>5. n = m /\ m \in Nat
    <3>1. Cardinality(DOMAIN checker.repeated) = 2 * m
      BY <2>4, TrialsAreTwice
    <3>2. QED
      BY <3>1
  <2>6. l \in Seq({f \in Files : f[1] = "repeated"}) /\ Range(l) = DOMAIN checker["repeated"]
    <3>1. Range(l) = Trials("repeated", m)
      BY <2>5, OrderedIsTrials DEF Kinds
    <3>2. l \in Seq(Range(l))
      BY <2>5, OrderedIs
    <3>3. Trials("repeated", m) \subseteq {f \in Files : f[1] = "repeated"}
      BY DEF Trials
    <3> HIDE DEF l
    <3>4. QED
      BY <2>4, <3>1, <3>2, <3>3
  <2> HIDE DEF l, n
  <2>7. /\ checker'.at = "repeated" /\ DOMAIN checker' = DOMAIN checker /\ checker'.left = l
        /\ \A y \in DOMAIN checker : y \notin {"at", "left"} => checker'[y] = checker[y]
    BY <2>1, <2>2
  <2>8. checker.does = "verify" => BorneBy("comparison", DOMAIN checker["comparison"])
    <3>1. Range(<<>>) = {}
      BY DEF Range
    <3>2. checker.does = "verify" => ReadsOn("comparison")
      BY <2>1 DEF Underway, Following, VerifyInv
    <3>3. QED
      BY <2>1, <3>1, <3>2 DEF ReadsOn, BorneBy
  <2>9. ReadsOn("repeated")'
    <3>1. DOMAIN checker'["repeated"] \ Range(checker'.left) = {}
      BY <2>2, <2>6, <2>7 DEF Kinds
    <3>2. QED
      BY <2>6, <2>7, <3>1 DEF ReadsOn, BorneBy
  <2>10. QED
    BY <2>1, <2>7, <2>8, <2>9, ComparingOn DEF Comparing
<1>3. QED
  BY <1>1, <1>2

LEMMA CheckAuditFollows ==
  ASSUME Underway, Onward, CheckAudit
  PROVE  Follows
<1>1. CASE Refuse
  BY <1>1, RefusalFollows
<1>2. CASE ~Refuse
  <2>1. /\ UNCHANGED Unread /\ checker.at = "audit"
        /\ checker' = [checker EXCEPT !.at = "report"]
        /\ catalog = candidate /\ checker.domains = catalog
    BY <1>2 DEF CheckAudit, Go, To, Underway, Bundling
  <2>2. {"at", "does", "left", "expected"} \subseteq DOMAIN checker
    BY DEF Underway, Following
  <2>3. /\ checker'.at = "report" /\ DOMAIN checker' = DOMAIN checker
        /\ \A y \in DOMAIN checker : y \notin {"at", "left"} => checker'[y] = checker[y]
    BY <2>1, <2>2
  <2>4. {catalog, candidate} \subseteq Nat
    BY DEF Onward
  <2>5. checker.does = "verify" =>
          /\ BorneBy("comparison", DOMAIN checker["comparison"])
          /\ BorneBy("repeated", DOMAIN checker["repeated"])
          /\ manifest.claims["domains"] <= checker.domains
    BY <2>1 DEF Underway, Following, VerifyInv, Comparing
  <2>6. ASSUME checker.does = "verify", checker.domains = manifest.report["domains"]
        PROVE  {manifest.report["domains"], manifest.claims["domains"], manifest.lab.catalog} =
                 {manifest.lab.candidate}
    <3>1. /\ manifest.claims["domains"] \in Nat /\ manifest.lab.catalog \in Nat
          /\ manifest.lab.candidate \in Nat
          /\ checker.domains <= manifest.claims["domains"]
          /\ checker.domains <= manifest.lab.catalog /\ manifest.lab.catalog <= catalog
          /\ checker.domains <= manifest.lab.candidate
          /\ manifest.lab.candidate <= candidate
      BY <2>6 DEF Underway, Fits, ClaimsFit, LabFits
    <3>2. /\ manifest.claims["domains"] = catalog /\ manifest.lab.catalog = catalog
          /\ manifest.lab.candidate = catalog /\ manifest.report["domains"] = catalog
      BY <2>1, <2>4, <2>5, <2>6, <3>1
    <3>3. QED
      BY <3>2
  <2>7. checker.domains <= catalog /\ checker.domains <= candidate
    BY <2>1, <2>4
  <2>8. QED
    BY <2>1, <2>3, <2>5, <2>6, <2>7, ComparingOn DEF Comparing
<1>3. QED
  BY <1>1, <1>2

LEMMA RepeatedTrials ==
  ASSUME NEW c, Sound(runs, "repeated", c), c # Torn, BundleTrials = MinTrials,
         \A f \in DOMAIN c : f[3] <= BundleTrials
  PROVE  DOMAIN c = Trials("repeated", BundleTrials)
<1>1. PICK n \in 1..MaxTrials : DOMAIN c = Trials("repeated", n) /\ n >= MinTrials
  BY DEF Sound
<1>2. <<"repeated", "ospf_only", n>> \in DOMAIN c
  <2>1. <<"repeated", "ospf_only", n>> \in Files /\ n <= n
    BY DEF Files, Kinds, Profiles
  <2>2. QED
    BY <1>1, <2>1 DEF Trials
<1>3. n <= BundleTrials
  BY <1>2
<1>4. n = BundleTrials
  BY <1>1, <1>3, CaptureAssumption
<1>5. QED
  BY <1>1, <1>4

(* The logs that were read when a report was found to be the manifest's    *)
(* are those of the manifest, and so is what was computed from them.       *)
LEMMA ReportIsConsistent ==
  ASSUME Underway, checker.at = "report", checker.does = "verify", BundleTrials = MinTrials,
         Same("comparison"), Same("repeated"), checker.domains = manifest.report["domains"]
  PROVE  Consistent(manifest)
<1> DEFINE m == manifest
           rep == manifest.report
<1>1. /\ \A k \in Kinds : /\ rep[k] # Torn /\ Sound(runs, k, rep[k]) /\ Captured(rep[k])
                          /\ Sound(runs, k, m.claims[k]) /\ Captured(m.claims[k])
      /\ DOMAIN m.logs = HashedLogs
  BY DEF Underway, Fits, Rendered, Held, ClaimsFit, ClaimFits
<1>2. /\ VerifyInv /\ Listed
      /\ BorneBy("comparison", DOMAIN checker["comparison"])
      /\ BorneBy("repeated", DOMAIN checker["repeated"])
  BY DEF Underway, Following, VerifyInv, Holding, Comparing
<1>3. \A k \in Kinds : \A f \in DOMAIN rep[k] : Borne(f)
  BY <1>2 DEF BorneBy, Same, Kinds
<1>4. /\ DOMAIN rep["comparison"] = Trials("comparison", 1)
      /\ DOMAIN rep["repeated"] = Trials("repeated", BundleTrials)
  BY <1>1, <1>2, ComparedTrials, RepeatedTrials DEF Kinds, Listed
<1>5. ASSUME NEW k \in Kinds, m.claims[k] # Torn PROVE m.claims[k] = rep[k]
  <2>1. DOMAIN m.claims[k] = DOMAIN rep[k]
    <3>1. CASE k = "comparison"
      BY <1>1, <1>4, <1>5, <3>1, ComparedTrials
    <3>2. CASE k = "repeated"
      BY <1>1, <1>2, <1>4, <1>5, <3>2, RepeatedTrials DEF Listed
    <3>3. QED
      BY <3>1, <3>2 DEF Kinds
  <2>2. \A f \in DOMAIN rep[k] : f[1] = k
    BY <1>4 DEF Trials, Kinds
  <2>3. \A f \in DOMAIN rep[k] : m.claims[k][f] = rep[k][f]
    BY <1>3, <2>1, <2>2 DEF Borne
  <2>4. /\ m.claims[k] = [f \in DOMAIN m.claims[k] |-> m.claims[k][f]]
        /\ rep[k] = [f \in DOMAIN rep[k] |-> rep[k][f]]
    BY <1>1 DEF Captured
  <2> HIDE DEF m, rep
  <2>5. QED
    BY <2>1, <2>3, <2>4
<1>6. ASSUME NEW k \in Kinds
      PROVE  /\ DOMAIN rep[k] = {f \in DOMAIN m.logs : f[1] = k}
             /\ \A f \in DOMAIN rep[k] : f[1] = k /\ m.logs[f] = rep[k][f]
  <2>1. DOMAIN m.logs = Trials("comparison", 1) \cup Trials("repeated", BundleTrials)
    BY <1>1, HashedAreTrials
  <2>2. DOMAIN rep[k] = {f \in DOMAIN m.logs : f[1] = k}
    <3>1. /\ \A f \in Trials("comparison", 1) : f[1] = "comparison"
          /\ \A f \in Trials("repeated", BundleTrials) : f[1] = "repeated"
      BY DEF Trials
    <3> HIDE DEF m, rep
    <3>2. CASE k = "comparison"
      BY <1>4, <2>1, <3>1, <3>2
    <3>3. CASE k = "repeated"
      BY <1>4, <2>1, <3>1, <3>3
    <3>4. QED
      BY <3>2, <3>3 DEF Kinds
  <2>3. \A f \in DOMAIN rep[k] : m.logs[f] = rep[k][f]
    BY <1>3, <2>2 DEF Borne
  <2>4. QED
    BY <2>2, <2>3
<1>7. ASSUME NEW k \in Kinds PROVE rep[k] = Restrict(m.logs, {f \in DOMAIN m.logs : f[1] = k})
  <2>1. rep[k] = [f \in DOMAIN rep[k] |-> rep[k][f]]
    BY <1>1 DEF Captured
  <2> HIDE DEF m, rep
  <2>2. QED
    BY <1>6, <2>1 DEF Restrict
<1>8. Range(m.logs) = Range(rep["comparison"]) \cup Range(rep["repeated"])
  <2>1. DOMAIN m.logs = DOMAIN rep["comparison"] \cup DOMAIN rep["repeated"]
    BY <1>1, <1>4, HashedAreTrials
  <2>2. /\ \A f \in DOMAIN rep["comparison"] : m.logs[f] = rep["comparison"][f]
        /\ \A f \in DOMAIN rep["repeated"] : m.logs[f] = rep["repeated"][f]
    BY <1>6 DEF Kinds
  <2> HIDE DEF m, rep
  <2>3. QED
    BY <2>1, <2>2 DEF Range
<1>9. Range(m.logs) \subseteq DOMAIN runs
  BY <1>1, <1>8 DEF Sound, Kinds
<1>10. {runs[r] : r \in Range(m.logs)} = {m.lab.baseline}
  BY <1>2, <1>8 DEF VerifyInv, Comparing, Versions
<1>11. {rep["domains"], m.claims["domains"], m.lab.catalog} = {m.lab.candidate}
  BY <1>2 DEF VerifyInv
<1>12. DOMAIN m.logs = Trials("comparison", 1) \cup Trials("repeated", BundleTrials)
  BY <1>1, HashedAreTrials
<1>13. QED
  BY <1>5, <1>7, <1>9, <1>10, <1>11, <1>12 DEF Consistent

LEMMA CompareReportFollows ==
  ASSUME Underway, Onward, CompareReport, BundleTrials = MinTrials
  PROVE  Follows
<1>1. CASE Refuse
  BY <1>1, RefusalFollows
<1>2. CASE ~Refuse
  <2> DEFINE claims == [x \in {"domains"} |-> domains]
  <2>1. /\ UNCHANGED Unread /\ checker.at = "report" /\ report = RenderedFrom
        /\ checker' = [does |-> checker.does, at |-> "hash claims",
                       left |-> <<"comparison", "repeated">>, expected |-> checker.expected,
                       made |-> Digests(claims, <<>>)]
    <3>1. [domains |-> domains] = claims
      OBVIOUS
    <3>2. QED
      BY <1>2, <3>1 DEF CompareReport, Go, Digests, ReportIsCurrent, Underway, Bundling
  <2>2. /\ UNCHANGED <<manifest, domains, report>>
        /\ domains \in Nat
    BY <2>1 DEF Unread, fileVars, Onward
  <2>3. /\ DOMAIN report = Kinds \cup {"domains"}
        /\ \A k \in Kinds : report[k] = checker[k]
        /\ report["domains"] = checker.domains
    BY <2>1 DEF RenderedFrom, Restrict
  <2>4. /\ \A k \in Kinds : checker[k] # Torn /\ Held(k, checker[k]) /\ Sound(runs, k, checker[k])
        /\ Recent(checker, baseline)
        /\ checker.domains \in Nat /\ checker.domains <= domains
        /\ checker.domains <= catalog /\ checker.domains <= candidate
    <3>1. Kinds \subseteq DOMAIN checker
      BY <2>1 DEF Underway, IndInv, CheckerInv, Loaded, Compared
    <3>2. QED
      BY <2>1, <3>1 DEF Underway, Following, HeldInv, Holding, Comparing, IndInv, CheckerInv
  <2>5. Rendered(report)
    <3>1. Recent(report, baseline)
      BY <2>3, <2>4 DEF Recent, Kinds
    <3>2. QED
      BY <2>3, <2>4, <3>1 DEF Rendered
  <2>6. ClaimsFit(report, claims) /\ LogsFit(report, <<>>)
    <3>1. Kinds \cap DOMAIN claims = {}
      BY DEF Kinds
    <3>2. ClaimsFit(report, claims)
      BY <2>2, <2>3, <2>4, <3>1 DEF ClaimsFit
    <3>3. LogsFit(report, <<>>)
      BY DEF LogsFit
    <3>4. QED
      BY <3>2, <3>3
  <2>7. /\ \A rep : Rendered(rep) => Rendered(rep)'
        /\ \A rep, c : ClaimsFit(rep, c) => ClaimsFit(rep, c)'
        /\ \A rep, ls : LogsFit(rep, ls) => LogsFit(rep, ls)'
    BY FittingStays DEF Underway, IndInv, CaptureInv
  <2>8. DOMAIN claims = {"domains"}
    OBVIOUS
  <2> HIDE DEF claims
  <2> DEFINE made == Digests(claims, <<>>)
  <2>9. /\ DOMAIN made = {"report", "claims", "logs"}
        /\ made.report = report /\ made.claims = claims /\ made.logs = <<>> /\ DOMAIN made.logs = {}
    BY DEF Digests
  <2> HIDE DEF made
  <2>10. /\ Keeps /\ checker'.at = "hash claims" /\ "made" \in DOMAIN checker'
         /\ checker'.left = <<"comparison", "repeated">> /\ checker'.made = made
    BY <2>1 DEF Keeps, made
  <2>11. HeldInv'
    BY <2>10 DEF HeldInv, Holding, Comparing
  <2>12. MadeInv'
    <3>1. /\ checker'.made.report = report /\ checker'.made.claims = claims
          /\ checker'.made.logs = <<>>
      BY <2>9, <2>10
    <3>2. /\ Rendered(checker.made.report)'
          /\ ClaimsFit(checker.made.report, checker.made.claims)'
          /\ LogsFit(checker.made.report, checker.made.logs)'
      BY <2>5, <2>6, <2>7, <3>1
    <3>3. QED
      BY <2>8, <2>9, <2>10, <3>1, <3>2 DEF MadeInv, Hashing, Artifacts
  <2>13. checker.does = "verify" => VerifyInv'
    <3>1. SUFFICES ASSUME checker.does = "verify" PROVE VerifyInv'
      OBVIOUS
    <3>2. checker.expected = manifest
      BY <3>1 DEF Underway, Following, VerifyInv
    <3>3. ASSUME report = manifest.report PROVE Consistent(manifest)'
      <4>1. Consistent(manifest)
        BY <2>1, <2>3, <3>1, <3>3, ReportIsConsistent DEF Same, Kinds
      <4>2. QED
        BY <2>2, <4>1, ConsistencyStays DEF Underway, IndInv, CaptureInv
    <3>4. QED
      BY <2>2, <2>9, <2>10, <3>2, <3>3 DEF VerifyInv, Keeps, Holding, Comparing
  <2>14. QED
    BY <2>1, <2>10, <2>11, <2>12, <2>13, StepFollows DEF CommandStages
<1>3. QED
  BY <1>1, <1>2

(* While the digests are computed, the report they go with is the same.    *)
LEMMA HashingFollows ==
  ASSUME Underway, Onward, checker.at \in Hashing, UNCHANGED Unread,
         Keeps, checker'.at \in Hashing, "made" \in DOMAIN checker',
         {"report", "claims", "logs"} \subseteq DOMAIN checker'.made,
         checker'.made.report = checker.made.report,
         ClaimsFit(checker.made.report, checker'.made.claims),
         LogsFit(checker.made.report, checker'.made.logs),
         checker'.at = "hash claims" =>
           /\ checker'.left = <<"repeated">> /\ DOMAIN checker'.made.logs = {}
           /\ DOMAIN checker'.made.claims = {"domains", "comparison"},
         checker'.at # "hash claims" => DOMAIN checker'.made.claims = Kinds \cup {"domains"},
         checker'.at = "hash logs" =>
           /\ checker'.left \in Seq(HashedLogs) /\ checker'.left # <<>>
           /\ DOMAIN checker'.made.logs \cup Range(checker'.left) = HashedLogs,
         checker'.at \in {"hash lab", "write"} => DOMAIN checker'.made.logs = HashedLogs,
         checker'.at = "write" => Fits(checker'.made)
  PROVE  Follows
<1>1. runs \in Seq(Nat) /\ manifest' = manifest
  BY DEF Underway, IndInv, CaptureInv, Unread
<1>2. Rendered(checker.made.report)
  BY DEF Underway, Following, MadeInv
<1>3. HeldInv'
  BY DEF HeldInv, Holding, Comparing, Hashing
<1>4. MadeInv'
  <2>1. /\ Rendered(checker.made.report)'
        /\ ClaimsFit(checker.made.report, checker.made.claims)'
        /\ LogsFit(checker.made.report, checker.made.logs)'
    BY <1>1, <1>2, FittingStays
  <2>2. checker'.at = "write" => Fits(checker.made)'
    BY <1>1, FittingStays
  <2>3. QED
    BY <2>1, <2>2 DEF MadeInv, Hashing, Artifacts
<1>5. checker.does = "verify" => VerifyInv'
  <2>1. SUFFICES ASSUME checker.does = "verify" PROVE VerifyInv'
    OBVIOUS
  <2>2. /\ checker.expected = manifest
        /\ checker.made.report = manifest.report => Consistent(manifest)
    BY <2>1 DEF Underway, Following, VerifyInv
  <2>3. Consistent(manifest) => Consistent(manifest)'
    BY <1>1, ConsistencyStays
  <2>4. QED
    BY <1>1, <2>2, <2>3 DEF VerifyInv, Keeps, Holding, Comparing, Hashing
<1>6. QED
  BY <1>3, <1>4, <1>5, StepFollows DEF CommandStages, Hashing

(* A file that is read after the report is of the same logs, or of later   *)
(* ones.                                                                   *)
LEMMA DerivedFits ==
  ASSUME IndInv, OnceInv, NEW k \in Kinds, NEW rep, Rendered(rep)
  PROVE  ClaimFits(k, rep, derived[k])
<1>1. /\ Sound(runs, k, derived[k]) /\ Captured(derived[k]) /\ Held(k, rep[k])
      /\ DOMAIN runs = 1..Len(runs) /\ Len(runs) \in Nat
  BY DEF IndInv, CaptureInv, OnceInv, Rendered
<1>2. ASSUME NEW f \in DOMAIN rep[k] \cap DOMAIN derived[k], derived[k][f] # rep[k][f]
      PROVE  Over(f, rep[k][f])
  <2>1. /\ AtLeast(f, rep[k][f]) /\ AtLeast(f, derived[k][f]) /\ rep[k][f] <= derived[k][f]
    BY <1>1 DEF Held, Captured, Newer
  <2>2. /\ rep[k][f] \in 1..Len(runs) /\ derived[k][f] \in 1..Len(runs)
        /\ logs[f] \in 1..Len(runs) => derived[k][f] <= logs[f]
    BY <1>1, <2>1 DEF AtLeast
  <2>3. logs[f] # rep[k][f]
    BY <1>2, <2>1, <2>2
  <2>4. QED
    BY <2>1, <2>3 DEF Over
<1>3. QED
  BY <1>1, <1>2 DEF ClaimFits

LEMMA HashClaimFollows ==
  ASSUME Underway, Onward, HashClaim
  PROVE  Follows
<1> DEFINE k == Head(checker.left)
           claims == Put(checker.made.claims, k, derived[k])
           held == [checker EXCEPT !.made.claims = claims]
           l == Ordered("comparison", HashingOrder, 1) \o
                  Ordered("repeated", HashingOrder, BundleTrials)
<1>1. /\ checker.at = "hash claims" /\ DOMAIN checker.made = {"report", "claims", "logs"}
      /\ {"at", "does", "left", "expected", "made"} \subseteq DOMAIN checker
  BY DEF HashClaim, StageInv, Underway, Following
<1>2. /\ \/ checker.left = <<"comparison", "repeated">> /\ DOMAIN checker.made.claims = {"domains"}
         \/ /\ checker.left = <<"repeated">>
            /\ DOMAIN checker.made.claims = {"domains", "comparison"}
      /\ Rendered(checker.made.report) /\ ClaimsFit(checker.made.report, checker.made.claims)
      /\ LogsFit(checker.made.report, checker.made.logs) /\ DOMAIN checker.made.logs = {}
  BY <1>1 DEF Underway, Following, MadeInv, Hashing
<1>3. /\ UNCHANGED Unread
      /\ k = "comparison" => checker' = [held EXCEPT !.left = Tail(held.left)]
      /\ k # "comparison" => checker' = [[held EXCEPT !.at = "hash logs"] EXCEPT !.left = l]
  BY DEF HashClaim, Go
<1>4. /\ DOMAIN held = DOMAIN checker /\ DOMAIN held.made = {"report", "claims", "logs"}
      /\ held.made.report = checker.made.report /\ held.made.logs = checker.made.logs
      /\ held.made.claims = claims
      /\ \A y \in DOMAIN checker : y # "made" => held[y] = checker[y]
  <2>1. held = [checker EXCEPT !.made = [checker.made EXCEPT !.claims = claims]]
    OBVIOUS
  <2> DEFINE made == [checker.made EXCEPT !.claims = claims]
  <2>2. /\ DOMAIN made = {"report", "claims", "logs"} /\ made.report = checker.made.report
        /\ made.logs = checker.made.logs /\ made.claims = claims
    <3> HIDE DEF claims
    <3>1. QED
      BY <1>1
  <2> HIDE DEF made, claims, k
  <2>3. held.made = made /\ DOMAIN held = DOMAIN checker
        /\ \A y \in DOMAIN checker : y # "made" => held[y] = checker[y]
    BY <1>1, <2>1 DEF made
  <2>4. QED
    BY <2>2, <2>3
<1>5. /\ DOMAIN claims = DOMAIN checker.made.claims \cup {k} /\ claims[k] = derived[k]
      /\ \A y \in DOMAIN checker.made.claims : y # k => claims[y] = checker.made.claims[y]
  BY DEF Put
<1>6. k \in Kinds /\ (checker.left = <<"comparison", "repeated">> => k = "comparison")
      /\ (checker.left = <<"repeated">> => k = "repeated")
  <2>1. CASE checker.left = <<"comparison", "repeated">>
    BY <2>1 DEF Kinds
  <2>2. CASE checker.left = <<"repeated">>
    BY <2>2 DEF Kinds
  <2>3. QED
    BY <1>2, <2>1, <2>2
<1>7. ClaimsFit(checker.made.report, claims)
  <2>1. ClaimFits(k, checker.made.report, derived[k])
    BY <1>2, <1>6, DerivedFits DEF Underway
  <2>2. "domains" # k
    BY <1>6 DEF Kinds
  <2> HIDE DEF k, claims
  <2>3. "domains" \in DOMAIN claims /\ claims["domains"] = checker.made.claims["domains"]
    BY <1>2, <1>5, <2>2
  <2>4. \A j \in Kinds \cap DOMAIN claims : ClaimFits(j, checker.made.report, claims[j])
    BY <1>2, <1>5, <2>1 DEF ClaimsFit
  <2>5. QED
    BY <1>2, <2>3, <2>4 DEF ClaimsFit
<1>8. CASE checker.left = <<"comparison", "repeated">>
  <2>1. k = "comparison" /\ Tail(checker.left) = <<"repeated">>
    BY <1>8
  <2>2. DOMAIN claims = {"domains", "comparison"}
    BY <1>2, <1>5, <1>8, <2>1
  <2> HIDE DEF k, held, claims
  <2>3. /\ checker'.at = "hash claims" /\ checker'.left = <<"repeated">>
        /\ checker'.made = held.made /\ "made" \in DOMAIN checker' /\ Keeps
    BY <1>1, <1>3, <1>4, <2>1 DEF Keeps
  <2>4. QED
    BY <1>1, <1>2, <1>3, <1>4, <1>7, <2>2, <2>3, HashingFollows DEF Hashing
<1>9. CASE checker.left = <<"repeated">>
  <2>1. k = "repeated"
    BY <1>9
  <2>2. DOMAIN claims = Kinds \cup {"domains"}
    BY <1>2, <1>5, <1>9, <2>1 DEF Kinds
  <2> HIDE DEF k, held, claims, l
  <2>3. /\ checker'.at = "hash logs" /\ checker'.left = l
        /\ checker'.made = held.made /\ "made" \in DOMAIN checker' /\ Keeps
    BY ZenonT(40), <1>1, <1>3, <1>4, <2>1 DEF Keeps
  <2>4. l \in Seq(HashedLogs) /\ l # <<>> /\ Range(l) = HashedLogs
    BY HashedAreTrials DEF l, HashedLogs
  <2>5. DOMAIN checker'.made.logs \cup Range(checker'.left) = HashedLogs
    BY <1>2, <1>4, <2>3, <2>4
  <2>6. /\ {"report", "claims", "logs"} \subseteq DOMAIN checker'.made
        /\ checker'.made.report = checker.made.report
        /\ checker'.made.claims = claims /\ checker'.made.logs = checker.made.logs
    BY <1>4, <2>3
  <2>7. QED
    BY <1>1, <1>2, <1>3, <1>7, <2>2, <2>3, <2>4, <2>5, <2>6, HashingFollows DEF Hashing
<1>10. QED
  BY <1>2, <1>8, <1>9

LEMMA HashLogFollows ==
  ASSUME Underway, Onward, HashLog
  PROVE  Follows
<1> DEFINE f == Head(checker.left)
           ls == Put(checker.made.logs, f, logs[f])
           held == [checker EXCEPT !.made.logs = ls]
<1>1. /\ checker.at = "hash logs" /\ DOMAIN checker.made = {"report", "claims", "logs"}
      /\ {"at", "does", "left", "expected", "made"} \subseteq DOMAIN checker
  BY DEF HashLog, StageInv, Underway, Following
<1>2. /\ checker.left \in Seq(HashedLogs) /\ checker.left # <<>>
      /\ DOMAIN checker.made.logs \cup Range(checker.left) = HashedLogs
      /\ DOMAIN checker.made.claims = Kinds \cup {"domains"}
      /\ Rendered(checker.made.report) /\ ClaimsFit(checker.made.report, checker.made.claims)
      /\ LogsFit(checker.made.report, checker.made.logs)
  BY <1>1 DEF Underway, Following, MadeInv, Hashing
<1>3. /\ f \in HashedLogs /\ Tail(checker.left) \in Seq(HashedLogs)
      /\ Range(checker.left) = {f} \cup Range(Tail(checker.left))
      /\ Len(checker.left) = 1 => Range(checker.left) = {f}
      /\ Len(checker.left) > 1 => Tail(checker.left) # <<>>
  BY <1>2, FirstAndRest
<1>4. CASE Refuse
  BY <1>4, RefusalFollows
<1>5. CASE ~Refuse
  <2>1. /\ UNCHANGED Unread
        /\ \/ Len(checker.left) = 1 /\ checker' = [held EXCEPT !.at = "hash lab"]
           \/ Len(checker.left) > 1 /\ checker' = [held EXCEPT !.left = Tail(held.left)]
    BY <1>5 DEF HashLog, Go
  <2>2. /\ DOMAIN ls = DOMAIN checker.made.logs \cup {f} /\ ls[f] = logs[f]
        /\ \A g \in DOMAIN checker.made.logs : g # f => ls[g] = checker.made.logs[g]
    <3> HIDE DEF f
    <3>1. QED
      BY DEF Put
  <2>3. LogsFit(checker.made.report, ls)
    <3> DEFINE rep == checker.made.report
    <3>1. ASSUME NEW j \in Kinds, NEW g \in DOMAIN rep[j] \cap DOMAIN ls
          PROVE  ls[g] = rep[j][g] \/ Over(g, rep[j][g])
      <4>1. AtLeast(g, rep[j][g])
        BY <1>2, <3>1 DEF Rendered, Held, Captured
      <4> HIDE DEF ls, f
      <4>2. CASE g = f
        BY <2>2, <4>1, <4>2 DEF Over
      <4>3. CASE g # f
        BY <1>2, <2>2, <3>1, <4>3 DEF LogsFit
      <4>4. QED
        BY <4>2, <4>3
    <3> HIDE DEF ls
    <3>2. QED
      BY <3>1 DEF LogsFit
  <2>4. /\ DOMAIN held = DOMAIN checker /\ DOMAIN held.made = {"report", "claims", "logs"}
        /\ held.made.report = checker.made.report /\ held.made.claims = checker.made.claims
        /\ held.made.logs = ls
        /\ \A y \in DOMAIN checker : y # "made" => held[y] = checker[y]
    <3>1. held = [checker EXCEPT !.made = [checker.made EXCEPT !.logs = ls]]
      OBVIOUS
    <3> DEFINE made == [checker.made EXCEPT !.logs = ls]
    <3>2. /\ DOMAIN made = {"report", "claims", "logs"} /\ made.report = checker.made.report
          /\ made.claims = checker.made.claims /\ made.logs = ls
      <4> HIDE DEF ls
      <4>1. QED
        BY <1>1
    <3> HIDE DEF made, ls
    <3>3. held.made = made /\ DOMAIN held = DOMAIN checker
          /\ \A y \in DOMAIN checker : y # "made" => held[y] = checker[y]
      BY <1>1, <3>1 DEF made
    <3>4. QED
      BY <3>2, <3>3
  <2> HIDE DEF held, ls, f
  <2>5. CASE Len(checker.left) = 1 /\ checker' = [held EXCEPT !.at = "hash lab"]
    <3>1. DOMAIN ls = HashedLogs
      BY <1>2, <1>3, <2>2, <2>5
    <3>2. checker'.at = "hash lab" /\ checker'.made = held.made /\ "made" \in DOMAIN checker' /\ Keeps
      BY <1>1, <2>4, <2>5 DEF Keeps
    <3>3. QED
      BY <1>1, <1>2, <2>1, <2>3, <2>4, <3>1, <3>2, HashingFollows DEF Hashing
  <2>6. CASE Len(checker.left) > 1 /\ checker' = [held EXCEPT !.left = Tail(held.left)]
    <3>1. /\ checker'.at = "hash logs" /\ checker'.made = held.made /\ "made" \in DOMAIN checker'
          /\ checker'.left = Tail(checker.left) /\ Keeps
      BY <1>1, <2>4, <2>6 DEF Keeps
    <3>2. DOMAIN ls \cup Range(checker'.left) = HashedLogs
      BY <1>2, <1>3, <2>2, <3>1
    <3>3. /\ {"report", "claims", "logs"} \subseteq DOMAIN checker'.made
          /\ checker'.made.report = checker.made.report
          /\ checker'.made.claims = checker.made.claims /\ checker'.made.logs = ls
      BY <2>4, <3>1
    <3>4. checker'.left \in Seq(HashedLogs) /\ checker'.left # <<>>
      BY <1>3, <2>6, <3>1
    <3>5. QED
      BY <1>1, <1>2, <2>1, <2>3, <3>1, <3>2, <3>3, <3>4, HashingFollows DEF Hashing
  <2>7. QED
    BY <2>1, <2>5, <2>6
<1>6. QED
  BY <1>4, <1>5

LEMMA HashLabFollows ==
  ASSUME Underway, Onward, HashLab
  PROVE  Follows \/ (checker'.at = "verified" /\ Consistent(manifest) /\ UNCHANGED Unread)
<1> DEFINE made == Put(checker.made, "lab", Lab)
<1>1. /\ checker.at = "hash lab" /\ DOMAIN checker.made = {"report", "claims", "logs"}
      /\ {"at", "does", "left", "expected", "made"} \subseteq DOMAIN checker
  BY DEF HashLab, StageInv, Underway, Following
<1>2. /\ DOMAIN checker.made.logs = HashedLogs
      /\ DOMAIN checker.made.claims = Kinds \cup {"domains"}
      /\ Rendered(checker.made.report) /\ ClaimsFit(checker.made.report, checker.made.claims)
      /\ LogsFit(checker.made.report, checker.made.logs)
  BY <1>1 DEF Underway, Following, MadeInv, Hashing
<1>3. /\ {"report", "claims", "logs"} \subseteq DOMAIN made /\ made.report = checker.made.report
      /\ made.claims = checker.made.claims /\ made.logs = checker.made.logs /\ made.lab = Lab
  BY <1>1 DEF Put
<1> HIDE DEF made
<1>4. CASE Refuse
  BY <1>4, RefusalFollows
<1>5. CASE checker.does = "generate"
  <2>1. UNCHANGED Unread /\ checker' = [[checker EXCEPT !.at = "write"] EXCEPT !.made = made]
    BY <1>5 DEF HashLab, Go, To, made
  <2>2. checker'.at = "write" /\ checker'.made = made /\ "made" \in DOMAIN checker' /\ Keeps
    BY <1>1, <2>1 DEF Keeps
  <2>3. LabFits(made.report, made.lab)
    <3> DEFINE rep == made.report
    <3>1. /\ Recent(rep, baseline) /\ rep["domains"] \in Nat
          /\ rep["domains"] <= catalog /\ rep["domains"] <= candidate
      BY <1>2, <1>3 DEF Rendered
    <3>2. {baseline, catalog, candidate} \subseteq Nat
      BY DEF Onward
    <3>3. /\ Lab.baseline = baseline /\ Lab.catalog = catalog
          /\ Lab.candidate = candidate
      BY DEF Lab
    <3> HIDE DEF rep
    <3>4. LabFits(rep, Lab)
      BY <3>1, <3>2, <3>3 DEF LabFits
    <3>5. QED
      BY <1>3, <3>4 DEF rep
  <2>4. Fits(made)
    BY <1>2, <1>3, <2>3 DEF Fits
  <2>5. QED
    BY <1>1, <1>2, <1>3, <2>1, <2>2, <2>4, HashingFollows DEF Hashing
<1>6. CASE checker.does = "verify" /\ ~Refuse
  <2>1. /\ UNCHANGED Unread /\ checker' = [at |-> "verified"] /\ made = checker.expected
    BY <1>6 DEF HashLab, Go, made
  <2>2. /\ checker.expected = manifest
        /\ checker.made.report = manifest.report => Consistent(manifest)
    BY <1>1, <1>6 DEF Underway, Following, VerifyInv, Hashing
  <2>3. checker'.at = "verified" /\ checker.made.report = manifest.report
    BY <1>3, <2>1, <2>2
  <2>4. QED
    BY <2>1, <2>2, <2>3
<1>7. QED
  BY <1>4, <1>5, <1>6 DEF Underway, Bundling

LEMMA CheckingFollows ==
  ASSUME IndInv, StageInv, HistoryInv, Onward, Check, Bundling, BundleTrials = MinTrials
  PROVE  \/ Follows /\ Fits(manifest)'
         \/ checker'.at = "verified" /\ Consistent(manifest)' /\ Fits(manifest)'
<1>1. Underway
  BY DEF HistoryInv, Underway
<1>2. runs \in Seq(Nat)
  BY DEF IndInv, CaptureInv
<1>3. CASE WriteManifest
  <2>1. checker.at = "write" /\ manifest' = checker.made /\ checker'.at = "idle"
    BY <1>3 DEF WriteManifest, Idle
  <2>2. Fits(checker.made)
    BY <1>1, <2>1 DEF Underway, Following, MadeInv
  <2>3. Fits(manifest)'
    BY <1>2, <2>1, <2>2, FittingStays
  <2>4. QED
    BY <2>1, <2>3 DEF Follows, Bundling, CommandStages
<1>4. CASE ~WriteManifest
  <2>1. ~WriteReport
    BY DEF WriteReport, Bundling
  <2>2. manifest' = manifest
    BY <1>4, <2>1 DEF Check, Inventory, LoadClaim, CheckFingerprint, ReadLog, CountTrials, CheckAudit,
                      CompareReport, HashClaim, HashLog, HashLab, Go, Refuse, Unread
  <2>3. Fits(manifest)'
    BY <1>2, <2>2, FittingStays DEF HistoryInv
  <2>4. Follows \/ (checker'.at = "verified" /\ Consistent(manifest))
    BY <1>1, <1>4, <2>1, InventoryFollows, LoadClaimFollows, CheckFingerprintFollows, ReadLogFollows,
       CountTrialsFollows, CheckAuditFollows, CompareReportFollows, HashClaimFollows,
       HashLogFollows, HashLabFollows DEF Check
  <2>5. Consistent(manifest) => Consistent(manifest)'
    BY <1>2, <2>2, ConsistencyStays
  <2>6. QED
    BY <2>3, <2>4, <2>5
<1>5. QED
  BY <1>3, <1>4

LEMMA BeginningFollows ==
  ASSUME NEW does \in {"report", "generate", "verify", "serve"}, Begin(does)
  PROVE  Follows
<1>1. /\ checker' = [does |-> does,
                     at |-> IF does \in {"generate", "verify"} THEN "inventory" ELSE "load",
                     left |-> <<"comparison", "repeated">>,
                     expected |-> IF does = "verify" THEN manifest ELSE Nothing]
      /\ manifest' = manifest
  BY DEF Begin, Unread, captureVars, fileVars
<1>2. /\ DOMAIN checker' = {"does", "at", "left", "expected"} /\ checker'.does = does
      /\ checker'.at \in {"inventory", "load"}
      /\ does = "verify" => checker'.expected = manifest
      /\ does \in {"generate", "verify"} => checker'.at = "inventory"
  BY <1>1
<1>3. CASE does \in {"generate", "verify"}
  <2>1. HeldInv' /\ MadeInv'
    BY <1>2, <1>3 DEF HeldInv, MadeInv, Kinds, Comparing, Hashing
  <2>2. does = "verify" => VerifyInv'
    BY <1>1, <1>2, <1>3 DEF VerifyInv, Holding, Comparing, Hashing
  <2>3. QED
    BY <1>2, <2>1, <2>2 DEF Follows, Following
<1>4. CASE does \notin {"generate", "verify"}
  BY <1>2, <1>4 DEF Follows, Bundling
<1>5. QED
  BY <1>3, <1>4

LEMMA HistoryKeeps ==
  ASSUME IndInv, StageInv, BundleTypes, HistoryInv, [Next]_vars, BundleTrials = MinTrials
  PROVE  HistoryInv'
<1>1. Onward /\ OnceInv' /\ runs \in Seq(Nat)
  BY TimeGoesOn DEF HistoryInv, IndInv, CaptureInv
<1>2. ASSUME manifest' = manifest PROVE Fits(manifest)'
  BY <1>1, <1>2, FittingStays DEF HistoryInv
<1>3. ASSUME Follows, Fits(manifest)' PROVE HistoryInv'
  BY <1>1, <1>3 DEF Follows, HistoryInv, VerifiedManifestIsConsistent
<1>4. CASE Check /\ Bundling
  <2>1. ASSUME checker'.at = "verified", Consistent(manifest)', Fits(manifest)' PROVE HistoryInv'
    <3>1. ~Bundling'
      BY <2>1 DEF Bundling, CommandStages
    <3>2. QED
      BY <1>1, <2>1, <3>1 DEF HistoryInv, VerifiedManifestIsConsistent
  <2>2. QED
    BY <1>1, <1>3, <1>4, <2>1, CheckingFollows
<1>5. CASE Check /\ ~Bundling
  <2>1. checker.at \in CommandStages
    BY <1>5 DEF Check, Inventory, LoadClaim, CheckFingerprint, ReadLog, CountTrials, CheckAudit,
                WriteReport, CompareReport, HashClaim, HashLog, HashLab, WriteManifest, CommandStages
  <2>2. checker.at \notin Resting /\ checker.does \notin {"generate", "verify"}
    BY <1>5, <2>1 DEF Bundling, CommandStages, Resting
  <2>3. /\ checker'.at \notin {"refused", "verified"}
        /\ checker'.at \in Resting \/ checker'.does \notin {"generate", "verify"}
    BY <1>5, <2>2, OtherCommands
  <2>4. Follows
    BY <2>3 DEF Follows, Bundling, CommandStages, Resting
  <2>5. ~WriteManifest
    BY <2>2 DEF WriteManifest
  <2>6. manifest' = manifest
    BY <1>5, <2>5 DEF Check, Inventory, LoadClaim, CheckFingerprint, ReadLog, CountTrials, CheckAudit,
                      WriteReport, CompareReport, HashClaim, HashLog, HashLab, Go, Refuse, Unread
  <2>7. QED
    BY <1>2, <1>3, <2>4, <2>6
<1>6. ASSUME NEW does \in {"report", "generate", "verify", "serve"}, Begin(does) PROVE HistoryInv'
  <2>1. manifest' = manifest
    BY <1>6 DEF Begin, Unread, captureVars, fileVars
  <2>2. QED
    BY <1>2, <1>3, <1>6, <2>1, BeginningFollows
<1>7. CASE PowerLoss
  <2>1. manifest' = manifest /\ checker'.at = "idle"
    BY <1>7 DEF PowerLoss, Idle
  <2>2. Follows
    BY <2>1 DEF Follows, Bundling, CommandStages
  <2>3. QED
    BY <1>2, <1>3, <2>1, <2>2
<1>8. CASE Capture \/ Edit \/ FollowUp \/ UNCHANGED vars
  <2>1. UNCHANGED <<checker, manifest>>
    BY <1>8 DEF Capture, Edit, FollowUp, vars
  <2>2. Bundling' => Following'
    BY <1>1, <2>1, FollowingStays DEF HistoryInv, Bundling
  <2>3. VerifiedManifestIsConsistent'
    BY <1>1, <2>1, ConsistencyStays DEF HistoryInv, VerifiedManifestIsConsistent
  <2>4. QED
    BY <1>1, <1>2, <2>1, <2>2, <2>3 DEF HistoryInv
<1>9. QED
  BY <1>4, <1>5, <1>6, <1>7, <1>8 DEF Next

LEMMA HistoryInit == Init => HistoryInv
<1> SUFFICES ASSUME Init PROVE HistoryInv
  OBVIOUS
<1>1. IndInv /\ Sealed /\ VersionTypes
  BY InitHolds, SealedInit, TypesInit DEF BundleTypes
<1>2. runs = <<1>> /\ baseline = 1 /\ writer = Idle /\ checker = Idle /\ catalog = 1 /\ domains = 1
      /\ candidate = 1
  BY DEF Init, CaptureInit
<1>3. ASSUME NEW k \in Kinds PROVE Captured(derived[k])
  <2> DEFINE T == Trials(k, IF k = "comparison" THEN 1 ELSE BundleTrials)
  <2>1. derived[k] = [f \in T |-> 1]
    BY DEF Init, CaptureInit
  <2>2. \A f \in T : f \in Files /\ logs[f] = 1
    <3>1. T \subseteq Trials("comparison", 1) \cup Trials("repeated", BundleTrials)
      BY DEF Kinds
    <3>2. T \subseteq Files
      BY DEF Trials
    <3> HIDE DEF T
    <3>3. QED
      BY <3>1, <3>2 DEF Init, CaptureInit
  <2>3. DOMAIN runs = {1} /\ \A f : ~Pending(f)
    BY <1>2 DEF Pending, Idle
  <2> HIDE DEF T
  <2>4. DOMAIN derived[k] = T /\ \A f \in T : derived[k][f] = 1
    BY <2>1
  <2>5. \A f \in T : AtLeast(f, 1)
    BY <2>2, <2>3 DEF AtLeast, Absent
  <2>6. QED
    BY <2>1, <2>4, <2>5 DEF Captured
<1>4. OnceInv
  BY <1>2, <1>3 DEF OnceInv, Idle
<1>5. /\ report = Claims /\ manifest = Manifest /\ Parseable
      /\ Versions(runs, derived["comparison"], derived["repeated"]) = {baseline}
      /\ DOMAIN derived = Kinds /\ \A k \in Kinds : Sound(runs, k, derived[k])
      /\ runs \in Seq(Nat)
  BY <1>1 DEF Sealed, OfThisLab, IndInv, CaptureInv
<1>6. /\ DOMAIN Claims = Kinds \cup {"domains"} /\ Claims["domains"] = domains
      /\ \A k \in Kinds : Claims[k] = derived[k]
  BY <1>5 DEF Claims, Put, Kinds
<1>7. Rendered(Claims)
  <2>1. \A k \in Kinds : derived[k] # Torn /\ Held(k, derived[k])
    BY <1>4, <1>5, PresentIsHeld DEF Parseable
  <2>2. Recent(Claims, baseline)
    BY <1>2, <1>5, <1>6 DEF Recent, Kinds
  <2>3. QED
    BY <1>2, <1>5, <1>6, <2>1, <2>2 DEF Rendered
<1>8. ClaimsFit(Claims, Claims)
  <2>1. \A k \in Kinds : ClaimFits(k, Claims, derived[k])
    BY <1>1, <1>4, <1>7, DerivedFits
  <2>2. QED
    BY <1>2, <1>6, <2>1 DEF ClaimsFit
<1>9. LogsFit(Claims, Restrict(logs, HashedLogs)) /\ DOMAIN Restrict(logs, HashedLogs) = HashedLogs
  <2>1. /\ DOMAIN Restrict(logs, HashedLogs) = HashedLogs
        /\ \A f \in HashedLogs : Restrict(logs, HashedLogs)[f] = logs[f]
    BY DEF Restrict
  <2>2. \A k \in Kinds : \A f \in DOMAIN Claims[k] : AtLeast(f, Claims[k][f])
    BY <1>3, <1>6 DEF Captured
  <2>3. QED
    BY <2>1, <2>2 DEF LogsFit, Over
<1>10. LabFits(Claims, Lab)
  <2>1. /\ Lab.baseline = baseline /\ Lab.catalog = catalog
        /\ Lab.candidate = candidate
    BY DEF Lab
  <2>2. Recent(Claims, baseline) /\ Claims["domains"] = 1
    BY <1>2, <1>6, <1>7 DEF Rendered
  <2>3. QED
    BY <1>2, <2>1, <2>2 DEF LabFits
<1>11. Fits(manifest)
  <2> DEFINE ls == Restrict(logs, HashedLogs)
  <2> HIDE DEF ls
  <2>1. /\ manifest.report = Claims /\ manifest.claims = Claims /\ manifest.lab = Lab
        /\ manifest.logs = ls
    BY <1>5 DEF Manifest, ls
  <2>2. QED
    BY <1>6, <1>7, <1>8, <1>9, <1>10, <2>1 DEF Fits, ls
<1>12. QED
  BY <1>2, <1>4, <1>11 DEF HistoryInv, Bundling, CommandStages, VerifiedManifestIsConsistent, Idle

(* docs/ARCHITECTURE.md: the manifest "binds every report input and output *)
(* after semantic recalculation".  What verify recalculates and what it    *)
(* digests it reads at different times, file after file, while captures    *)
(* and edits go on; and still the manifest it reports as verified is of a  *)
(* bundle that agrees with itself, because a file that was overwritten     *)
(* never again holds what it held.  The manifest lists as many trials as   *)
(* repeated evidence needs at least: evidence_manifest.py and              *)
(* repeated_trials.py both say 20.                                         *)
THEOREM VerifiedManifestsAreConsistent ==
  ASSUME BundleTrials = MinTrials
  PROVE  Spec => []VerifiedManifestIsConsistent
<1>1. ASSUME IndInv, StageInv, BundleTypes, HistoryInv, [Next]_vars PROVE HistoryInv'
  BY <1>1, HistoryKeeps
<1>2. HistoryInv => VerifiedManifestIsConsistent
  BY DEF HistoryInv
<1>3. QED
  BY <1>1, <1>2, HistoryInit, Invariance, StageInvariance, TypesInvariance, PTL DEF Spec
===============================================================================
