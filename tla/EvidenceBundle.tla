---------------------------- MODULE EvidenceBundle ----------------------------
(***************************************************************************)
(* The evidence bundle: telconet-report renders the report from evidence   *)
(* that it recomputes from the raw logs, telconet-evidence generates the   *)
(* manifest of all artifacts or verifies it, and the API loads the derived *)
(* evidence when it starts.  They read one file after the other (the lab's *)
(* files together), while captures go on in another terminal, files are    *)
(* edited and the host may lose power.  A digest is modelled by what it is *)
(* the digest of; the artifacts that are hashed and nothing else, such as  *)
(* the published matrix, are left out.                                     *)
(***************************************************************************)
EXTENDS EvidenceCapture

CONSTANTS
  BundleTrials     \* the trials per profile that the manifest lists, 20

ASSUME BundleAssumption ==
  /\ BundleTrials \in Nat
  /\ MinTrials <= BundleTrials /\ BundleTrials <= MaxTrials

VARIABLES
  candidate,     \* the version of the candidate's intent
  catalog,       \* the intent that lab/failure-domains.yml was written for
  domains,       \* the intent whose audit failure-domain-audit.json is
  report,        \* what EXPERIMENT_REPORT.md was rendered from
  manifest,      \* the artifacts manifest.json lists
  checker,       \* the command or start-up being run, and what it has read
  undisturbed    \* no artifact was written since the last successful generate began

fileVars == <<candidate, catalog, domains>>
captureVars == <<baseline, runs, logs, derived, writer, events>>
vars == <<captureVars, fileVars, report, manifest, checker, undisturbed>>

Nothing == <<>>

(* f with one more value, or another one.                                  *)
Put(f, x, value) == [y \in DOMAIN f \cup {x} |-> IF y = x THEN value ELSE f[y]]

(* What the three derived files say.                                       *)
Claims == Put(derived, "domains", domains)

(* The versions of the lab's configuration files.                          *)
Lab == [baseline |-> baseline, candidate |-> candidate, catalog |-> catalog]

(* The logs of n trials, one profile after the other.                      *)
Ordered(k, profiles, n) ==
  [i \in 1..(2 * n) |-> <<k, profiles[(i + n - 1) \div n], ((i - 1) % n) + 1>>]

ReadingOrder == <<"ospf_only", "bfd_100x3">>
HashingOrder == <<"bfd_100x3", "ospf_only">>

(* The trial-*.log files of a profile.                                     *)
Globbed(p) == {t \in 1..MaxTrials : logs[<<"repeated", p, t>>] # Absent}

Resting == {"idle", "refused", "verified", "serving"}

BundleTypeOK ==
  /\ CaptureTypeOK
  /\ candidate \in Nat /\ {catalog, domains} \subseteq 1..candidate
  /\ report # Nothing => DOMAIN report = Kinds \cup {"domains"}
  /\ DOMAIN manifest = {"report", "claims", "logs", "lab"}
  /\ checker.at \in Resting \cup
       {"inventory", "load", "fingerprint", "comparison", "repeated", "audit", "report",
        "hash claims", "hash logs", "hash lab", "write"}
  /\ undisturbed \in BOOLEAN

(* The repository as it is checked out: a bundle that verifies.            *)
Init ==
  /\ CaptureInit(BundleTrials)
  /\ candidate = 1 /\ catalog = 1 /\ domains = 1
  /\ report = Claims
  /\ manifest = [report |-> report, claims |-> Claims, lab |-> Lab,
                 logs |-> Restrict(logs, {f \in Files : logs[f] # Absent})]
  /\ checker = Idle /\ undisturbed = TRUE
-----------------------------------------------------------------------------
(* Steps of a command.                                                     *)

Unread == <<captureVars, fileVars, report, manifest>>

Go(next) == checker' = next /\ UNCHANGED <<Unread, undisturbed>>

To(label) == [checker EXCEPT !.at = label]

(* An exception ends the command; a generate has not replaced the manifest.*)
Refuse ==
  /\ checker' = [at |-> IF checker.does = "verify" THEN "refused" ELSE "idle"]
  /\ undisturbed' = (undisturbed /\ checker.does # "generate")
  /\ UNCHANGED Unread

(* verify reads the manifest before anything else.                         *)
Begin(does) ==
  /\ checker.at \in Resting
  /\ checker' = [does |-> does,
                 at |-> IF does \in {"generate", "verify"} THEN "inventory" ELSE "load",
                 left |-> <<"comparison", "repeated">>,
                 expected |-> IF does = "verify" THEN manifest ELSE Nothing]
  /\ undisturbed' = (undisturbed \/ does = "generate")
  /\ UNCHANGED Unread

Inventory ==
  /\ checker.at = "inventory"
  /\ IF \A p \in Profiles : Globbed(p) = 1..BundleTrials THEN Go(To("load")) ELSE Refuse

(* A JSON file that is cut off does not parse.  main.py loads these two    *)
(* files and not the audit, and serves what it has read.                   *)
LoadClaim ==
  /\ checker.at = "load"
  /\ LET k    == Head(checker.left)
         held == Put(checker, k, derived[k])
     IN  IF derived[k] = Torn THEN Refuse
         ELSE \/ k = "comparison" /\ Go([held EXCEPT !.left = Tail(@)])
              \/ k = "repeated" /\ checker.does = "serve" /\ Go([held EXCEPT !.at = "serving"])
              \/ k = "repeated" /\ checker.does # "serve"
                 /\ Go(Put([held EXCEPT !.at = "fingerprint"], "domains", domains))

(* Taking the evidence's own word for the lab it is of.                    *)
MutCheckFingerprint ==
  /\ checker.at = "fingerprint"
  /\ Go([To("comparison") EXCEPT !.left = Ordered("comparison", ReadingOrder, 1)])

(* All evidence carries the fingerprint of the current lab.                *)
CheckFingerprint ==
  /\ checker.at = "fingerprint"
  /\ IF {runs[r] : r \in Range(checker.comparison) \cup Range(checker.repeated)} = {baseline}
     THEN Go([To("comparison") EXCEPT !.left = Ordered("comparison", ReadingOrder, 1)])
     ELSE Refuse

(* The recalculation agrees if each log is still the one that was used.    *)
MatchesLog(f) == logs[f] = checker[f[1]][f]

ReadLog ==
  /\ checker.at \in {"comparison", "repeated"} /\ checker.left # <<>>
  /\ LET last == checker.at = "repeated" /\ Len(checker.left) = 1
     IN  \/ ~MatchesLog(Head(checker.left)) /\ Refuse
         \/ MatchesLog(Head(checker.left)) /\ last /\ Go(To("audit"))
         \/ MatchesLog(Head(checker.left)) /\ ~last /\ Go([checker EXCEPT !.left = Tail(@)])

(* As many logs as the evidence claims trials, in either directory.        *)
CountTrials ==
  LET n == Cardinality(DOMAIN checker.repeated) \div 2
  IN  /\ checker.at = "comparison" /\ checker.left = <<>>
      /\ IF \A p \in Profiles : Cardinality(Globbed(p)) = n
         THEN Go([To("repeated") EXCEPT !.left = Ordered("repeated", ReadingOrder, n)])
         ELSE Refuse

(* The catalog is for the current intent, and the audit is its.            *)
CheckAudit ==
  /\ checker.at = "audit"
  /\ IF catalog = candidate /\ checker.domains = catalog
     THEN Go(To(IF checker.does = "report" THEN "write" ELSE "report"))
     ELSE Refuse

RenderedFrom == Restrict(checker, Kinds \cup {"domains"})

(* The report is renamed into place.                                       *)
WriteReport ==
  /\ checker.at = "write" /\ checker.does = "report"
  /\ report' = RenderedFrom
  /\ undisturbed' = FALSE
  /\ checker' = Idle
  /\ UNCHANGED <<captureVars, fileVars, manifest>>

(* Leaving the comparison to verify.                                       *)
MutReportIsCurrent == checker.does = "generate" \/ report = RenderedFrom

(* The report is what would be rendered.                                   *)
ReportIsCurrent == report = RenderedFrom

(* From here on only bytes are read, in the order of the artifacts' paths. *)
CompareReport ==
  /\ checker.at = "report"
  /\ IF ReportIsCurrent
     THEN Go([does |-> checker.does, at |-> "hash claims", left |-> <<"comparison", "repeated">>,
              expected |-> checker.expected,
              made |-> [report |-> report, claims |-> [domains |-> domains], logs |-> <<>>]])
     ELSE Refuse

HashClaim ==
  /\ checker.at = "hash claims"
  /\ LET k    == Head(checker.left)
         held == [checker EXCEPT !.made.claims = Put(@, k, derived[k])]
     IN  IF k = "comparison"
         THEN Go([held EXCEPT !.left = Tail(@)])
         ELSE Go([held EXCEPT !.at = "hash logs",
                              !.left = Ordered("comparison", HashingOrder, 1) \o
                                       Ordered("repeated", HashingOrder, BundleTrials)])

(* A log that is missing is an error, one that is cut off is not.          *)
HashLog ==
  /\ checker.at = "hash logs"
  /\ LET f    == Head(checker.left)
         held == [checker EXCEPT !.made.logs = Put(@, f, logs[f])]
     IN  \/ logs[f] = Absent /\ Refuse
         \/ logs[f] # Absent /\ Len(checker.left) = 1 /\ Go([held EXCEPT !.at = "hash lab"])
         \/ logs[f] # Absent /\ Len(checker.left) > 1 /\ Go([held EXCEPT !.left = Tail(@)])

(* The last artifacts.  verify compares the whole with what it has read.   *)
HashLab ==
  LET made == Put(checker.made, "lab", Lab)
  IN  /\ checker.at = "hash lab"
      /\ \/ checker.does = "generate" /\ Go([To("write") EXCEPT !.made = made])
         \/ checker.does = "verify" /\ IF made = checker.expected
                                       THEN Go([at |-> "verified"])
                                       ELSE Refuse

(* The manifest is synced and renamed into place.                          *)
WriteManifest ==
  /\ checker.at = "write" /\ checker.does = "generate"
  /\ manifest' = checker.made
  /\ checker' = Idle
  /\ UNCHANGED <<captureVars, fileVars, report, undisturbed>>

Check ==
  \/ Inventory \/ LoadClaim \/ CheckFingerprint \/ ReadLog \/ CountTrials \/ CheckAudit
  \/ WriteReport \/ CompareReport \/ HashClaim \/ HashLog \/ HashLab \/ WriteManifest
-----------------------------------------------------------------------------
(* The other terminal, and accidents.                                      *)

Capture ==
  /\ WriterStep
  /\ undisturbed' = (undisturbed /\ UNCHANGED <<logs, derived>>)
  /\ UNCHANGED <<fileVars, report, manifest, checker>>

Edit ==
  /\ events < MaxEvents
  /\ \/ baseline' = baseline + 1 /\ UNCHANGED candidate
     \/ candidate' = candidate + 1 /\ UNCHANGED baseline
  /\ undisturbed' = FALSE
  /\ events' = events + 1
  /\ UNCHANGED <<runs, logs, derived, writer, catalog, domains, report, manifest,
                 checker>>

(* What follows a candidate by hand: the catalog with its audit.           *)
FollowUp ==
  /\ catalog # candidate
  /\ catalog' = candidate /\ domains' = candidate
  /\ undisturbed' = FALSE
  /\ UNCHANGED <<captureVars, candidate, report, manifest, checker>>

(* The manifest was synced, the report was not.                            *)
PowerLoss ==
  /\ LoseWrites
  /\ report' = report \/ (report' = Nothing /\ UNCHANGED <<logs, derived>>)
  /\ checker' = Idle
  /\ undisturbed' =
       (undisturbed /\ checker.at \in Resting /\ UNCHANGED <<logs, derived, report>>)
  /\ UNCHANGED <<fileVars, manifest>>

Next ==
  \/ \E does \in {"report", "generate", "verify", "serve"} : Begin(does)
  \/ Check \/ Capture \/ Edit \/ FollowUp \/ PowerLoss

Spec == Init /\ [][Next]_vars
-----------------------------------------------------------------------------
(* A bundle that agrees with itself: the report is rendered from claims    *)
(* that are those of exactly these logs, captured from exactly this lab.   *)
(* Since aggregating the same logs once more truncates a file and restores *)
(* it, two digests can agree on a JSON file that both found cut off.       *)
Consistent(m) ==
  /\ \A k \in Kinds : m.claims[k] \in {m.report[k], Torn}
  /\ \A k \in Kinds : m.report[k] = Restrict(m.logs, {f \in DOMAIN m.logs : f[1] = k})
  /\ DOMAIN m.logs = Trials("comparison", 1) \cup Trials("repeated", BundleTrials)
  /\ Range(m.logs) \subseteq DOMAIN runs
  /\ {runs[r] : r \in Range(m.logs)} = {m.lab.baseline}
  /\ {m.report["domains"], m.claims["domains"], m.lab.catalog} = {m.lab.candidate}

(* docs/ARCHITECTURE.md: the manifest "binds every report input and output *)
(* after semantic recalculation".  The recalculation and the digests read  *)
(* the same files at different times, while captures and edits go on; yet  *)
(* the manifest that verify reports as verified is of a bundle that agrees *)
(* with itself.                                                            *)
VerifiedManifestIsConsistent == checker.at = "verified" => Consistent(manifest)

(* What the files, the report and the API claim was measured: no log that  *)
(* was cut off, and none of another configuration, has gone into it,       *)
(* whatever stopped the captures; and the report is of one configuration.  *)
ClaimsAreMeasured ==
  /\ \A k \in Kinds : Measured(k, derived[k])
  /\ report # Nothing =>
       /\ \A k \in Kinds : Measured(k, report[k])
       /\ Cardinality({runs[r] : r \in Range(report["comparison"]) \cup
                                       Range(report["repeated"])}) = 1
  /\ checker.at = "serving" => \A k \in Kinds : Measured(k, checker[k])

(* docs/EVIDENCE_VERIFICATION.md: verify fails if an artifact has changed. *)
(* It fails only then: what generate has accepted, verify accepts until an *)
(* artifact is written.                                                    *)
NoFalseAlarm == checker.at = "refused" => ~undisturbed
=============================================================================
