# TelcoNet Sentinel: verification

TLA+ models of the stateful parts of TelcoNet Sentinel, model-checked with TLC on small
instances, and theorems about most of them that TLAPS proves for every value of the constants.
Paths are relative to the repository (`src/` is its root here), `py/` stands for
`src/src/telconet_sentinel/`. `PROJECT.json` maps every definition to the lines it stands for.

## 1. The system

TelcoNet Sentinel watches a small FRR access network. An HTTP API (FastAPI) audits the declared
topology at start-up, ingests telemetry snapshots, records the timelines of convergence
experiments and opens incidents. Collectors run next to the lab and post to the API; shell scripts
deploy the lab with containerlab, inject faults and leave evidence files behind, from which commands
render a report and a manifest that can be verified.

### Inventory

| Component | State it keeps | Operations | What is hard | Correct when |
|---|---|---|---|---|
| Snapshot repositories `py/telemetry_store.py` | at most 120 snapshots, in memory (RLock) or SQLite (`BEGIN IMMEDIATE`) | `save`, `latest`, `recent`, prune on opening | retention is global over topologies; delayed and conflicting saves; reopening | newest are kept, an id is one payload |
| Ingest endpoint `py/api.py` 400-440, `py/telemetry_config.py` | the bound topology's fingerprint, nothing of its own | validate, `latest`, freshness test, `save`, re-read | four separate store calls in a thread pool; retries; restarts with another topology | readers never see the feed go back; answers are true |
| Convergence runs `py/convergence.py`, `py/api.py` 440-560 | at most 20 runs, each a list of events | create, append, get, latest, `/metrics` | in memory the live object is read after the lock; SQLite reads by three SELECTs; eviction of an unfinished run | timelines causal, a response consistent with itself |
| Incident service `py/service.py` | at most 1000 incidents, index by fingerprint, last-seen times | ingest, get, approve | deduplication window that slides, eviction, approval racing a recurrence, response built after the lock | index exact, bursts collapse, recurrences never hidden |
| Live collector `py/live_collector.py` | detector's recorded stages, ping queue, injected fault | baseline, inject, poll, report, clean up | two threads and a router; sampling is not atomic; every call may fail; a kill | causal order, real transitions, fault removed |
| Telemetry collector `py/telemetry_collector.py` | the current round | ask every router, publish, sleep | partial failures, publication whose answer is lost | honest snapshots, keeps publishing |
| Path search `py/topology.py` | heap and distances of one call | `shortest_distance_excluding` | lazy deletion, early return, parallel links | answers are shortest |
| Fault audits `py/fault.py`, `py/audit.py`, `py/resilience.py` | verdicts, computed once by `create_app` | link, node and domain audits | mixed outcomes, agreement between audits | "passes N-1" means reachable |
| Runtime N-1 runner `scenarios/runtime_n1_matrix_e2e.sh`, `py/runtime_resilience.py` | the lab, artifacts, observation and evidence files | deploy, inject, wait, restore, verify, trap | an asynchronous network; failures under `set -e`; kill, power loss | one fault at a time, evidence earned, lab given back |
| Live script `scenarios/live_convergence_e2e.sh`, `py/runtime_conformance.py` | the lab, the artifact directory, the verdict | clear, deploy, wait, enable BFD, capture, check, collect, assert, trap | the lab forms by itself; leftovers of a killed run; failures under `set -e` | no fault without this run's PASS, no fault left behind |
| Experiment captures `scenarios/bfd_comparison_lab.sh`, `scenarios/bfd_repeated_trials_lab.sh`, `py/bfd_comparison.py`, `py/repeated_trials.py` | raw logs, two JSON files | fingerprint, deploy, capture through `tee`, aggregate, aggregate by hand | logs and JSON are overwritten in place; a script stops midway; logs of two runs or configurations; power loss | a claim is of complete logs of one configuration |
| Report and manifest `py/report.py`, `py/evidence_manifest.py`, `py/configuration.py` | `EXPERIMENT_REPORT.md`, `manifest.json` | render, generate, verify | dozens of files read one after the other, and twice, while captures and edits go on | what verifies agrees with itself; what was generated verifies |
| Start-up `py/main.py`, `create_app` | what is served | read evidence, files, topology, catalog | the intents are read several times, uncompared | what is served belongs together |
| Intent and design loading `py/intent.py`, `py/failure_domain.py` | none | validation | layers that each check a part | only auditable designs are audited |
| Statistics `py/measurement.py`; `py/demo.py` | none | percentiles over samples; one sequential demonstration | pure | - |
| Other scenario scripts (`dual_homing_e2e.sh`, `telemetry_demo.sh`, `link_failure_lab.sh`) | Docker and containerlab | drive collectors | as the scripts above | - |
| Metrics rendering `py/telemetry_metrics.py`, `render_live_metrics` | none | exposition text | reads a live run object; combines two routers' reports | consistent with itself, unknown stays unknown |

Interaction: the two collectors call the API over HTTP and may lose its answer; the API's handlers
share the three stores between threads; the audits and the N-1 plan share the path search; the
runner and the live collector share the lab with its routers, which converge when they please; the capture
scripts, the report commands and the API's start-up share the evidence files and the lab's configuration,
without any lock.

The 40 hazards that follow from this, each with its line and the properties that would catch it, are
in `PROJECT.json`.

## 2. Modules

```
TelemetryStore <- TelemetryIngest <- TelemetryIngestProofs
       ^                |
       '- TelemetryFeed <- (INSTANCE, refinement)
ConvergenceRuns <- ConvergenceRunsProofs      IncidentService <- IncidentServiceProofs
LiveCollector <- LiveScenario <- LiveScenarioProofs
TelemetryCollector <- TelemetryCollectorProofs
NetworkDesign <- PathSearch, DesignDocuments <- FaultAudit <- FaultAuditProofs
      '- RuntimeN1 <- RuntimeN1Proofs
EvidenceCapture <- EvidenceBundle <- EvidenceBundleProofs
```

`MC*.tla` instantiate a module for TLC. Definitions named `Mut...` are the plausible mistakes
against which each property was tried: put in place of the definition that follows them, they make
TLC find the property violated. No behaviour specification uses them.

**TelemetryStore, TelemetryIngest, TelemetryFeed.** The repository is the *set* of snapshots it
holds; both implementations run the same algorithm atomically and sort by the same key (UTC time,
id), so `AfterSave` is one operator. A request moves through `Receive` (the three tests of
`validate_telemetry_ingest`), `CheckLatest`, `Save` and `Classify`, one atomic store call each, and
any other request or `Restart` comes between. `Locked` is SQLite's busy timeout of 5 s. `Restart`
may bind another topology; SQLite prunes, memory is lost. `accepted` is a history variable.
TelemetryFeed is the abstract specification: *one latest snapshot per topology, which only becomes
newer*; `ImplementsFeed` states the refinement, with `feeds[fp] = Latest(store, fp)`. That a 200 is a retry of
what is stored (`RetryWasStored`) is not true of the code (section 6); `RetryIsCovered` is what is: the snapshot was stored, or a newer one
of its id was.

**ConvergenceRuns.** Writes are atomic; reads are not. A request is a record with the handler's
position. `View(q)` is the shared object in memory and the copy in SQLite; `ReadIndex`, `ReadStatus`
and `ReadList` are the separate reads of `render_live_metrics` and `_convergence_response`;
`LatestRun`, `LoadRow` and `LoadEvents` the three SELECTs. An evicted run's events live on in memory
while a handler holds it and vanish with `ON DELETE CASCADE` in SQLite.

**IncidentService.** `heap` is every incident object ever made (its position is its id), `retained`
the dictionary's keys, so a response built after eviction still has an object to read. `ingest` is
split into its three outcomes; eviction and the removal of index entries belong to `IngestNew`.

**LiveCollector.** The collector's statements, one action each, in the order of the code, with the
router (`Converge`), ping and its reader thread (`PingReply`, `ReadOutput`) and the deadline around
them. A reply carries the path it took, which the program does not know and the properties do.
`Fail` is any exception inside the `try`, `Cleanup` the `finally` clause, `Kill` its absence.

**LiveScenario** extends LiveCollector with the script around it: `step` is the script's position, and the
collector and its environment move only in `collect` (`Collect`). `Form` is the fresh lab: each of access1's
two neighbours becomes Full, the route and the BFD session follow, in any order and not necessarily at all. The
polls wait for the primary route and for BFD only, so that the second uplink is left to `Conforms`, the
checks of `runtime_conformance.py`. `ScriptFails` is `set -e`, `RemoveFault` and `Destroy` the EXIT trap, `KillScript` its
absence. The verdict is replaced as `runtime_conformance.py` does it, without `fsync`: `PowerLoss` may leave it cut off (`torn`).
The lab and the artifacts an earlier run left behind are part of `ScenarioInit`. The state of the
network after the collector's end is not modelled: nothing reads it.

**TelemetryCollector.** A round asks every router four commands; routers change meanwhile. A router is one end of a link, and
each of its states is up, down or *missing* (no entry, or one without a state). `Parsed` is what the four parsers make of a state: a missing interface or BFD
peer is unknown, a missing OSPF neighbor down, an OSPF entry without a state unknown, a missing route absent. A failing command
(`CommandFails`) and answers that do not fit together (`Refused`) make the whole router unknown. `InterfaceState` and
`LinkGauge` are what the exposition then says of a link. The three ways `publish` ends are `Accepted`, `Unavailable` (`RuntimeError`) and `AnswerLost` (an
exception that it does not convert).

**NetworkDesign, DesignDocuments, PathSearch, FaultAudit.** NetworkDesign has the links, the failure scenarios and
the reference `LeastCost`, by walks of bounded length over the surviving links. DesignDocuments is what the layers of validation refuse of a
document (`LinkIntent`, `NetworkIntent`, `Topology`, the failure domains, the audits). PathSearch is the Dijkstra loop with lazy deletion, one heap entry per step;
FaultAudit validates the document, drives the search through baseline and scenarios as `create_app` does, and classifies.

**RuntimeN1.** The script, statement by statement from its first refusal to the EXIT trap,
the plan and comparison of `runtime_resilience.py` and the evidence writer (temporary file, `fsync`,
rename). The lab: an end that is set down loses its neighbour at once, the other end *notices* later,
adjacencies *form* later and routes are *computed* later, in any order. `Fails` ends the script
anywhere (`set -e`, a wait out of polls); `Kill` and `PowerLoss` run no trap. The script's two
pings of one wait are one test, because reachability depends only on interfaces the script sets itself. Two failures that the script does not see
are recorded in history variables: `unlisted` (`ListAdjacencies` had nothing to wait for, `:149`) and `overlooked` (`CheckLab` took an existing lab for none, `:73`; `Deploy` then can only fail).

**EvidenceCapture, EvidenceBundle.** Two terminals and the host, over files without locks. A configuration is a *version*; a raw log is the number of the
script run that captured it, `Broken` while `tee` has it open or when it is cut off; what the code computes from logs is the function from logs to those runs, and a digest is what it
is the digest of. In one terminal a capture script fingerprints and deploys (`StartScript`), opens and closes log after log, and aggregates unless it captured too
few trials on purpose (`EndScript`); `AggregateByHand` is the aggregation as a command. In the other, one command at a time runs: `checker.at` is its
position and the rest of the record what it has read so far. `report`, `generate` and `verify` share the recomputation (`Inventory` to `CheckAudit`) in the
code's order; `generate` and `verify` go on to compare the report and to read every artifact *again* for its digest (`HashClaim`, `HashLog`, `HashLab`). Claims and logs are read one per step, everything else together:
the lab's configuration is one read of all its files, in `CheckFingerprint`, `CheckAudit` and `HashLab` alike. `serve` is main.py's loading of the two measured claims (`:69-76`), and nothing else of start-up.
Edits make new versions (`Edit`), `FollowUp` is what is kept up with them by hand; `PowerLoss` ends all processes.
`undisturbed` is a history variable for `NoFalseAlarm`.

## 3. Runs

| Run | Bounds | Shows |
|---|---|---|
| `telemetry_ingest` | 3 requests in flight, capacity 2, skew 1, clock 0..1, 7 snapshots of 2 topologies, both back ends | retention by age alone, 201s stay covered, what a 200 can be relied on for, immutability, refinement of the feed (290,312 states) |
| `telemetry_retry` | as above, 2 requests | a finding |
| `convergence` | 1 writer, 1 reader, 2 runs, capacity 1, offsets 0 and 1, both back ends | causal timelines, final completion, gapless retention, consistent answers (450,418 states) |
| `convergence_torn` | as above | a finding |
| `incident` | 2 links and an unknown one, capacity 2, window 1, clock 0..3, 4 incidents, 2 slots | exact index, deduplication, approvals final (660,422 states) |
| `live_scenario` | 2 unread replies | no fault without this run's PASS, causal order, real transitions, fault removed (236,436 states) |
| `live_recovery` | as above, the collector alone | a finding |
| `telemetry_collector` | 2 routers | honest snapshots, unknown stays unknown, liveness (660,524 states) |
| `fault_audit` | 324 small topologies, documents with one thing wrong and the two lab designs | bad documents are refused, the search is shortest, a pass means reachable, audits end (14,576 states) |
| `runtime_n1` | 5 nodes, 6 links, 8 scenarios | a fault never meets another if the routers to wait for were listed, evidence is earned, the lab is given back (82,445 states) |
| `runtime_listing` | as above | a finding |
| `evidence_bundle` | 1 to 2 trials per profile, 1 in the bundle, 2 script runs, 1 accident | a verified manifest agrees with itself, claims were measured, no false alarm (4,048,169 states) |

Why the bounds are enough to see the interesting cases:

- *Telemetry.* The seven snapshots include one id with two payloads, a tie in time that the id must break,
  two of the other topology (enough to fill the store and evict everything), one in the
  future of the clock and one that does not conform. Three requests allow a save between another
  request's check and save, and an eviction between its save and re-read. The clock bound covers a
  snapshot that becomes acceptable by waiting.
- *Convergence.* Capacity 1 and two runs let the second evict the first under both a writer and a reader.
  Only the profile `ospf_only` is used: the other has one event more. Two offsets give equal
  and decreasing times.
- *Incidents.* Capacity 2 with four incidents of two links: the evicted incident is or is not the newest of its
  link. Window 1 and clock 3 allow inside, at, and beyond the window, and a window that slid.
- *Live experiment.* One unread reply from before the fault and one from after it meet in a queue of two. The network has no
  bound: it is the two neighbours, the route and the session that access1 sees.
- *Telemetry collector.* Two routers: a failure before and after another router's answer, and the two ends of a link.
- *Fault audit.* All graphs on one access, two transport and one service node, costs 1 and 3 (detours are strictly dearer, equal,
  or absent), a parallel link, disconnected ones; documents with a negative or zero cost, a loop, an unknown node, a name used twice, a domain of one member or of
  unknown ones; and the designs that are in use.
- *Runtime N-1.* The small design has scenarios that change both, one or no metric: in the last case the wait
  under the fault is over at once, the hardest case for the restoration. `MatrixSize` is 8 as
  the script's own constant is 15 for its design.
- *Evidence.* 1, 2 and 1 stand for the 20, 30 and 20 of `MIN_TRIALS`, `MAX_TRIALS` and the manifest's list: fewer logs than the limit, as many, and more than the bundle
  names. The run the checkout comes from and another one give logs of two runs and, with an `Edit` in between, of two configurations. One accident (an edit, a power loss,
  a capture that misses its event) may come anywhere, before, between or within any number of report commands and `FollowUp`s, which are not bounded; so the run has manifests that were generated and verified after an edit, and dropping `CheckFingerprint` is
  caught. What needs two accidents is left to the theorems, which hold for any number. That the manifest's number is the *least* number of trials matters: see section 5.

Deadlock is checked everywhere but in `live_scenario`, `live_recovery`, `telemetry_collector`
and `fault_audit`, whose programs end. Symmetry is used where no liveness is checked and the permuted
values (requests, slots, links) are never ordered.

### Fairness

| Module | Assumed | Why |
|---|---|---|
| LiveScenario | WF of the script, of the collector and of its deadline | every wait has a last attempt; the collector is one thread whose HTTP calls have timeouts, the commands it runs return, the deadline is on the monotonic clock. Nothing on routers or ping. |
| TelemetryCollector | WF of the collector | docker commands and HTTP requests have timeouts, `sleep` ends |
| FaultAudit | WF of Next | a sequential computation |
| RuntimeN1 | WF of the script | commands return and every wait has a bounded number of polls. Nothing on the lab, which may never converge, nor on the operator. |
| the API's modules, EvidenceBundle | none | only safety is claimed of them |

## 4. Proofs

Eight modules hold the theorems. Each is for every value of the constants that the named ASSUMEs of its module allow.

| Module | Theorems | For any |
|---|---|---|
| `TelemetryIngestProofs` | `Invariance`, `TypeCorrect`, `StoreStaysWellFormed`, `RetentionKeepsNewest`, `AnswersAreTruthful` (a 201 stays covered), `RetriesAreCovered` (a 200 is of a snapshot that was inserted, or that a newer one of its id outran), `ClockIsNotPoisoned` (nothing stored is further ahead of the clock than the skew), `PayloadsAreImmutable`, `Refinement` (of TelemetryFeed) | snapshots, requests, topologies, capacity, skew |
| `IncidentServiceProofs` | `Invariance`, `TypeCorrect`, `IndexNeverDangles`, `Deduplication`, `ApprovalsAreFinal`, `RecurrencesAreVisible` | links, requests, capacity, window |
| `ConvergenceRunsProofs` | `TypeCorrect`, `TimelinesStayWellFormed`, `NewestRunsAreRetained`, `StatusIsBackedByEvents`, `SqliteExpositionIsSnapshot`, `CompletionIsFinal` | writers, readers, profiles, offsets, capacity, back end |
| `TelemetryCollectorProofs` | `PublishedSnapshotsAreHonest`, `MissingStatesStayUnknown` | number of routers |
| `LiveScenarioProofs` | `ScenarioTypes`, `FaultsNeedConformance`, `EventsStayCausal`, `RecordedTransitionsAreReal` | bound on unread replies |
| `RuntimeN1Proofs` | `RuntimeN1Types`, `FaultsAreSingle`, `OtherLabsAreSafe`, `EvidenceWasEarned` | finite design with natural costs, number of scenarios |
| `FaultAuditProofs` | `SearchIsSettled`, `AnswersAreLeastCosts` (the search returns `LeastCost`), `PassingMeansReachable` | set of finite documents with integer costs and known roles |
| `EvidenceBundleProofs` | `BundleIsTyped`, `ClaimsWereMeasured`, `VerifyRaisesNoFalseAlarm` | trials, runs, accidents |
| | `VerifiedManifestsAreConsistent` | the same, if the manifest lists the least number of trials allowed |

*The feed.* `NewestRetained` and `StoreInv` are not inductive without each other:
that a save inserts what it should, and that the cut removes the oldest snapshot only, depend on the
store being finite, within capacity and one snapshot per id. `AcknowledgedIsCovered` needs
`NewestRetained`, because a snapshot acknowledged earlier may have been evicted since. `Validated`
(a request past validation carries a snapshot of the bound topology that the clock allows) carries
the test across the steps between it and `Save`, and with it the clock guard. Key lemmas:
the key order is total on a store with one snapshot per id (`KeyOrder`); a finite non-empty set
of snapshots has a newest and an oldest member (`NewestExists`, `OldestExists`, by minimality for the
strict subset order); what a save does to a store that is full or not (`SaveEffect`). The refinement
follows from these: a save that inserts either becomes the latest of the bound topology or
leaves it, and evicts of other topologies at most their latest, which then is their only one.

*Incidents.* `IndexIsExact` needs that the cut keeps exactly the newest ids, and
that the id just made is among them (`EvictionEffect`). `BurstsCollapse` needs `ClockInv`: the
last-seen time of a link is not before the opening of its indexed incident and not after now.

*Convergence runs.* What a full store or a restart keeps is a suffix of the runs (`NewestRunsAreSuffix`), hence again consecutive. A busy handler holds a run that
was created (`HandlersHoldRuns`), and a run not yet created has no events (`FutureRunsAreEmpty`), so that no handler can meet an id that is given out anew. For SQLite,
`IndexIsOfCopy` carries what the exposition has read already to its last read.

*Telemetry collector.* Every answer of this round is one that its parser makes of a state the router had during the round (`AnswersAreOfThisRound`), and routers not asked yet have neither
answered nor failed (`RoundInv`); an interface is said to be unknown only for want of an answer or because it was missing, so the link gauges follow by cases.

*Live script.* `VerdictInv` fixes the verdict position by position: cleared, absent until the audit, PASS beyond it, cut off only where the script is gone. `CaptureInv` keeps
what was captured of the second uplink true, because a fresh lab only converges. The collector's events: the detector's list, a `SelectSeq` over the stages in the code's order,
is a run of the four stages (`TransitionsAreNext`, `RunIsOfStages`), so `TimelineInv` can say by two numbers how far the detector and the API are: what is recorded is the first
k stages, what was posted the first n, what is pending the stages between. `RouterInv` carries what the probe saw to the step that records it: while the fault is on, the router only goes one way, which makes
a sample that is not atomic as good as one that is; and a recovery is a ping reply that came after the fault (`RecoveryIsAReply`).

*Runtime N-1.* `DownInv` is what is set down in each phase. `MeshInv` is the reason why counting the routers one by one is enough: a router that was counted lists a
neighbour that lists it, or both have lost each other, and two neighbours that both were counted list each other for good, since nothing is down and an adjacency
that is listed on both sides is not lost. `SettledInv`: from there on only the routes move, towards the baseline. `OwnerInv` ties the flag the trap reads to the lab's owner, and
`EarnedInv` follows the measured values from the files of one scenario to the synced evidence. The exceptional cases `unlisted` and `overlooked` are in the invariants as in the properties.
That the plan lists every failure is a lemma (`PlanListsFailures`), from what listing a finite set one by one gives (`ListedIsAll`); `DesignAssumption` says what a validated intent is:
finitely many nodes and links, links between two of the nodes, natural costs, and an access node. The types follow from both invariants: a metric is natural because walks only add natural costs (`CostsAreNatural`).

*Path search.* `SearchInv` is `SettledIsFinal` with the numbers natural. A popped entry is a least one (`LeastExists`), improvements are no cheaper than it
(`ImprovementsEffect`), so a settled node keeps its distance. Natural costs are not assumed: `DesignInv` gets them from what DesignDocuments refuses, `CostsAssumption` only says
that documents hold integers, `DocumentsAssumption` that they are finite and roles are of the four kinds.
That the distances are *least* is `ShortestInv`: a distance is that of a walk with no more links than nodes are settled, so `LeastCost`'s bound on walks is enough, and every short walk ends settled or in the
heap at no higher cost (`ShortWalksAreKnown`). So the first settled target has the least cost, and an empty heap means that no walk exists (`SearchingFindsLeast`). `AuditInv` and `CallInv` take this through baseline and scenarios: each
row holds the answers of its own scenario, and each impact compares the two right ones; then a pass is reachability (`PassingMeansReachable`).

*Recursion.* `LeastCost`, `Listed` and the plan are recursive functions on 0..n. That such a function satisfies its equation is proved from its definition by CHOOSE (`RecursionExists`, from functions on a
prefix of the naturals), and induction is by the least counterexample of a set of naturals (`UpToInduction`), so that no operator needs to be instantiated.

*Evidence.* A claim that is `Sound` stays so, because script runs are only added and keep their version (`SoundStays`). An aggregation's claim is sound when it is accepted (`AggregatesAreSound`), and is kept through
the write, its interruption and a power loss; `CheckerInv` says how much of it each position of a command has compared, so the report is rendered from sound claims of one configuration. `StageInv` says
what each position holds.

*No false alarm.* `Sealed` spells out what verify tests, as facts about the files, with the manifest being that of these files. `TrustInv`: while `undisturbed`, a bundle at rest is sealed; a generate that runs has found
out as much of it as its position says, and each of its tests that passes adds a part (`Progress`, one lemma `...Advances` per step); a verify goes the same way over a sealed bundle, so none of its tests can fail. The initial checkout is sealed
(`SealedInit`).

*Verified manifests.* Here files do change between a command's steps. The reason why the manifest is consistent all the same is that time goes on: a run captures a log once (`OnceInv`), so a log that once held run r and does not any more never will
again (`Over`, `TimeGoesOn`). Hence everything that is digested after the report was rendered is of the same runs as the report or of later ones (`Fits`, for the manifest from the generate that wrote it). A verify that finds its own claims equal to those of
the manifest's report reads each log as the report's, so the manifest's digest of that log, and of the claim on it, cannot have been of a later one: they are equal (`Borne`, at the moment the log is read). The same holds of versions, which only grow. `VerifyInv` gathers
this position by position, until `ReportIsConsistent` concludes `Consistent(manifest)` where the reports are compared; what verify digests afterwards only has to be equal. TLC checked `HistoryInv`, the whole of it, before it was proved.
The hypothesis `BundleTrials = MinTrials` is used for claims with fewer trials than the bundle has logs; without it the property is false (section 5).

**Only model-checked.**

- Liveness (`FaultIsRemoved`, `KeepsPublishing`, `AuditsFinish`, `LabIsGivenBack`): no proof backend for fairness and ENABLED.
- The findings: a run that expects a violation shows a counterexample.

Every invariant and every action property of a passing run is stated by a theorem of the table.

## 5. What is assumed about the surroundings

- *Router.* BFD and OSPF do not fail once they are up but under the drop filter; the backup route comes only after the neighbour is lost.
  The lab of the N-1 runner is as in section 2.
- *SQLite.* A transaction is atomic and durable once committed; a lock may time out.
- *File system.* Without `fsync`, a renamed file may come back empty or partial after a power loss; with it, it is either the old or the new one.
- *Signals.* A terminal's interrupt reaches the script and the collector it waits for alike: the trap runs after the collector's end.
- *Evidence files.* A power loss cuts at most one of the unsynced files off; the rename of the synced manifest is durable. A version of a file that was edited away does not return.
  An edit that restores an old version is not modelled. A capture script runs in one terminal at a time: a second one would interleave its `tee` with the first's. Only accidents and script runs are bounded.
- *Aggregation by hand* is over a script's logs in their places; `repeated_trials.py:117-121` takes any list of logs, the same one twice, too.
- *Fingerprint and deployment* are one step of a capture script: an edit between `bfd_repeated_trials_lab.sh:35` and `:43` is a listed hazard without a property.
- *Twenty trials.* `VerifiedManifestIsConsistent` depends on two constants being equal: `evidence_manifest.py:47` and `:124` list 20 trials, `repeated_trials.py:73` accepts 20 to 30. An aggregation by hand
  over fewer logs than are listed is refused only for that reason: with 2 trials in the bundle and evidence of 1 allowed, TLC finds a verified manifest whose JSON file claims fewer trials than
  the report and the logs beside it (aggregated again between the recalculation and the digest, on either occasion).
- *Lab ownership.* Nobody deploys a lab while the runner is active; with a second deployer between the runner's test
  (`runtime_n1_matrix_e2e.sh:73`) and its `clab deploy`, its trap would destroy the other's lab. That hazard is listed without a property.
- *What the runner does not see.* The failure of listing the routers to wait for (`:149`) and of `docker ps` (`:73`) are masked; `unlisted` and `overlooked` except them from `ListedFaultIsSingle` and `OnlyOwnLabIsTouched`, and both are findings.
- *Mixed outcomes.* No document of `fault_audit` has a failure that cuts one access node off and not another; `PassingMeansReachable` covers them.

## 6. Findings

| Run | |
|---|---|
| `telemetry_retry` | a post that retention turned away is answered 200 if another request stored its id with another payload before `py/api.py:440` looks for the reason, where docs/TELEMETRY.md:61 says 409. |
| `convergence_torn` | in memory, one exposition may say that the run is complete and the data plane unreachable (`py/convergence.py:362`), against its HELP texts. SQLite does not show it (`ExpositionIsSnapshot`). |
| `live_recovery` | a reply over the primary path, stamped while the filter was being added, can be reported as the recovery (`py/live_collector.py:362`), against docs/ANALYSIS_REPORT.md:60. |
| `runtime_listing` | if the adjacencies cannot be listed (`scenarios/runtime_n1_matrix_e2e.sh:149`), the next fault can meet one that has not healed, where docs/N1_DESIGN_AUDIT.md:63 says that it cannot, silently. |
| `telemetry_collector` | a timeout while the answer is read ends the continuous collector (`py/telemetry_collector.py:340`), where its message and its test speak of retrying; `KeepsPublishing` has to except it. |
| `runtime_n1` | a `docker ps` that fails counts as "no lab" (`scenarios/runtime_n1_matrix_e2e.sh:73`), and the trap destroys the lab that is there, where the next line says "refusing to replace it"; `OnlyOwnLabIsTouched` has to except it. |

The first four have a run that finds the counterexample; the last two are the exceptions that the properties of a passing run name.

One more race is by design or not, depending on how docs/TELEMETRY.md:61 is read: `latest`, the freshness test and `save` are separate, so that of two snapshots in flight the older one
can be created, with 201, after the newer one. Readers never see it (`ImplementsFeed`).

Two observations that no run shows, because they are about words: `py/api.py:423` exempts only the *latest* id from the freshness test, so that resending
another retained snapshot is a 409, where docs/TELEMETRY.md:61 may be read as promising a safe retry of any; and the limitation text of `py/repeated_trials.py:103` speaks of "one local containerlab deployment" although logs of two runs of the same
configuration aggregate. `verify` reads every file twice, once for its meaning and once for its digest, and two digests can agree on a JSON file that both found cut off: a verified manifest can list such a file, and `Consistent` excepts that.

## 7. Not modelled, and why

Parsers of FRR and `ip` output, hashing and YAML syntax (pure functions, abstracted to what their
callers tell apart); the statistics over samples, `py/measurement.py`'s simulated experiment and the HTML page (pure); logging and wording; the
schemas and digests of the conformance check; `dual_homing_e2e.sh`, `telemetry_demo.sh` and `link_failure_lab.sh`, whose control the modelled
scripts have; the affected prefixes and fingerprints of an audit; the environment variables of `py/main.py`, and `py/demo.py`. Of start-up, everything but the loading of the measured claims and the audits:
`py/main.py` reads the intents for the published matrix's fingerprint (`:78`), the telemetry binding (`:87-91`), the candidate (`:98`), the failure domains (`:103-114`) and the served baseline (`:116`), each at its own time. `create_app` compares some of what was read,
by guards that hold of frozen values whatever was edited; what it does not compare, the binding and the served baseline, nothing in the code promises to fit. It is a listed hazard without a property. The artifacts of the manifest that are only hashed are left out, too. Of the snapshot repository's `recent`, what the ingest handler does with it is part of `Classify`.

## 8. Plan

Done, in this order because the API's stores are what every reader depends on: TelemetryStore, TelemetryIngest with
TelemetryFeed and their proofs; ConvergenceRuns; IncidentService and its proofs; LiveCollector;
TelemetryCollector; PathSearch and FaultAudit; RuntimeN1; LiveScenario; then EvidenceCapture and EvidenceBundle,
DesignDocuments, the unsynced verdict of LiveScenario, and the proofs of the six modules that had none; then the safety properties that were
only model-checked, down to the type invariants.

What is left, modelling:

1. the API as one server for both collectors (LiveScenario over ConvergenceRuns instead of over a log of its own);
2. the staleness of a telemetry snapshot as the alert rules see it;
3. an abstract convergence timeline (a sequence that only grows, up to the required stages), which both ConvergenceRuns and LiveCollector's view
   of the API would implement.

What is left, proofs:

1. the refinements that items 1 and 3 above would state;
2. `SqliteExpositionIsSnapshot` for the memory back end is refuted by `convergence_torn`: a version of it that says what a reader *can* rely on there;
3. shorter proofs where a lemma repeats the shape of another (`...Advances` and `...Follows` of EvidenceBundleProofs).
