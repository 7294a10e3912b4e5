------------------------------ MODULE RuntimeN1 ------------------------------
(***************************************************************************)
(* The runtime N-1 matrix: scenarios/runtime_n1_matrix_e2e.sh injects      *)
(* every single failure of a design into a lab of FRR routers, waits for   *)
(* the planned metrics, restores, and runtime_resilience.py turns plan and *)
(* observation into evidence.  The lab is the environment.  A failing      *)
(* command, and a wait that runs out of polls, ends the script.            *)
(***************************************************************************)
EXTENDS NetworkDesign, SequencesExt

CONSTANTS
  Design,       \* the intent, [role, links]
  MatrixSize    \* the number of scenarios the script insists on, 15

(* Links have two ends, which are nodes of the design, a cost, and names   *)
(* of their own; somebody wants to reach the service.                      *)
ASSUME DesignAssumption ==
  /\ IsFiniteSet(Nodes(Design)) /\ IsFiniteSet(Design.links)
  /\ \A l \in Design.links :
       {l.a, l.b} \subseteq Nodes(Design) /\ l.a # l.b /\ l.cost \in Nat
  /\ \A l, m \in Design.links : l.id = m.id => l = m
  /\ Accesses(Design) # {}

VARIABLES
  pc,           \* what the script does next, "idle" between two invocations
  todo,         \* the routers or access nodes left in the loop it is in
  ends,         \* the interface ends left in the loop it is in
  at,           \* the row of the plan it works on, 0 before the first
  deployed,     \* the flag the EXIT trap looks at
  unlisted,     \* some wait_full_mesh of this invocation got no list to wait for
  overlooked,   \* for the properties: it did not see somebody else's lab
  measured,     \* what this scenario's files say of its metrics, and what was down then
  artifacts,    \* whether the artifact directory exists
  observation,  \* the records in observation.json
  evidence,     \* evidence.json: "absent", "torn" or what it says
  draft,        \* the temporary file next to it: what it says, and whether it is synced
  owner,        \* of the lab: "none", "run" for this invocation, "other"
  down,         \* the interface ends that are set down
  seen,         \* the ends at which the router sees a Full neighbour
  rib           \* the metric in the RIB of each access node

scriptVars == <<pc, todo, ends, at, deployed, unlisted, overlooked, measured, artifacts>>
fileVars == <<observation, evidence, draft>>
netVars == <<down, seen, rib>>
vars == <<scriptVars, fileVars, owner, netVars>>

Ends == {<<n, l.id>> : l \in Design.links, n \in Nodes(Design)} \cap
        UNION {{<<l.a, l.id>>, <<l.b, l.id>>} : l \in Design.links}
EndsAt(n) == {e \in Ends : e[1] = n}
EndsOf(id) == {e \in Ends : e[2] = id}

(* The cost from an access node over the links that are not cut.           *)
CostWithout(a, links, nodes) ==
  LeastCost([nodes |-> Nodes(Design), links |-> Design.links, source |-> a,
             targets |-> Services(Design), cutLinks |-> links, cutNodes |-> nodes])

(* The cost over the links that are left, for each set of them.            *)
Cost ==
  [a \in Accesses(Design) |->
     [left \in SUBSET {l.id : l \in Design.links} |->
        CostWithout(a, {l.id : l \in Design.links} \ left, {})]]

Baseline == [a \in Accesses(Design) |-> CostWithout(a, {}, {})]
-----------------------------------------------------------------------------
(* build_runtime_n1_plan                                                   *)

(* A failure is injected at the ends of the link, or at all of the node's. *)
Injections(fault) ==
  UNION ({EndsOf(id) : id \in fault.links} \cup {EndsAt(n) : n \in fault.nodes})

Plan ==
  LET faults == Listed(LinkFailures(Design)) \o Listed(NodeFailures(Design))
  IN  [i \in DOMAIN faults |->
         [id |-> faults[i], injections |-> Injections(faults[i]),
          metric |-> [a \in Accesses(Design) |->
                        CostWithout(a, faults[i].links, faults[i].nodes)]]]

(* adjacencies: a router has as many neighbours as links.                  *)
FullNeighbors(n) == Cardinality(EndsAt(n))

(* rows: a scenario that leaves an access node without a path ends the     *)
(* listing.                                                                *)
Runnable(i) == \A a \in Accesses(Design) : Plan[i].metric[a] # NoPath

(* build_runtime_n1_evidence: what the evidence says, if the observation   *)
(* covers the plan exactly.                                                *)
Covers(obs) == {r.id : r \in ToSet(obs)} = {s.id : s \in ToSet(Plan)}
Conforms(obs) ==
  \A s \in ToSet(Plan), r \in ToSet(obs) :
    r.id = s.id => r.fault = s.metric /\ r.restored = Baseline
-----------------------------------------------------------------------------
(* f with one more value, or another one.                                  *)
Put(f, x, value) == [y \in DOMAIN f \cup {x} |-> IF y = x THEN value ELSE f[y]]

Unmeasured == [fault |-> <<>>, cut |-> {}, restored |-> <<>>]
NoDraft == [says |-> "nothing", synced |-> FALSE]
NoRoutes == [a \in Accesses(Design) |-> NoPath]

TypeOK ==
  /\ pc \in {"idle", "check", "deploy", "list", "mesh", "settle", "rows", "inject",
             "fault", "restore", "count", "verify", "sync", "rename", "trap", "destroy"}
  /\ todo \subseteq Nodes(Design) /\ ends \subseteq Ends
  /\ at \in 0..Len(Plan)
  /\ {deployed, unlisted, overlooked, artifacts} \subseteq BOOLEAN
  /\ \A r \in ToSet(observation) :
       /\ r.id \in {s.id : s \in ToSet(Plan)}
       /\ {r.fault, r.restored} \subseteq [Accesses(Design) -> Nat]
       /\ r.cut \subseteq Ends
  /\ evidence \in {"absent", "torn", "passed", "failed"}
  /\ draft \in [says : {"nothing", "passed", "failed"}, synced : BOOLEAN]
  /\ owner \in {"none", "run", "other"}
  /\ down \subseteq Ends /\ seen \subseteq Ends \ down
  /\ rib \in [Accesses(Design) -> Nat \cup {NoPath}]

Init ==
  /\ pc = "idle" /\ todo = {} /\ ends = {} /\ at = 0 /\ deployed = FALSE
  /\ unlisted = FALSE /\ overlooked = FALSE
  /\ measured = Unmeasured /\ artifacts = FALSE
  /\ observation = <<>> /\ evidence = "absent" /\ draft = NoDraft
  /\ owner \in {"none", "other"}
  /\ down = {} /\ seen = {} /\ rib = NoRoutes
-----------------------------------------------------------------------------
(* The script up to the first fault.                                       *)

(* It starts only without the artifacts of an earlier run.                 *)
Start ==
  /\ pc = "idle" /\ ~artifacts
  /\ artifacts' = TRUE
  /\ pc' = "check"
  /\ todo' = {} /\ ends' = {} /\ at' = 0 /\ measured' = Unmeasured
  /\ deployed' = FALSE /\ unlisted' = FALSE /\ overlooked' = FALSE
  /\ observation' = <<>> /\ evidence' = "absent" /\ draft' = NoDraft
  /\ UNCHANGED <<owner, netVars>>

(* Arming the trap before looking.                                         *)
MutCheckLab ==
  /\ pc = "check"
  /\ deployed' = TRUE
  /\ pc' = IF owner = "none" THEN "deploy" ELSE "trap"
  /\ UNCHANGED <<todo, ends, at, unlisted, overlooked, measured, artifacts, fileVars, owner,
                 netVars>>

(* An existing lab, whoever deployed it, ends the script.  Otherwise it    *)
(* makes the plan and arms the trap; and so it does if it does not see the *)
(* lab, because docker ps fails, or is cut off by grep's early exit, in    *)
(* the condition of an if, where errexit is off.                           *)
CheckLab ==
  /\ pc = "check"
  /\ overlooked' \in {FALSE, owner # "none"}
  /\ IF owner = "none" \/ overlooked'
     THEN pc' = "deploy" /\ deployed' = TRUE
     ELSE pc' = "trap" /\ deployed' = FALSE
  /\ UNCHANGED <<todo, ends, at, unlisted, measured, artifacts, fileVars, owner, netVars>>

(* containerlab does not deploy a lab that exists.                         *)
Deploy ==
  /\ pc = "deploy" /\ owner = "none"
  /\ owner' = "run"
  /\ down' = {} /\ seen' = {} /\ rib' = NoRoutes
  /\ pc' = "list"
  /\ UNCHANGED <<todo, ends, at, deployed, unlisted, overlooked, measured, artifacts, fileVars>>

(* wait_full_mesh reads the routers from a process substitution, whose     *)
(* failure nobody notices: the loop then has nothing to wait for.          *)
ListAdjacencies ==
  /\ pc = "list"
  /\ \/ todo' = Nodes(Design) /\ UNCHANGED unlisted
     \/ todo' = {} /\ unlisted' = TRUE
  /\ pc' = "mesh"
  /\ UNCHANGED <<ends, at, deployed, overlooked, measured, artifacts, fileVars, owner, netVars>>

(* Being content with any neighbour.                                       *)
MutWaitNeighborCount(n) ==
  /\ pc = "mesh" /\ n \in todo
  /\ seen \cap EndsAt(n) # {}
  /\ todo' = todo \ {n}
  /\ UNCHANGED <<pc, ends, at, deployed, unlisted, overlooked, measured, artifacts, fileVars,
                 owner, netVars>>

(* A poll finds as many Full neighbours as the plan expects.               *)
WaitNeighborCount(n) ==
  /\ pc = "mesh" /\ n \in todo
  /\ Cardinality(seen \cap EndsAt(n)) = FullNeighbors(n)
  /\ todo' = todo \ {n}
  /\ UNCHANGED <<pc, ends, at, deployed, unlisted, overlooked, measured, artifacts, fileVars,
                 owner, netVars>>

MeshIsFull ==
  /\ pc = "mesh" /\ todo = {}
  /\ pc' = "settle" /\ todo' = Accesses(Design)
  /\ UNCHANGED <<ends, at, deployed, unlisted, overlooked, measured, artifacts, fileVars, owner,
                 netVars>>

(* wait_metric for the baseline, before the first and after each fault.    *)
WaitBaseline(a) ==
  /\ pc = "settle" /\ a \in todo
  /\ rib[a] = Baseline[a]
  /\ measured' = [measured EXCEPT !.restored = Put(@, a, rib[a])]
  /\ todo' = todo \ {a}
  /\ UNCHANGED <<pc, ends, at, deployed, unlisted, overlooked, artifacts, fileVars, owner, netVars>>

(* ICMP gets through while some path has all its ends up.                  *)
Reachable(a) == Cost[a][{l.id : l \in Design.links} \ {e[2] : e \in down}] # NoPath

(* Both clients are answered; after a fault its record is complete.        *)
Settled ==
  /\ pc = "settle" /\ todo = {}
  /\ \A a \in Accesses(Design) : Reachable(a)
  /\ observation' = IF at = 0 THEN observation
                    ELSE Append(observation, Put(measured, "id", Plan[at].id))
  /\ pc' = "rows"
  /\ UNCHANGED <<todo, ends, at, deployed, unlisted, overlooked, measured, artifacts, evidence,
                 draft, owner, netVars>>
-----------------------------------------------------------------------------
(* One scenario after the other.                                           *)

(* The next row; a listing that failed has fewer.                          *)
NextRow ==
  /\ pc = "rows" /\ at < Len(Plan) /\ Runnable(at + 1)
  /\ at' = at + 1
  /\ ends' = Plan[at + 1].injections
  /\ measured' = Unmeasured
  /\ pc' = "inject"
  /\ UNCHANGED <<todo, deployed, unlisted, overlooked, artifacts, fileVars, owner, netVars>>

RowsEnd ==
  /\ pc = "rows"
  /\ pc' = "count"
  /\ UNCHANGED <<todo, ends, at, deployed, unlisted, overlooked, measured, artifacts, fileVars,
                 owner, netVars>>

(* An end is set down, which its operstate confirms.  Its router drops the *)
(* neighbour; the other end's will notice.                                 *)
Inject(e) ==
  /\ pc = "inject" /\ e \in ends
  /\ down' = down \cup {e} /\ seen' = seen \ {e}
  /\ IF ends = {e} THEN pc' = "fault" /\ todo' = Accesses(Design) ELSE UNCHANGED <<pc, todo>>
  /\ ends' = ends \ {e}
  /\ UNCHANGED <<at, deployed, unlisted, overlooked, measured, artifacts, fileVars, owner, rib>>

(* wait_metric under the fault; the file it leaves is the measurement.     *)
WaitFaultMetric(a) ==
  /\ pc = "fault" /\ a \in todo
  /\ rib[a] = Plan[at].metric[a]
  /\ measured' = [measured EXCEPT !.fault = Put(@, a, rib[a]), !.cut = down]
  /\ todo' = todo \ {a}
  /\ UNCHANGED <<pc, ends, at, deployed, unlisted, overlooked, artifacts, fileVars, owner, netVars>>

(* Going on as soon as one of the two routers has converged.               *)
MutReachedUnderFault ==
  /\ pc = "fault" /\ todo # Accesses(Design)
  /\ \A a \in Accesses(Design) : Reachable(a)
  /\ pc' = "restore" /\ ends' = Plan[at].injections
  /\ UNCHANGED <<todo, at, deployed, unlisted, overlooked, measured, artifacts, fileVars, owner,
                 netVars>>

(* Both clients are answered under the fault.                              *)
ReachedUnderFault ==
  /\ pc = "fault" /\ todo = {}
  /\ \A a \in Accesses(Design) : Reachable(a)
  /\ pc' = "restore" /\ ends' = Plan[at].injections
  /\ UNCHANGED <<todo, at, deployed, unlisted, overlooked, measured, artifacts, fileVars, owner,
                 netVars>>

RestoreEnd(e) ==
  /\ pc = "restore" /\ e \in ends
  /\ down' = down \ {e}
  /\ ends' = ends \ {e}
  /\ pc' = IF ends = {e} THEN "list" ELSE pc
  /\ UNCHANGED <<todo, at, deployed, unlisted, overlooked, measured, artifacts, fileVars, owner,
                 seen, rib>>
-----------------------------------------------------------------------------
(* From the last row to the evidence.                                      *)

CountScenarios ==
  /\ pc = "count"
  /\ pc' = IF Len(observation) = MatrixSize THEN "verify" ELSE "trap"
  /\ UNCHANGED <<todo, ends, at, deployed, unlisted, overlooked, measured, artifacts, fileVars,
                 owner, netVars>>

(* verify writes what it finds, good or bad, to a temporary file ...       *)
Verify ==
  /\ pc = "verify" /\ Covers(observation)
  /\ draft' = [says |-> IF Conforms(observation) THEN "passed" ELSE "failed", synced |-> FALSE]
  /\ pc' = "sync"
  /\ UNCHANGED <<todo, ends, at, deployed, unlisted, overlooked, measured, artifacts,
                 observation, evidence, owner, netVars>>

(* ... not waiting for the disk ...                                        *)
MutSync ==
  /\ pc = "sync"
  /\ pc' = "rename"
  /\ UNCHANGED <<todo, ends, at, deployed, unlisted, overlooked, measured, artifacts, fileVars,
                 owner, netVars>>

(* ... syncs it, ...                                                       *)
Sync ==
  /\ pc = "sync"
  /\ draft' = [draft EXCEPT !.synced = TRUE]
  /\ pc' = "rename"
  /\ UNCHANGED <<todo, ends, at, deployed, unlisted, overlooked, measured, artifacts,
                 observation, evidence, owner, netVars>>

(* ... and renames it.                                                     *)
Rename ==
  /\ pc = "rename"
  /\ evidence' = draft.says
  /\ pc' = "trap"
  /\ UNCHANGED <<todo, ends, at, deployed, unlisted, overlooked, measured, artifacts,
                 observation, draft, owner, netVars>>
-----------------------------------------------------------------------------
(* The end of the script.                                                  *)

(* Polling for the metric under the fault without a limit.                 *)
MutFails ==
  /\ pc \notin {"idle", "trap", "destroy", "fault"}
  /\ pc' = "trap"
  /\ UNCHANGED <<todo, ends, at, deployed, unlisted, overlooked, measured, artifacts, fileVars,
                 owner, netVars>>

(* A command fails, a wait gives up, the observation does not cover the    *)
(* plan: set -e ends the script wherever it is.                            *)
Fails ==
  /\ pc \notin {"idle", "trap", "destroy"}
  /\ pc' = "trap"
  /\ UNCHANGED <<todo, ends, at, deployed, unlisted, overlooked, measured, artifacts, fileVars,
                 owner, netVars>>

(* The trap sets every interface up, as far as it can, ...                 *)
Trap ==
  /\ pc = "trap"
  /\ pc' = IF deployed THEN "destroy" ELSE "idle"
  /\ down' \in IF deployed THEN {{}, down} ELSE {down}
  /\ UNCHANGED <<todo, ends, at, deployed, unlisted, overlooked, measured, artifacts, fileVars,
                 owner, seen, rib>>

(* ... and destroys the lab, unless that fails, too.                       *)
Destroy ==
  /\ pc = "destroy"
  /\ owner' \in {"none", IF owner = "run" THEN "other" ELSE owner}
  /\ pc' = "idle"
  /\ UNCHANGED <<todo, ends, at, deployed, unlisted, overlooked, measured, artifacts, fileVars,
                 netVars>>

Script ==
  \/ Start \/ CheckLab \/ Deploy \/ ListAdjacencies \/ MeshIsFull \/ Settled \/ NextRow \/ RowsEnd
  \/ ReachedUnderFault \/ CountScenarios \/ Verify \/ Sync \/ Rename \/ Fails \/ Trap \/ Destroy
  \/ \E n \in todo : WaitNeighborCount(n) \/ WaitBaseline(n) \/ WaitFaultMetric(n)
  \/ \E e \in ends : Inject(e) \/ RestoreEnd(e)

(* SIGKILL runs no trap.                                                   *)
Kill ==
  /\ pc # "idle"
  /\ pc' = "idle"
  /\ owner' = IF owner = "run" THEN "other" ELSE owner
  /\ UNCHANGED <<todo, ends, at, deployed, unlisted, overlooked, measured, artifacts, fileVars,
                 netVars>>

(* The host goes down, and with it what is not on disk: of a renamed file  *)
(* whose content was not synced, anything may be left.                     *)
PowerLoss ==
  /\ pc' = "idle"
  /\ owner' = IF owner = "run" THEN "other" ELSE owner
  /\ evidence' \in IF evidence \in {"passed", "failed"}
                   THEN {"absent", evidence} \cup (IF draft.synced THEN {} ELSE {"torn"})
                   ELSE {evidence}
  /\ UNCHANGED <<todo, ends, at, deployed, unlisted, overlooked, measured, artifacts,
                 observation, draft, netVars>>

(* Between two invocations an operator clears up, or deploys a lab by hand.*)
Operator ==
  /\ pc = "idle"
  /\ \/ owner' \in {"none", "other"} /\ UNCHANGED <<artifacts, evidence>>
     \/ artifacts' = FALSE /\ evidence' = "absent" /\ UNCHANGED owner
  /\ UNCHANGED <<pc, todo, ends, at, deployed, unlisted, overlooked, measured, observation,
                 draft, netVars>>
-----------------------------------------------------------------------------
(* The lab.                                                                *)

(* A router notices that the other end of a link is gone.                  *)
Notice(e) ==
  /\ owner = "run" /\ e \in seen
  /\ EndsOf(e[2]) \ seen # {}
  /\ seen' = seen \ {e}
  /\ UNCHANGED <<scriptVars, fileVars, owner, down, rib>>

(* Two routers become Full neighbours again.                               *)
Form(l) ==
  /\ owner = "run" /\ EndsOf(l.id) \cap (down \cup seen) = {}
  /\ seen' = seen \cup EndsOf(l.id)
  /\ UNCHANGED <<scriptVars, fileVars, owner, down, rib>>

(* An access node computes its routes, over the links that both ends list. *)
ComputeRoutes(a) ==
  /\ owner = "run"
  /\ rib' = [rib EXCEPT ![a] = Cost[a][{id \in {e[2] : e \in seen} : EndsOf(id) \subseteq seen}]]
  /\ UNCHANGED <<scriptVars, fileVars, owner, down, seen>>

Lab ==
  \/ \E e \in Ends : Notice(e)
  \/ \E l \in Design.links : Form(l)
  \/ \E a \in Accesses(Design) : ComputeRoutes(a)

Next == Script \/ Kill \/ PowerLoss \/ Operator \/ Lab

Spec == Init /\ [][Next]_vars /\ WF_vars(Script)
-----------------------------------------------------------------------------
(* The first end of a scenario is about to go down.                        *)
ScenarioBegins == pc = "inject" /\ ends = Plan[at].injections

EverythingIsUp == down = {} /\ seen = Ends /\ rib = Baseline

(* A scenario begins with every interface up, every router seeing every    *)
(* neighbour and both routes the baseline's, although the routers were     *)
(* counted one after the other while adjacencies came and went, and        *)
(* although the scenario before may have changed no metric; unless a list  *)
(* of adjacencies to wait for failed to be produced.                       *)
ListedFaultIsSingle == ScenarioBegins /\ ~unlisted => EverythingIsUp

(* docs/N1_DESIGN_AUDIT.md: "an incomplete restoration therefore cannot    *)
(* silently turn the next test into an N-2 case."                          *)
NextFaultIsSingle == ScenarioBegins /\ at > 1 => EverythingIsUp

(* Evidence that is there says that the matrix passed, and says so of      *)
(* measurements each of which was made with exactly its component down and *)
(* gave the cost of the shortest path without it.  No failure, kill or     *)
(* power loss leaves other evidence or half a file behind.                 *)
EvidenceIsEarned ==
  evidence # "absent" =>
    /\ evidence = "passed"
    /\ \A fault \in LinkFailures(Design) \cup NodeFailures(Design) :
         \E i \in DOMAIN observation :
           /\ observation[i].id = fault /\ observation[i].cut = Injections(fault)
           /\ \A a \in Accesses(Design) :
                observation[i].fault[a] = CostWithout(a, fault.links, fault.nodes)

(* cleanup destroys, and CheckLab refuses: a lab that this invocation has  *)
(* not deployed, such as one with a fault in it that a killed run left     *)
(* behind, is not touched by the script, unless it was overlooked: then    *)
(* the deployment fails and the trap destroys somebody else's lab.         *)
OnlyOwnLabIsTouched ==
  [][pc # "idle" /\ owner = "other" /\ ~overlooked =>
       owner' = "other" /\ UNCHANGED netVars]_vars

(* The EXIT trap: a lab that the script deployed is destroyed or, if the   *)
(* script is killed or destroying it fails, left to the operator; no wait  *)
(* for a lab that never converges keeps it for ever.                       *)
LabIsGivenBack == owner = "run" ~> owner # "run"
=============================================================================
