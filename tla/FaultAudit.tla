------------------------------ MODULE FaultAudit ------------------------------
(***************************************************************************)
(* The design that the API is started with: its documents are validated,   *)
(* then create_app runs its audits before the API serves.  For             *)
(* every failure of one link, of one transport node and of one declared    *)
(* failure domain, audit_fault_scenarios asks the path search for each     *)
(* access node's cost and classifies the impact.  The baseline costs,      *)
(* which each audit computes anew, are computed once.                      *)
(***************************************************************************)
EXTENDS PathSearch, DesignDocuments

CONSTANT Documents   \* the designs to start with, acceptable or not

(* A cost that is not an integer does not get as far as a document.        *)
ASSUME CostsAssumption == \A doc \in Documents : \A l \in doc.links : l.cost \in Int

(* Documents are finite, and NodeRole has four members.                    *)
ASSUME DocumentsAssumption ==
  \A doc \in Documents :
    /\ IsFiniteSet(Nodes(doc)) /\ IsFiniteSet(doc.links) /\ IsFiniteSet(doc.domains)
    /\ \A n \in Nodes(doc) : doc.role[n] \in {"access", "aggregation", "core", "service"}

VARIABLES
  topo,      \* the design, as in the documents
  faults,    \* the scenarios of its audits, in order
  round,     \* the scenario being evaluated, 0 for the baseline
  todo,      \* the access nodes not asked in this round yet
  cost,      \* cost[i][a] of each finished round, and of this one so far
  impacts,   \* the classification of each finished scenario
  phase      \* "ask", "search", "done", or "refused" when start-up raises

auditVars == <<topo, faults, round, todo, cost, impacts, phase>>
vars == <<auditVars, searchVars>>

(* audit_single_link_failures and audit_single_node_failures.              *)
SingleFailures(t) == Listed(LinkFailures(t)) \o Listed(NodeFailures(t))

(* The scenarios of the three audits, one audit after the other.           *)
Scenarios(t) == SingleFailures(t) \o Listed(t.domains)

Impacts == {"redundancy_reduced", "degraded", "outage"}

(* The impact of a scenario, by the costs before and after it.             *)
Impact(before, after) ==
  CASE \E a \in DOMAIN after : after[a] = NoPath -> "outage"
    [] \A a \in DOMAIN after : after[a] # NoPath /\ after[a] <= before[a] -> "redundancy_reduced"
    [] OTHER -> "degraded"

Fault(i) == IF i = 0 THEN [links |-> {}, nodes |-> {}] ELSE faults[i]

Query(i, a) ==
  [nodes |-> Nodes(topo), links |-> topo.links, source |-> a, targets |-> Services(topo),
   cutLinks |-> Fault(i).links, cutNodes |-> Fault(i).nodes]

NoQuery ==
  [nodes |-> {}, links |-> {}, source |-> "nobody", targets |-> {}, cutLinks |-> {},
   cutNodes |-> {}]

Costs == {NoPath} \cup Nat

TypeOK ==
  /\ topo \in Documents
  /\ round \in 0..Len(faults)
  /\ todo \subseteq Accesses(topo)
  /\ phase \in {"ask", "search", "done", "refused"}
  /\ DOMAIN cost = 0..round
  /\ \A i \in 0..round :
       DOMAIN cost[i] \subseteq Accesses(topo) /\ \A a \in DOMAIN cost[i] : cost[i][a] \in Costs
  /\ impacts \in Seq(Impacts) /\ Len(impacts) <= Len(faults)
  /\ query \in {NoQuery} \cup {Query(i, a) : i \in 0..round, a \in Accesses(topo)}
  /\ dist \in [DOMAIN dist -> Nat]
  /\ DOMAIN dist \subseteq {query.source} \cup (Nodes(topo) \ query.cutNodes)
  /\ pending \subseteq Nat \X DOMAIN dist
  /\ answer \in Costs \cup {Open}

Init ==
  /\ topo \in Documents
  /\ phase = IF Accepted(topo) THEN "ask" ELSE "refused"
  /\ faults = IF Accepted(topo) THEN Scenarios(topo) ELSE <<>>
  /\ round = 0 /\ todo = Accesses(topo) /\ cost = [i \in {0} |-> <<>>]
  /\ impacts = <<>>
  /\ query = NoQuery /\ dist = <<>> /\ pending = {} /\ answer = NoPath
-----------------------------------------------------------------------------
(* The next access node's cost is asked for.                               *)
Ask(a) ==
  /\ phase = "ask" /\ a \in todo
  /\ Begin(Query(round, a))
  /\ todo' = todo \ {a}
  /\ phase' = "search"
  /\ UNCHANGED <<topo, faults, round, cost, impacts>>

Search ==
  /\ phase = "search"
  /\ SearchStep
  /\ UNCHANGED auditVars

(* The search has returned.  An access node without a baseline path makes  *)
(* the audit, and with it create_app, raise.  The last access node of a    *)
(* scenario completes its verdict.                                         *)
Record ==
  LET costs == [a \in DOMAIN cost[round] \cup {query.source} |->
                  IF a = query.source THEN answer ELSE cost[round][a]]
      over  == todo = {}
      next  == over /\ round < Len(faults)
  IN  /\ phase = "search" /\ answer # Open
      /\ impacts' = IF over /\ round > 0 THEN Append(impacts, Impact(cost[0], costs)) ELSE impacts
      /\ round' = IF next THEN round + 1 ELSE round
      /\ todo' = IF next THEN Accesses(topo) ELSE todo
      /\ cost' = [i \in 0..round' |->
                    CASE i = round -> costs [] i > round -> <<>> [] OTHER -> cost[i]]
      /\ phase' = CASE round = 0 /\ answer = NoPath -> "refused"
                    [] (round > 0 \/ answer # NoPath) /\ over /\ ~next -> "done"
                    [] OTHER -> "ask"
      /\ UNCHANGED <<topo, faults, searchVars>>

(* passes_n_minus_one of both single-failure audits: no outage is counted. *)
PassesNMinusOne == "outage" \notin Range(SubSeq(impacts, 1, Len(SingleFailures(topo))))

Next == (\E a \in todo : Ask(a)) \/ Search \/ Record

Spec == Init /\ [][Next]_vars /\ WF_vars(Next)
-----------------------------------------------------------------------------
(* Whatever the topology and the failures, the cost that the search        *)
(* returns is that of a shortest surviving path, or None if there is none. *)
AnswersAreShortest ==
  phase = "search" /\ answer # Open => answer = LeastCost(query)

(* What "passes N-1" stands for: if no link and no node audit counted an   *)
(* outage, every access node still reaches the service without any one     *)
(* link and without any one node that is neither access nor service.       *)
PassMeansReachable ==
  phase = "done" /\ PassesNMinusOne =>
    \A a \in Accesses(topo) :
      LET without(links, nodes) ==
            LeastCost([Query(0, a) EXCEPT !.cutLinks = links, !.cutNodes = nodes])
      IN  /\ \A l \in topo.links : without({l.id}, {}) # NoPath
          /\ \A n \in Nodes(topo) \ (Accesses(topo) \cup Services(topo)) :
               without({}, {n}) # NoPath

(* Start-up gets through its audits, or refuses the topology.              *)
AuditsFinish == <>(phase \in {"done", "refused"})
=============================================================================
