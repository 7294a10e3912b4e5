---------------------------- MODULE NetworkDesign ----------------------------
(***************************************************************************)
(* Network designs as topology.py and fault.py see them: a topology is a   *)
(* record [role, links] of the nodes' roles and a set of undirected links  *)
(* [id, a, b, cost]; a query asks for the least cost from a source to the  *)
(* nearest target without some links and nodes.                            *)
(***************************************************************************)
EXTENDS Integers, Sequences, FiniteSetsExt

NoPath == -1   \* Python's None

(* The links that have not failed themselves.                              *)
Surviving(q) == {l \in q.links : l.id \notin q.cutLinks}

(* known_targets, without the failed ones.                                 *)
KnownTargets(q) == (q.targets \cap q.nodes) \ q.cutNodes

(* Where a surviving link leads from n, and at what cost.                  *)
Steps(q, n) ==
  {s \in {<<l.b, l.cost>> : l \in {l \in Surviving(q) : l.a = n}} \cup
         {<<l.a, l.cost>> : l \in {l \in Surviving(q) : l.b = n}} :
     s[1] \notin q.cutNodes}

(* The members of a set in some order.                                     *)
Listed(S) ==
  LET first[k \in 0..Cardinality(S)] ==
        IF k = 0
        THEN <<>>
        ELSE LET before == first[k - 1]
             IN  Append(before, CHOOSE x \in S : x \notin {before[i] : i \in 1..(k - 1)})
  IN  first[Cardinality(S)]

Nodes(t) == DOMAIN t.role
WithRole(t, roles) == {n \in Nodes(t) : t.role[n] \in roles}
Accesses(t) == WithRole(t, {"access"})
Services(t) == WithRole(t, {"service"})

LinkFailures(t) == {[links |-> {l.id}, nodes |-> {}] : l \in t.links}

(* Auditing the core only.                                                 *)
MutNodeFailures(t) == {[links |-> {}, nodes |-> {n}] : n \in WithRole(t, {"core"})}

(* transport_node_failure_scenarios                                        *)
NodeFailures(t) ==
  {[links |-> {}, nodes |-> {n}] : n \in WithRole(t, {"aggregation", "core"})}
-----------------------------------------------------------------------------
(* The links that are left when the failed nodes' are gone too.            *)
Left(q) == {l \in q.links : l.id \notin q.cutLinks /\ {l.a, l.b} \cap q.cutNodes = {}}

(* The walks <<end, cost>> that reach one link further, besides ws.        *)
Longer(q, ws) ==
  ws \cup UNION {{<<n, wl[1][2] + wl[2].cost>> : n \in {wl[2].a, wl[2].b} \ {wl[1][1]}} :
                 wl \in {wl \in ws \X Left(q) : wl[1][1] \in {wl[2].a, wl[2].b}}}

(* The walks from the source of at most k links, up to as many as there    *)
(* are nodes.                                                              *)
Walks(q) ==
  LET walks[k \in 0..Cardinality(q.nodes)] ==
        IF k = 0 THEN {<<n, 0>> : n \in {q.source} \ q.cutNodes} ELSE Longer(q, walks[k - 1])
  IN  walks

(* The least cost of a walk to a target.                                   *)
LeastCost(q) ==
  LET costs == {w[2] : w \in {w \in Walks(q)[Cardinality(q.nodes)] : w[1] \in q.targets \cap q.nodes}}
  IN  IF costs = {} THEN NoPath ELSE Min(costs)
=============================================================================
