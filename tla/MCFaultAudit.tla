---------------------------- MODULE MCFaultAudit ----------------------------
EXTENDS FaultAudit

Link(x, y, c) == [id |-> <<x, y, c>>, a |-> x, b |-> y, cost |-> c]

(* A topology with those of the domains whose components it has.          *)
Topology(role, links, domains) ==
  [role |-> role, links |-> links,
   domains |-> {d \in domains : d.links \subseteq {l.id : l \in links}}]

(* Every topology of one access node, two transport nodes and one service  *)
(* node with costs 1 and 3, one pair of them also with both, in parallel.  *)
SmallRole == [a |-> "access", x |-> "aggregation", y |-> "core", s |-> "service"]

SmallTopologies ==
  {Topology(SmallRole,
            {Link(p[1], p[2], k) : <<p, k>> \in {pk \in (DOMAIN c) \X {1, 3} : pk[2] \in c[pk[1]]}},
            {[links |-> {}, nodes |-> {"x", "y"}], [links |-> {<<"y", "s", 3>>}, nodes |-> {"x"}],
             [links |-> {}, nodes |-> {"a", "x"}]}) :
     c \in {c \in [{<<"a", "x">>, <<"a", "y">>, <<"x", "y">>, <<"x", "s">>, <<"y", "s">>} ->
                   {{}, {1}, {3}, {1, 3}}] :
              \A p \in DOMAIN c : c[p] = {1, 3} => p = <<"a", "x">>}}

(* lab/intent.yml, and lab/intent-dual-homed.yml with its second link to   *)
(* the service; costs in tens.                                             *)
LabRole ==
  [access1 |-> "access", access2 |-> "access", agg1 |-> "aggregation", agg2 |-> "aggregation",
   core1 |-> "core", core2 |-> "core", host |-> "service"]

LabLinks ==
  {Link("access1", "agg1", 1), Link("access1", "agg2", 10),
   Link("access2", "agg1", 10), Link("access2", "agg2", 1),
   Link("agg1", "core1", 1), Link("agg1", "core2", 10),
   Link("agg2", "core1", 10), Link("agg2", "core2", 1),
   Link("core1", "core2", 2), Link("core1", "host", 1)}

SecondEntry == Link("core2", "host", 3)

Uplinks(n) == {l.id : l \in {l \in LabLinks : l.a = n}}

LabDomains ==
  {[links |-> {}, nodes |-> {"agg1", "core1"}],
   [links |-> {<<"core1", "host", 1>>, SecondEntry.id}, nodes |-> {}],
   [links |-> Uplinks("access1"), nodes |-> {}],
   [links |-> Uplinks("access1") \cup {<<"access2", "agg2", 1>>}, nodes |-> {}]}

(* A design with one thing wrong; some of these would make the search run  *)
(* for ever, others give a wrong answer.                                   *)
Square == {Link("a", "x", 1), Link("x", "s", 3), Link("a", "y", 3), Link("y", "s", 1)}

Wrong(links, domains) == Topology(SmallRole, links, domains)

WrongDocuments ==
  {Wrong(Square \cup {l}, {}) :
     l \in {Link("x", "y", 0), Link("y", "s", -1), Link("x", "y", -3), Link("y", "y", 1),
            Link("x", "z", 1), [id |-> <<"a", "x", 1>>, a |-> "y", b |-> "x", cost |-> 1]}} \cup
  {[role |-> SmallRole, links |-> Square, domains |-> {d}] :
     d \in {[links |-> {}, nodes |-> {"x"}], [links |-> {<<"x", "z", 1>>}, nodes |-> {"x"}]}} \cup
  {[role |-> [SmallRole EXCEPT ![n] = r], links |-> Square, domains |-> {}] :
     <<n, r>> \in {<<"a", "core">>, <<"s", "core">>}} \cup
  {[role |-> SmallRole, links |-> {}, domains |-> {}],
   [role |-> [a |-> "access", s |-> "service"], links |-> {Link("a", "s", 1)}, domains |-> {}]}

MCDocuments ==
  SmallTopologies \cup WrongDocuments \cup
  {Topology(LabRole, L, LabDomains) : L \in {LabLinks, LabLinks \cup {SecondEntry}}}
=============================================================================
