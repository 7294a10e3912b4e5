--------------------------- MODULE DesignDocuments ---------------------------
(***************************************************************************)
(* What intent.py, topology.py, failure_domain.py and audit.py accept of a *)
(* design before they work with it.  A document is a record [role, links,  *)
(* domains] of what the YAML files say, right or wrong: a link [id, a, b,  *)
(* cost], a domain [links, nodes].  Names are well-formed, prefixes are    *)
(* left out.                                                               *)
(***************************************************************************)
EXTENDS NetworkDesign

(* Accepting every integer as a cost.                                      *)
MutAcceptsLink(doc, l) == l.a # l.b /\ {l.a, l.b} \subseteq Nodes(doc)

(* LinkIntent and, once more, Topology.__init__.                           *)
AcceptsLink(doc, l) ==
  /\ l.cost > 0
  /\ l.a # l.b
  /\ {l.a, l.b} \subseteq Nodes(doc)

(* NetworkIntent.validate_graph_references: in particular no two links     *)
(* share an id.                                                            *)
AcceptsIntent(doc) ==
  /\ Nodes(doc) # {} /\ doc.links # {}
  /\ \A l \in doc.links : AcceptsLink(doc, l)
  /\ \A l, m \in doc.links : l.id = m.id => l = m

(* FailureDomainIntent.validate_components, and the look-ups with which    *)
(* the audit begins each scenario.                                         *)
AcceptsDomains(doc) ==
  \A d \in doc.domains :
    /\ Cardinality(d.links) + Cardinality(d.nodes) >= 2
    /\ d.links \subseteq {l.id : l \in doc.links} /\ d.nodes \subseteq Nodes(doc)

(* There is something to audit, for either single-failure audit.           *)
Auditable(doc) ==
  /\ Accesses(doc) # {} /\ Services(doc) # {}
  /\ WithRole(doc, {"aggregation", "core"}) # {}

Accepted(doc) == AcceptsIntent(doc) /\ AcceptsDomains(doc) /\ Auditable(doc)
=============================================================================
