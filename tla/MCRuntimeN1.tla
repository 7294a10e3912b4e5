---------------------------- MODULE MCRuntimeN1 ----------------------------
EXTENDS RuntimeN1

Link(x, y, c) == [id |-> <<x, y>>, a |-> x, b |-> y, cost |-> c]

(* Two access nodes, each with a cheap and a dear way, one over the other's *)
(* transport node: some failures leave a metric as it was.                 *)
MCDesign ==
  [role |-> [a1 |-> "access", a2 |-> "access", t1 |-> "aggregation", t2 |-> "core",
             s |-> "service"],
   links |-> {Link("a1", "t1", 1), Link("a1", "t2", 4), Link("a2", "t1", 4), Link("a2", "t2", 1),
              Link("t1", "s", 1), Link("t2", "s", 2)}]
=============================================================================
