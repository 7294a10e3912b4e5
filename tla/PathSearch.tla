------------------------------ MODULE PathSearch ------------------------------
(***************************************************************************)
(* Topology.shortest_distance_excluding of topology.py: the least cost     *)
(* from a node to the nearest of a set of targets when some links and      *)
(* nodes have failed.  A heap of tentative distances with lazy deletion:   *)
(* improving a node pushes a new entry and leaves the old one, which is    *)
(* skipped when it comes up.                                               *)
(***************************************************************************)
EXTENDS NetworkDesign

VARIABLES
  query,     \* the call: [nodes, links, source, targets, cutLinks, cutNodes]
  dist,      \* distances, a function on the discovered nodes
  pending,   \* the heap: pairs <<distance, node>>
  answer     \* what the call returned, Open while it runs

searchVars == <<query, dist, pending, answer>>

Open == -2   \* of no call that has returned

(* A call starts; it may return at once.                                   *)
Begin(q) ==
  /\ query' = q
  /\ dist' = [n \in {q.source} |-> 0]
  /\ pending' = {<<0, q.source>>}
  /\ answer' = IF q.source \in q.cutNodes \/ KnownTargets(q) = {} THEN NoPath ELSE Open

(* heappop.  Ties are broken by the node's name in the code, in any way    *)
(* here.                                                                   *)
IsLeast(e) == e \in pending /\ \A f \in pending : e[1] <= f[1]

(* Looking at the head of the heap without taking it off.                  *)
MutSkip(e) ==
  /\ answer = Open /\ IsLeast(e)
  /\ e[1] # dist[e[2]]
  /\ UNCHANGED searchVars

(* A stale entry.                                                          *)
Skip(e) ==
  /\ answer = Open /\ IsLeast(e)
  /\ e[1] # dist[e[2]]
  /\ pending' = pending \ {e}
  /\ UNCHANGED <<query, dist, answer>>

Found(e) ==
  /\ answer = Open /\ IsLeast(e)
  /\ e[1] = dist[e[2]]
  /\ e[2] \in KnownTargets(query)
  /\ answer' = e[1]
  /\ pending' = pending \ {e}
  /\ UNCHANGED <<query, dist>>

(* The entries that improve on the distances known so far.                 *)
Improvements(e) ==
  {<<e[1] + s[2], s[1]>> :
     s \in {s \in Steps(query, e[2]) : s[1] \in DOMAIN dist => e[1] + s[2] < dist[s[1]]}}

(* The distances with those improvements.                                  *)
Improved(new) ==
  [n \in DOMAIN dist \cup {f[2] : f \in new} |->
     LET known == {f[1] : f \in {f \in new : f[2] = n}} \cup
                  {dist[m] : m \in DOMAIN dist \cap {n}}
     IN  CHOOSE d \in known : \A c \in known : d <= c]

(* Queueing a node only when it is discovered, not when it is improved.    *)
MutExpand(e) ==
  LET new == Improvements(e)
  IN  /\ answer = Open /\ IsLeast(e)
      /\ e[1] = dist[e[2]]
      /\ e[2] \notin KnownTargets(query)
      /\ dist' = Improved(new)
      /\ pending' = (pending \ {e}) \cup {f \in new : f[2] \notin DOMAIN dist}
      /\ UNCHANGED <<query, answer>>

(* The links of a node are relaxed in one step.  Of parallel links the     *)
(* code may push the dearer one too, if it comes first; here it always is. *)
Expand(e) ==
  LET new == Improvements(e)
  IN  /\ answer = Open /\ IsLeast(e)
      /\ e[1] = dist[e[2]]
      /\ e[2] \notin KnownTargets(query)
      /\ dist' = Improved(new)
      /\ pending' = (pending \ {e}) \cup new
      /\ UNCHANGED <<query, answer>>

Exhausted ==
  /\ answer = Open /\ pending = {}
  /\ answer' = NoPath
  /\ UNCHANGED <<query, dist, pending>>

SearchStep == Exhausted \/ \E e \in pending : Skip(e) \/ Found(e) \/ Expand(e)
-----------------------------------------------------------------------------
(* The nodes whose links have been relaxed, or that answered the call.     *)
Settled == {n \in DOMAIN dist : <<dist[n], n>> \notin pending}

(* Lazy deletion and the early return are safe: a settled node is never    *)
(* improved again, since it is no farther than anything pending, and every *)
(* neighbour of a settled node that did not answer has a distance no worse *)
(* than the way over it.                                                   *)
SettledIsFinal ==
  \A n \in Settled :
    /\ \A e \in pending : dist[n] <= e[1]
    /\ n \notin KnownTargets(query) =>
         \A s \in Steps(query, n) : s[1] \in DOMAIN dist /\ dist[s[1]] <= dist[n] + s[2]
=============================================================================
