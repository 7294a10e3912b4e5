---------------------------- MODULE TelemetryFeed ----------------------------
(***************************************************************************)
(* What the telemetry API promises its readers (the latest-snapshot        *)
(* endpoint and /metrics), with requests, threads and retention left out:  *)
(* one latest snapshot per topology.  While a server runs, its topology's  *)
(* feed only moves to newer snapshots; the feeds of other topologies may   *)
(* be retired by retention but never change.  A restart serves exactly     *)
(* what was there before if the store is durable, nothing otherwise.       *)
(***************************************************************************)
EXTENDS TelemetryStore

VARIABLES bound, feeds, durable

feedVars == <<bound, feeds, durable>>

Init ==
  /\ bound \in Fingerprints
  /\ durable \in BOOLEAN
  /\ feeds = [fp \in Fingerprints |-> NoSnapshot]

Retired(fp) == feeds'[fp] \in {feeds[fp], NoSnapshot}

Publish ==
  /\ feeds'[bound] \in OfTopology(Snapshots, bound)
  /\ feeds[bound] # NoSnapshot =>
       feeds'[bound] = feeds[bound] \/ KeyLess(feeds[bound], feeds'[bound])
  /\ \A fp \in Fingerprints \ {bound} : Retired(fp)
  /\ UNCHANGED <<bound, durable>>

Restart ==
  /\ bound' \in Fingerprints
  /\ feeds' = IF durable THEN feeds ELSE [fp \in Fingerprints |-> NoSnapshot]
  /\ UNCHANGED durable

Next == Publish \/ Restart

Spec == Init /\ [][Next]_feedVars
=============================================================================
