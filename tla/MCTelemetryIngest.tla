-------------------------- MODULE MCTelemetryIngest --------------------------
EXTENDS TelemetryIngest, TLC

CONSTANTS fpA, fpB, good, bad, r1, r2, r3

(* Two topologies.  Snapshot 1 comes in two payloads under one id; 2 and 3 *)
(* share an observation time, so the id breaks the tie; 4 and 6 are of the *)
(* other topology, enough to fill the store; 5 does not match the bound    *)
(* topology.                                                               *)
MCSnapshots ==
  { [id |-> 1, at |-> 0, fp |-> fpA, body |-> good],
    [id |-> 1, at |-> 2, fp |-> fpA, body |-> good],
    [id |-> 2, at |-> 1, fp |-> fpA, body |-> good],
    [id |-> 3, at |-> 1, fp |-> fpA, body |-> good],
    [id |-> 4, at |-> 2, fp |-> fpB, body |-> good],
    [id |-> 5, at |-> 0, fp |-> fpA, body |-> bad],
    [id |-> 6, at |-> 1, fp |-> fpB, body |-> good] }

MCSymmetry == Permutations(Requests)
=============================================================================
