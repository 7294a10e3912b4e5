-------------------------- MODULE MCIncidentService --------------------------
EXTENDS IncidentService, TLC

CONSTANTS l1, l2, unknown, s1, s2

MCSymmetry == Permutations({l1, l2}) \cup Permutations({s1, s2})
=============================================================================
