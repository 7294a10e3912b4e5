SPECIFICATION Spec
CONSTANTS
  l1 = l1
  l2 = l2
  unknown = unknown
  s1 = s1
  s2 = s2
  Fingerprints = {l1, l2, unknown}
  Known = {l1, l2}
  MaxIncidents = 2
  Window = 1
  Slots = {s1, s2}
  MaxNow = 3
  MaxIds = 4
SYMMETRY MCSymmetry
INVARIANTS
  TypeOK
  IndexIsExact
  BurstsCollapse
  ApprovalsStand
PROPERTIES
  ReportsReachOpenIncidents
