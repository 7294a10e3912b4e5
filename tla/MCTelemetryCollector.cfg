SPECIFICATION Spec
CONSTANT N = 2
INVARIANTS
  SnapshotsAreHonest
  
PROPERTIES
  KeepsPublishing
CHECK_DEADLOCK FALSE
