SPECIFICATION Spec
CONSTANT MaxQueue = 2
INVARIANTS
  RecoveryIsReal
CHECK_DEADLOCK FALSE
