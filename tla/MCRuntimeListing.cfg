SPECIFICATION Spec
CONSTANTS
  Design <- MCDesign
  MatrixSize = 8
INVARIANTS
  NextFaultIsSingle
