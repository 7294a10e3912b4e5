SPECIFICATION Spec
CONSTANTS
  Design <- MCDesign
  MatrixSize = 8
INVARIANTS
  TypeOK
  ListedFaultIsSingle
  EvidenceIsEarned
PROPERTIES
  OnlyOwnLabIsTouched
  LabIsGivenBack
