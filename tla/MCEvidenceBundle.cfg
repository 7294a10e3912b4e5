SPECIFICATION Spec
CONSTANTS
  MinTrials = 1
  MaxTrials = 2
  MaxRuns = 2
  BundleTrials = 1
  MaxEvents = 1
INVARIANTS
  BundleTypeOK
  VerifiedManifestIsConsistent
  ClaimsAreMeasured
  NoFalseAlarm
