SPECIFICATION Spec
CONSTANTS
  fpA = fpA
  fpB = fpB
  good = good
  bad = bad
  r1 = r1
  r2 = r2
  r3 = r3
  NoSnapshot = NoSnapshot
  Snapshots <- MCSnapshots
  Fingerprints = {fpA, fpB}
  Bodies = {good, bad}
  Conforming = {good}
  Requests = {r1, r2}
  Capacity = 2
  MaxSkew = 1
  MaxNow = 1
INVARIANTS
  RetryWasStored
