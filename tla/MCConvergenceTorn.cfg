SPECIFICATION Spec
CONSTANTS
  writer = writer
  reader = reader
  Writers = {writer}
  Readers = {reader}
  Profiles = {"ospf_only"}
  Capacity = 1
  Offsets = {0, 1}
  MaxRuns = 2
INVARIANTS
  CompleteRunIsReachable
