SPECIFICATION ScenarioSpec
CONSTANT MaxQueue = 2
INVARIANTS
  ScenarioTypeOK
  EventsInCausalOrder
  TransitionsAreReal
  FaultNeedsConformance
PROPERTIES
  FaultIsRemoved
CHECK_DEADLOCK FALSE
