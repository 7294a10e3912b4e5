SPECIFICATION Spec
CONSTANT Documents <- MCDocuments
INVARIANTS
  AnswersAreShortest
  SettledIsFinal
  PassMeansReachable
PROPERTIES
  AuditsFinish
CHECK_DEADLOCK FALSE
