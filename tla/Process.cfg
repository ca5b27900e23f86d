CONSTANT Calls = 2
SPECIFICATION FairSpec
CHECK_DEADLOCK FALSE
INVARIANTS
  CleanExit
  SelfcheckProves
PROPERTIES
  SelfcheckEnds
  SignalEnds
