CONSTANTS
  N = 4
  SwitchNodes = TRUE
SPECIFICATION FairSpec
INVARIANTS
  TypeOK
  DominatorsExact
  ImmediateDominatorsExact
  LoopsExact
  FakeEdgesTerminateInfiniteLoops
  ReducibleExact
PROPERTIES
  Terminates
