\* Two requests, every scope, mode and placement of the scenario, everything fails.
SPECIFICATION FairSpec
CONSTANTS
  Total = 2
  MayThrow = TRUE
  MayCrash = TRUE
INVARIANTS
  TypeOK
  ProtectedStages
  WholeActivation
  OkMeansAllServed
  KilledOnlyAfterFailure
PROPERTIES
  ImplementsWindow
  RunEnds
