\* Five requests through one and three slots, two gate processes, everything fails.
SPECIFICATION FairSpec
CONSTANTS
  Total = 5
  GateCount = 2
  GateMayExit = TRUE
  MayThrow = TRUE
  MayCrash = TRUE
INVARIANTS
  TypeOK
  WholeActivation
  EncodesAlone
  GatesReleased
  OkMeansAllDecoded
  NoCircularWait
PROPERTIES
  ImplementsWindow
  EveryPauseEnds
  StepsRunOut
  RunEnds
