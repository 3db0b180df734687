\* A child that dies before it is ready, and nothing else goes wrong.
SPECIFICATION FairSpec
CONSTANTS
  Total = 2
  GateCount = 1
  GateMayExit = FALSE
  MayThrow = FALSE
  MayCrash = TRUE
PROPERTIES
  LostChildIsNoticed
