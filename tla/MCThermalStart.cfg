\* The four drivers, two attempts and blocks; a unit is a third of the staleness limit.
SPECIFICATION FairSpec
CONSTANTS
  Drivers = {"governor", "calibration", "guard"}
  MaxAttempts = 2
  MaxBlocks = 2
  Endpoints = 3
  Stale = 3
  HandoffMax = 10
  Latest <- MCLatest
  Horizon = 16
INVARIANTS
  TypeOK
  StartIsQualified
  MeasuredAlone
  ReplayAccepts
PROPERTIES
  RunEnds
