\* One governor whose telemetry has nothing odd.
SPECIFICATION Spec
CONSTANTS
  Drivers = {"governor"}
  MaxAttempts = 1
  MaxBlocks = 1
  Endpoints = 1
  Stale = 3
  HandoffMax = 10
  Latest <- MCLatest
  Horizon = 16
INVARIANTS
  AcceptedRunIsSummarised
