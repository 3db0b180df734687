\* All modes of the ring: faults, device failures, crashes, timeouts.
SPECIFICATION Spec
CONSTANTS
  Requests = 5
  FailAfters <- MCFailAfters
  DeviceMayFail = TRUE
  ChildMayCrash = TRUE
INVARIANTS
  TypeOK
  VerifiesItsTicket
  OkMeansDelivered
  FaultOkMeansRecovered
PROPERTIES
  SlotsTurnOver
  ImplementsHandoff
  RunEnds
