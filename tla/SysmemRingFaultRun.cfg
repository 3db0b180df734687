\* The consumer-death control of the smoke script, nothing else goes wrong.
SPECIFICATION Spec
CONSTANTS
  Requests = 5
  FailAfters = {1}
  DeviceMayFail = FALSE
  ChildMayCrash = FALSE
INVARIANT
  FaultOkReclaimsAll
