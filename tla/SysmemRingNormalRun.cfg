\* A run with nothing injected: no fault, no device failure, no crash.
SPECIFICATION Spec
CONSTANTS
  Requests = 5
  FailAfters <- MCNever
  DeviceMayFail = FALSE
  ChildMayCrash = FALSE
INVARIANT
  NormalRunCompletes
