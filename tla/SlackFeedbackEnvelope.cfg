SPECIFICATION ReplaySpec
CONSTANTS
  Policies <- MCGovernor
  Epochs = 12
  PeriodMs = 200
  ResidentGuard <- MCResidentGuard
  BorrowerGuard <- MCBorrowerGuard
INVARIANT CalibratedEnvelope
