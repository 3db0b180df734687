SPECIFICATION ReplaySpec
CONSTANTS
  Policies = {"static-mig", "resident-full-gate", "same-mig", "uncoordinated-borrow", "fixed-borrow", "fixed-full-gate", "mig-governor"}
  Epochs = 48
  PeriodMs = 200
  ResidentGuard <- MCResidentGuard
  BorrowerGuard <- MCBorrowerGuard
INVARIANTS
  TypeOK
  EpochServesItsTenants
  ReclaimReachesFloor
  StartupCheckCovers
PROPERTIES
  RecoveryIsEarned
  SummaryReplaysRun
