SPECIFICATION FairSpec
CONSTANTS
  MaxBudget = 1
  BundleEvents = {"revoked", "drained", "corrupt"}
  CallsHang = TRUE
  MaxDisturb = 2
INVARIANTS ReportFollowsPass WaitingIsReported RetriesBounded
PROPERTIES RecoverySkipsPlanning ReachesOperator ClosureEnds
CHECK_DEADLOCK FALSE
