SPECIFICATION FairSpec
CONSTANTS
  NRules = 2
  W = 2
  MaxFaults = 2
  CallsHang = TRUE
INVARIANTS ResolvedOnRecovery
PROPERTIES RecoveryResolves DeadlineEscalates
CHECK_DEADLOCK FALSE
