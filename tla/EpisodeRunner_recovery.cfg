SPECIFICATION FairSpec
CONSTANTS
  MaxBudget = 1
  BundleEvents = {"revoked", "drained", "corrupt"}
  CallsHang = TRUE
  MaxDisturb = 2
PROPERTIES RecoveryIsReportedNext
CHECK_DEADLOCK FALSE
