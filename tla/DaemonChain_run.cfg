SPECIFICATION FairSpec
CONSTANTS
  MaxLines = 4
  Replaced = TRUE
  Strays = TRUE
  WriteErrors = TRUE
  CallsHang = TRUE
  MaxFaults = 3
INVARIANTS NoFalseAlarm
PROPERTIES RecordedExtends LossIsReported
CHECK_DEADLOCK FALSE
