SPECIFICATION FairSpec
CONSTANTS
  MaxLines = 4
  Replaced = TRUE
  Strays = FALSE
  WriteErrors = FALSE
  CallsHang = FALSE
  MaxFaults = 3
PROPERTIES TruncationIsReported
CHECK_DEADLOCK FALSE
