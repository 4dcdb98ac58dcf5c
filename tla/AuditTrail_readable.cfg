SPECIFICATION Spec
CONSTANTS
  Threads = {t1, t2}
  Anchorers = {}
  MaxBuffer = 1
  MaxSubmits = 2
  MaxLines = 2
  MaxFaults = 1
  WriteErrors = FALSE
  None = None
INVARIANT AckedIsReadable
CHECK_DEADLOCK FALSE
