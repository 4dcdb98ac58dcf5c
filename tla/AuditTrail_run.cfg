SPECIFICATION Spec
CONSTANTS
  Threads = {t1, t2}
  Anchorers = {loop, rpc}
  MaxBuffer = 2
  MaxSubmits = 4
  MaxLines = 4
  MaxFaults = 2
  WriteErrors = TRUE
  None = None
SYMMETRY Symmetry
CONSTRAINT Bounded
INVARIANTS FlushedInOrder NothingForgotten AckedIsDurable NoFalseAlarm
CHECK_DEADLOCK FALSE
