SPECIFICATION FairSpec
CONSTANTS
  Bundles = {A, B}
  Retired = {}
  Fragile = {B}
  Admins = {a1, a2}
  Episodes = {e1}
  Deadline = 1
  MaxClock = 3
  MaxCommands = 3
  Crashes = TRUE
  None = None
PROPERTIES DrainNotEarly OldBundlesEnd
CHECK_DEADLOCK FALSE
