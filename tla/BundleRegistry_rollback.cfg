SPECIFICATION Spec
CONSTANTS
  Bundles = {A, B, C}
  Retired = {C}
  Fragile = {A}
  Admins = {a1}
  Episodes = {e1}
  Deadline = 1
  MaxClock = 3
  MaxCommands = 3
  Crashes = FALSE
  None = None
PROPERTY DrainsOldBundlesOnly
CHECK_DEADLOCK FALSE
