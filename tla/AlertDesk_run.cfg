SPECIFICATION DeskFairSpec
CONSTANTS
  Calls = {c1, c2}
  Keyed = {c1, c2}
  NeedsAck = {c1, c2}
  Critical = {}
  MaxPerHour = 1
  AuditErrors = TRUE
  MaxFaults = 2
INVARIANTS AlertedOnce AckSilences
PROPERTY UnackedIsEscalated
CHECK_DEADLOCK FALSE
