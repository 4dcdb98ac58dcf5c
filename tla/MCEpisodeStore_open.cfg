SPECIFICATION MCSpec
CONSTANTS
  d1 = d1  d2 = d2  d3 = d3  p2 = p2  j2 = j2  diag = diag  plan = plan  judge = judge  rep = rep
  e1 = e1  e2 = e2  e3 = e3  dk1 = dk1  b1 = b1  restart = restart  inspect = inspect
  DedupeKeys = {dk1}
  Bundles = {b1}
  Sessions = {}
  CapOf <- MCCapOf
  Expired <- MCExpired
  Skills <- MCSkills
  ModesOf <- MCModesOf
  Rules = {rule}
  Ranks = {1, 2}
  MaxLag = 1
  None = None
  Starts = {"empty"}
  OpenModes = {"unknown"}
  Episodes = {e1, e2}
  Calls = {1, 2}
  Numbers = {}
  MaxRev = 2
  MaxFaults = 1
INVARIANTS RecordMatchesLog AuditCoversLog OneLivePerKey
PROPERTIES ImplementsLifecycle
CHECK_DEADLOCK FALSE
