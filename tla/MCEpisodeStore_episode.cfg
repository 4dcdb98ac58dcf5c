SPECIFICATION MCSpec
CONSTANTS
  d1 = d1  d2 = d2  d3 = d3  p2 = p2  j2 = j2  diag = diag  plan = plan  judge = judge  rep = rep
  e1 = e1  e2 = e2  e3 = e3  dk1 = dk1  b1 = b1  restart = restart  inspect = inspect
  DedupeKeys = {dk1}
  Bundles = {b1}
  Sessions = {d1, d2, d3, p2, j2, diag, plan, judge, rep}
  CapOf <- MCCapOf
  Expired <- MCExpired
  Skills <- MCSkills
  ModesOf <- MCModesOf
  Rules = {rule}
  Ranks = {1}
  MaxLag = 1
  None = None
  Starts = {"diagnosing", "replanning", "reporting"}
  OpenModes = {"tower"}
  Episodes = {e1, e2, e3}
  Calls = {1}
  Numbers = {1, 2}
  MaxRev = 12
  MaxFaults = 0
INVARIANTS TypeOK TransitionsAreCAS KeysNameOneRow
           VerdictJudgesStandingArtefact TerminalIsFinal RevocationStopsAgents
CHECK_DEADLOCK FALSE
