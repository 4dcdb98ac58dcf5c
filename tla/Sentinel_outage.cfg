SPECIFICATION FairSpec
CONSTANTS
  Samples = 2
  Declared = "tower"
  TowerMax = 2
  AlpenglowMin = 2
  Versions = {1, 2, 3}
  MaxFaults = 0
  MaxClosed = 0
PROPERTIES OutageHasEpisode
