SPECIFICATION ObservationFairSpec
CONSTANTS
  Rate = 1
  Recover = 3
  MaxDisturb = 0
PROPERTY PollingNotStarved
