SPECIFICATION ObservationFairSpec
CONSTANTS
  Rate = 1
  Recover = 3
  MaxDisturb = 1
INVARIANT TripsReported
PROPERTIES FindingsSettle PollingResumes
