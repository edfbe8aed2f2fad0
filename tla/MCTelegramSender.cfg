SPECIFICATION FairSpec
CONSTANTS
  MaxAlerts = 3
  Buffer = 2
  Batch = 2
  Room = 2
  Tries = 1
  SpoolLimit = 1
  MayMishear = TRUE
  MaxDeaths = 1
INVARIANTS Accounted OrderlyStopKeepsAll 
PROPERTIES NewestStay HeardAtLast
