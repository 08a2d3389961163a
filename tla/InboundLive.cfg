SPECIFICATION FairSystemSpec
CONSTANTS
  Objects = {o1}
  Workers = {w1}
  NoWorker = NoWorker
  MaxAttempts = 2
  MaxJobs = 3
  MaxTroubles = 2
  MaxFaults = 3
  MaxSubmits = 1
  KeptRows = 1
PROPERTIES
  ScansEnd
  DueObjectsExpire
CHECK_DEADLOCK FALSE
