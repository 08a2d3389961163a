SPECIFICATION SystemSpec
CONSTANTS
  Objects = {o1}
  Workers = {w1, w2}
  NoWorker = NoWorker
  MaxAttempts = 1
  MaxJobs = 2
  MaxTroubles = 0
  MaxFaults = 0
  MaxSubmits = 1
  KeptRows = 0
INVARIANTS
  PendingObjectsHaveAJob
CHECK_DEADLOCK FALSE
