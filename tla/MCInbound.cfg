SPECIFICATION MCSpec
CONSTANTS
  Objects = {o1}
  Workers = {w1, w2}
  NoWorker = NoWorker
  MaxAttempts = 1
  MaxJobs = 2
  MaxTroubles = 1
  MaxFaults = 2
  MaxSubmits = 1
  KeptRows = 0
  Writers = {s1, s2}
  NoWriter = NoWriter
  MaxTickets = 4
  MaxToolDeaths = 1
SYMMETRY Symmetry
INVARIANTS
  SystemInv
  OneReleaserAtATime
  TrailIntact
  EveryChangeIsLogged
  AlarmsAreRaces
  BackupsRestore
  ServedDirectoryIsWhole
  AcceptedExportsAreHistories
PROPERTIES
  ImplementsLifecycle
  RecoveryForgetsNothing
CHECK_DEADLOCK FALSE
