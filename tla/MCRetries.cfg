SPECIFICATION MCSpec
CONSTANTS
  Objects = {o1, o2}
  Workers = {w1, w2}
  NoWorker = NoWorker
  MaxAttempts = 2
  MaxJobs = 2
  MaxFaults = 2
  Sessions = {s1, s2, s3, s4}
  Chunks = {k1, k2}
  Contents = {a, b}
  NoNote = NoNote
  NoChunk = NoChunk
  MaxEdits = 1
  MaxMishaps = 2
  Short = {r1, r2}
  Long = {r3}
  NoRemote = NoRemote
  MaxInodes = 4
  MaxCommands = 2
  MaxDeaths = 2
INVARIANTS
  ExclusiveHandling
  ReportedIsTheFile
  UploadedOnce
  DeliveredIsIntact
PROPERTIES
  OnlyTheOwnerFinishes
  ImplementsWorkQueue
  JobsFinish
  UploadsEnd
  DownloadsEnd
CHECK_DEADLOCK FALSE
