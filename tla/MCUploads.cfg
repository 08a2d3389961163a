SPECIFICATION MCSpec
CONSTANTS
  Uploads = {u1}
  Parts = {p1, p2}
  Versions = {v1, v2}
  Original = v1
  NoContent = NoContent
  Clients = {c1, c2}
  Sweeper = sweeper
  Main = main
  MaxIds = 2
  MaxFaults = 2
  Tickets = {1, 2, 3}
  Owners = {alice, bob}
  Admitters = {a1, a2}
  Sizes = {1, 2}
  Capacity = 5
  MinFree = 1
  ActiveLimit = 2
  StagedLimit = 2
  MaxInFlight = 1
SYMMETRY Symmetry
INVARIANTS
  SessionInv
  PartsOnRecord
  NoOrphanTargets
  StagingReclaimed
  EnqueuedOnlyAfterFinalized
  AdmissionHolds
PROPERTIES
  ImplementsLifecycle
CHECK_DEADLOCK FALSE
