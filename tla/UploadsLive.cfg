SPECIFICATION FairSpec
CONSTANTS
  Uploads = {u1}
  Parts = {p1}
  Versions = {v1, v2}
  Original = v1
  NoContent = NoContent
  Clients = {c1, c2}
  Sweeper = sweeper
  Main = main
  MaxIds = 2
  MaxFaults = 1
PROPERTIES
  DueSessionsClose
  RegisteredIsEnqueued
CHECK_DEADLOCK FALSE
