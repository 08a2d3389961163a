SPECIFICATION Spec
CONSTANTS
  Transfers = {t1}
  Workers = {w1}
  Requests = {r1, r2}
  Sweeper = sweeper
  Persons = {person}
  RelayUsers = {u1}
  Nobody = nobody
  RowHasProject = TRUE
  MaxFaults = 0
  MaxGlitches = 0
PROPERTIES
  OnlyPendingTransfersAreCondemned
CHECK_DEADLOCK FALSE
