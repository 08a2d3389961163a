SPECIFICATION Spec
CONSTANTS
  Transfers = {t1}
  Workers = {w1}
  Requests = {r1}
  Sweeper = sweeper
  Persons = {person}
  RelayUsers = {u1}
  Nobody = nobody
  RowHasProject = FALSE
  MaxFaults = 0
  MaxGlitches = 0
INVARIANTS
  SubmissionsReachTheRelay
CHECK_DEADLOCK FALSE
