SPECIFICATION Spec
CONSTANTS
  Transfers = {t1}
  Workers = {w1}
  Requests = {r1}
  Sweeper = sweeper
  Persons = {person}
  RelayUsers = {u1}
  Nobody = nobody
  RowHasProject = TRUE
  MaxFaults = 1
  MaxGlitches = 0
INVARIANTS
  InterruptedPromotionsAreRetried
CHECK_DEADLOCK FALSE
