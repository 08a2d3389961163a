SPECIFICATION FairSpec
CONSTANTS
  Transfers = {t1}
  Workers = {w1}
  Requests = {r1}
  Sweeper = sweeper
  Persons = {person}
  RelayUsers = {u1}
  Nobody = nobody
  RowHasProject = TRUE
  MaxFaults = 1
  MaxGlitches = 1
INVARIANTS
  TransferInv
PROPERTIES
  ClassifiedSettles
  ApprovedSettles
CHECK_DEADLOCK FALSE
