SPECIFICATION Spec
CONSTANTS
  Transfers = {t1}
  Workers = {w1}
  Requests = {r1, r2}
  Sweeper = sweeper
  Persons = {p1, p2}
  RelayUsers = {u1}
  Nobody = nobody
  RowHasProject = TRUE
  MaxFaults = 0
  MaxGlitches = 0
SYMMETRY Symmetry
INVARIANTS
  ProcessedEventsTakeEffect
PROPERTIES
  ImplementsLifecycle
CHECK_DEADLOCK FALSE
