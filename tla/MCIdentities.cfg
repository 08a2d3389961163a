CONSTANTS
  Names = {alice}
  NoName = nobody
  Threads = {t1, t2}
  BootstrapAdmins = {}
  FallbackAdmins = {alice}
  FailureLimit = 1
  MaxPerUser = 1
  MaxPasswords = 2
  MaxSessions = 2
  MaxTokens = 1
SPECIFICATION Spec
SYMMETRY Symmetry
INVARIANTS
  NoStaleCredential
  NoSessionOutlivesItsGrounds
  SessionCap
  TokensDieWithTheirOwner
  FailuresBounded
CHECK_DEADLOCK FALSE
