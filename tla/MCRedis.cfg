SPECIFICATION Spec
CONSTANTS
  PoolSize = 2
  Requests = {1, 2}
  DbIndex = 0
INVARIANTS
  ConnectFailsForCause
CHECK_DEADLOCK FALSE
