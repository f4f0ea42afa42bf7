SPECIFICATION Spec
CONSTANTS
  w1 = w1
  w2 = w2
  p1 = p1
  Threads = {w1, w2}
  Workers = {w1, w2}
  Subscribers = {w2}
  Processes = {p1}
  ProcessOf <- SameProcess
  IndexOf <- IndexOneTwo
  Requests = {1, 2}
  Callbacks = {1}
  CallerOf <- CallEach
  Subjects <- QSubject
  Patterns <- QPatterns
  MaxCalls = 2
INVARIANTS
  RequestTablesExact
  DeliveredToOwner
PROPERTIES
  ResultOnce
  WorkerRequestEnds
