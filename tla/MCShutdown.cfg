SPECIFICATION FairShutdown
CONSTANTS
  MainWorker = m
  w1 = w1
  NormalSeq <- OneNormal
  Main = main
  SignalThreads = {s1}
  IoThreads = {io1}
  PoolThreads = {t1}
  Messages = {x1}
  Jobs = {j1}
  Cleanup = Cleanup
  NoJob = NoJob
  Nobody = Nobody
  Forcing = TRUE
CHECK_DEADLOCK FALSE
INVARIANTS
  PhasesOnceInOrder
  PoolPostsBeforeMode
PROPERTIES
  ShutdownCompletes
  WorkersExit
