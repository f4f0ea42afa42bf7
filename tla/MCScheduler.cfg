SPECIFICATION FairSpec
CONSTANTS
  Workers = {w1, w2}
  Stoppable = {w2}
  PoolThreads = {t1}
  Callbacks = {k1}
  Awaits = {a1}
  NoJob = NoJob
  NoWorker = NoWorker
INVARIANTS
  PendingCountExact
  ReturnAfterResult
PROPERTY JobReturns
