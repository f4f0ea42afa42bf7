SPECIFICATION Spec
CONSTANTS
  Workers = {w1}
  Stoppable = {w1}
  PoolThreads = {t1}
  Callbacks = {}
  Awaits = {a1}
  NoJob = NoJob
  NoWorker = NoWorker
INVARIANT ContinuedOnce
