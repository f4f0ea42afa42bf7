SPECIFICATION FairSpec
CONSTANTS
  Workers = {w1}
  Stoppable = {w1}
  IoThreads = {io1}
  Calls = {c1, c2}
  Handles = {h1, h2}
  NoCall = NoCall
  NoHandle = NoHandle
  NoWorker = NoWorker
  MaxSeq = 2
  MaxReplies = 2
INVARIANTS
  CallbackAtMostOnce
  OutcomeMatchesState
  ResponseReachesItsCall
  PendingMapExact
  HandleExclusive
PROPERTY EveryCallEnds
