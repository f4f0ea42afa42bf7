SPECIFICATION FairSpec
CONSTANTS
  Producers = {p1}
  Io = io
  Maint = maint
  Pool = pool
  Acceptors = {io, maint}
  Messages = {m1, m2}
  NoMsg = NoMsg
  Units = 2
  MaxPending = 0
  SliceQuota = 2
  ReadCost = 1
  Header = 2
  MaxShutDown = 1
  Configs <- McConfigs
CHECK_DEADLOCK FALSE
INVARIANTS
  QueueExact
  NoLostWakeup
  FramesExact
PROPERTY AcceptedIsSent
