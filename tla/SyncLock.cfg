SPECIFICATION FairSpec
CONSTANTS
  w1 = w1  w2 = w2  v1 = v1
  MaxSyncs = 2
  Workers = {w1}
  Viewers = {v1}
  QueueDepth = 1
  MaxCrashes = 1
  MaxFaults = 1
  MaxPending = 1
INVARIANTS
  LockInv
  OneSync
  LoggedWhenOver
PROPERTY
  HeardSyncEnds
CHECK_DEADLOCK FALSE
