SPECIFICATION Spec
CONSTANTS
  x1 = x1  x2 = x2
  Docs = {x1}
  QueryReturns = {"list"}
  Starts = {2}
  Checkpointed = FALSE
  MaxSyncs = 2
  MaxClock = 3
  MaxFaults = 1
PROPERTY
  SyncsComplete
CHECK_DEADLOCK FALSE
