SPECIFICATION Spec
CONSTANTS
  x1 = x1  x2 = x2
  Docs = {x1, x2}
  QueryReturns = {"select", "list"}
  Starts = {2}
  Checkpointed = FALSE
  MaxSyncs = 2
  MaxClock = 3
  MaxFaults = 1
INVARIANTS
  CopyInv
  CursorCovers
PROPERTY
  KeepsPresent
SYMMETRY
  Symmetry
CHECK_DEADLOCK FALSE
