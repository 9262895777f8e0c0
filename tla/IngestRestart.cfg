SPECIFICATION Spec
CONSTANTS
  None = None
  d1 = d1  p1 = p1  p2 = p2  c1 = c1  c2 = c2
  w1 = w1  w2 = w2  s1 = s1  s2 = s2
  Docs = {d1}
  Pages = {p1}
  Configs = {c1}
  MaxSplits = 2
  MaxRetries = 2
  Workers = {w1, w2}
  Slots = {s1}
  StableNames = TRUE
  Requests = {"parse"}
  MaxRequests = 2
  MaxCrashes = 1
  MaxFaults = 0
INVARIANTS
  OneRunner
  NoLostTask
  RowsIndexed
SYMMETRY
  Symmetry
CHECK_DEADLOCK FALSE
