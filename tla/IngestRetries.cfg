SPECIFICATION FairSpec
CONSTANTS
  None = None
  d1 = d1  p1 = p1  p2 = p2  c1 = c1  c2 = c2
  w1 = w1  w2 = w2  s1 = s1  s2 = s2
  Docs = {d1}
  Pages = {p1}
  Configs = {c1}
  MaxSplits = 3
  MaxRetries = 1
  Workers = {w1}
  Slots = {s1}
  StableNames = TRUE
  Requests = {"parse"}
  MaxRequests = 1
  MaxCrashes = 2
  MaxFaults = 0
INVARIANTS
  TypeOK
  RetriesBounded
PROPERTY
  ParseSettles
CHECK_DEADLOCK FALSE
