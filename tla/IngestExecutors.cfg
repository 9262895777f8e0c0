SPECIFICATION Spec
CONSTANTS
  None = None
  d1 = d1  p1 = p1  p2 = p2  c1 = c1  c2 = c2
  w1 = w1  w2 = w2  s1 = s1  s2 = s2
  Docs = {d1}
  Pages = {p1, p2}
  Configs = {c1}
  MaxSplits = 1
  MaxRetries = 2
  Workers = {w1, w2}
  Slots = {s1, s2}
  StableNames = TRUE
  Requests = {"parse"}
  MaxRequests = 1
  MaxCrashes = 0
  MaxFaults = 0
INVARIANTS
  DeliveryInv
  NoLostTask
  DoneDocCounted
PROPERTY
  ImplementsWorkQueue
CHECK_DEADLOCK FALSE
