SPECIFICATION Spec
CONSTANTS
  None = None
  n1 = n1  n2 = n2  n3 = n3  n4 = n4
  r1 = r1  r2 = r2  s1 = s1  s2 = s2  w1 = w1
  Nodes = {n1, n2, n3, n4}
  Graphs <- ChainOnly
  Runs = {r1}
  Servers = {s1}
  Workers = {w1}
  MaxCancels = 0
  MaxCrashes = 0
  MaxFaults = 0
INVARIANTS
  AnswersHeard
CHECK_DEADLOCK FALSE
