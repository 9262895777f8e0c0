SPECIFICATION FairSpec
CONSTANTS
  None = None
  n1 = n1  n2 = n2  n3 = n3  n4 = n4
  r1 = r1  r2 = r2  s1 = s1  s2 = s2  w1 = w1
  Nodes = {n1, n2, n3, n4}
  Graphs <- AllGraphs
  Runs = {r1}
  Servers = {s1, s2}
  Workers = {w1}
  MaxCancels = 2
  MaxCrashes = 1
  MaxFaults = 1
INVARIANTS
  WalkInv
  WholeGraphRuns
  RunSettled
PROPERTIES
  WalkEnds
  ImplementsGraphWalk
CHECK_DEADLOCK FALSE
