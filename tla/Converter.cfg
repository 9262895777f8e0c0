SPECIFICATION FairSpec
CONSTANTS
  j1 = j1  f1 = f1  f2 = f2  w1 = w1  w2 = w2  None = None
  Jobs = {j1}
  Files = {f1, f2}
  JobOf <- MCJobOf
  Workers = {w1, w2}
  MaxFaults = 1
INVARIANTS
  ConverterInv
  CountsAddUp
PROPERTIES
  ResultStays
  FilesEnd
CHECK_DEADLOCK FALSE
