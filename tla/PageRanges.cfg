SPECIFICATION Spec
CONSTANT
  Configs <- MCConfigs
INVARIANTS
  RangesInv
  EachPageOnce
  PiecesFit
CHECK_DEADLOCK FALSE
