CONSTANTS
  MaxCnt = 1
SPECIFICATION FairSpec
PROPERTIES
  AlwaysEnds
CHECK_DEADLOCK FALSE
