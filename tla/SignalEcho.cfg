CONSTANTS
  MaxCnt = 4
SPECIFICATION FairSpec
INVARIANTS
  TypeOK
  OneInFlight
  ChildCountsAll
  ParentCountsAll
PROPERTIES
  EndsUnlessEarly
CHECK_DEADLOCK FALSE
