SPECIFICATION FairSpec
CONSTANTS
  File = {"a", "d/b"}
  Nested = {"d/b"}
  Size = {1, 2}
  Estimate = 2
  Limit = 4
  Elsewhere = 0
  Caller = {"client", "other"}
  Can <- MCShared
  MaxStages = 2
  MaxFaults = 1
INVARIANTS TypeOK VisibleHasObject
PROPERTY NeverStuckOpen
CHECK_DEADLOCK FALSE
