SPECIFICATION Spec
CONSTANTS
  File = {"a", "d/b"}
  Nested = {"d/b"}
  Size = {1, 2}
  Estimate = 2
  Limit = 7
  Elsewhere = 2
  Caller = {"client"}
  Can <- MCOne
  MaxStages = 3
  MaxFaults = 2
INVARIANTS CommittedComplete QuotaExact RolledBackClean
PROPERTY ClosedForGood
CHECK_DEADLOCK FALSE
