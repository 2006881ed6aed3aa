SPECIFICATION BatchSpec
CONSTANTS
  Job = {"t", "u"}
  MaxParallel = 3
  WorkerPool = 2
  MaxCalls = 2
  MaxPlan = 4
  MaxReboots = 1
INVARIANT RefusedHasCalled
CHECK_DEADLOCK FALSE
