SPECIFICATION FairSpec
CONSTANTS
  Operator = {"u"}
  MaxThaws = 2
  MaxItems = 2
  MaxRetry = 1
  Monitor = {"p", "q"}
  MaxFlips = 3
  NotifyCap = 1
  MaxSendFaults = 1
  Member = {"p", "q"}
  MaxStarts = 2
  MaxBeatFaults = 3
  Run = {"r", "s", "t"}
  Priority = {0, 2}
  QuotaHi = 1
  QuotaMid = 1
  QuotaLo = 1
  QuotaPublic = 0
  MaxConcurrency = 4
  MaxRetries = 1
  MaxRunCalls = 1
  Plugin = {"x"}
  Author = "a"
  Server = {"p", "q"}
  Agent = {}
  Job = {"t"}
  MaxParallel = 3
  WorkerPool = 2
  MaxCalls = 2
  MaxPlan = 4
  MaxReboots = 1
  Comment = {"c", "d"}
  MaxComments = 2
  MaxRevision = 2
  MaxIter = 2
  LoopPenalty = 2
  MaxCrashes = 1
INVARIANTS ServicesTypeOK AliveIsListed PassedIsRecorded
PROPERTIES EverythingEnds  BlacklistedIsOff
CHECK_DEADLOCK FALSE
