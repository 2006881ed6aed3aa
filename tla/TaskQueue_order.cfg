SPECIFICATION Spec
CONSTANTS
  N = 3
  Hitl <- MCHitl3
  Ask <- MCAsk
  Deps <- MCDeps
  MaxTries = 2
  MaxJobs = 2
  Faults = {"crash", "timeout", "raise", "api", "redis"}
  MaxFaults = 1
  MaxDecisions = 2
  Overlap = FALSE
INVARIANTS PrefixDone
CHECK_DEADLOCK FALSE
