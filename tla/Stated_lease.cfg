SPECIFICATION Spec
CONSTANTS
  N = 2
  Hitl <- MCHitl2
  Ask <- MCAsk
  Deps <- MCDeps
  MaxTries = 2
  MaxJobs = 2
  Faults = {}
  MaxFaults = 0
  MaxDecisions = 1
  Overlap = FALSE
PROPERTY ExecutingNotSwept
CHECK_DEADLOCK FALSE
