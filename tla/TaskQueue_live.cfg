SPECIFICATION FairSpec
CONSTANTS
  N = 3
  Hitl <- MCHitl3
  Ask <- MCAsk
  Deps <- MCDeps
  MaxTries = 2
  MaxJobs = 2
  Faults = {}
  MaxFaults = 0
  MaxDecisions = 2
  Overlap = FALSE
INVARIANTS SingleActive
PROPERTY Settles
CHECK_DEADLOCK FALSE
