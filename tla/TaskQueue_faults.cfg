SPECIFICATION Spec
CONSTANTS
  N = 2
  Hitl <- MCHitl2
  Ask <- MCAsk
  Deps <- MCDeps
  MaxTries = 2
  MaxJobs = 2
  Faults = {"crash", "timeout", "raise", "api", "redis"}
  MaxFaults = 2
  MaxDecisions = 2
  Overlap = TRUE
INVARIANTS TypeOK GateNeedsApproval
PROPERTIES ReopenNeedsReject ImplementsLifecycle
CHECK_DEADLOCK FALSE
