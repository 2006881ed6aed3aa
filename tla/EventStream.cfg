SPECIFICATION FairSpec
CONSTANTS
  Emitter = {e1, e2}
  Client = {u}
  MaxEvents = 3
  MaxJobs = 2
  MaxOpens = 2
  MaxRevokes = 1
  MaxFaults = 1
INVARIANT TypeOK
PROPERTIES ConnectionInOrder RevokedHearsNothing Delivered
CHECK_DEADLOCK FALSE
