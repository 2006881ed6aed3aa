SPECIFICATION Spec
CONSTANTS
  Path = {p1, p2}
  Content = {x}
  None = None
  Caller = {r1, r2, gc}
  Gc = {gc}
  Limits <- MCLimits
  MaxUploads = 2
  MaxFaults = 1
SYMMETRY Symmetric
INVARIANTS TypeOK CountsExact QuotaFollowsRows CountsCover
PROPERTY Reconciled
CHECK_DEADLOCK FALSE
