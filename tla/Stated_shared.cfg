SPECIFICATION Spec
CONSTANTS
  Path = {p1, p2}
  Content = {x}
  None = None
  Caller = {request, gc}
  Gc = {gc}
  Limits <- MCLimits
  MaxUploads = 2
  MaxFaults = 0
SYMMETRY Symmetric
PROPERTY SharedSurvives
CHECK_DEADLOCK FALSE
