SPECIFICATION Spec
CONSTANTS
  p = p
  q = q
  x = x
  y = y
  None = None
  Content = {x, y}
  Client = {p, q}
  MaxOperations = 3
  MaxStoreFaults = 1
  Uploader = {p, q}
  Chunks = 2
  MaxUploads = 2
  MaxInits = 3
  Caller = {p, q}
  Large = {}
  Keep = 2
  MaxVersion = 4
  MaxCalls = 4
  MaxVersionFaults = 1
  Block = 2
  MaxPlain = 5
  Server = {p, q}
  Row = {"r"}
  Process = {p, q}
  MaxPinned = 1
  MaxJobs = 3
  MaxTicks = 3
  MaxTierFaults = 1
  Instance = {p, q}
  Owner = {"o"}
  Switch = {x, y}
  MaxWrites = 2
  MaxGovFaults = 1
  Sizes = {2, 3, 4}
  Workers = 2
  RangeRetry = 2
  MaxRestart = 1
  MaxReplaced = 2
  MaxDownloads = 2
  MaxDownloadFaults = 1
  Part = {p, q}
  MaxChanges = 2
  MaxGets = 2
  MaxFaults = 1
SYMMETRY Symmetric
INVARIANTS StorageTypeOK DeclaredIsStored AvailableIsReadable StreamsFaithful KeysSuffice RestoreOnce CachesSettle WholeOrError PageCatchesUp
PROPERTIES StoreImplemented SerialVersions
CHECK_DEADLOCK FALSE
