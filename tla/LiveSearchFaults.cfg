SPECIFICATION Spec
CONSTANTS
  Searches = {s1, s2}
  Clients = {c1}
  Keys = {k1}
  DefaultKey = k1
  Gyms = {}
  CacheTTL = 1
  SessionTTL = 1
  UpstreamTimeout = 1
  MaxTime = 3
  MaxCrashes = 1
  WriteFaults = TRUE
  ReadFaults = TRUE
  None = None
SYMMETRY SearchSymmetry
INVARIANTS
  TypeOK
  PendingHasWorker
  OutcomesAccounted
  SkippedDataAgeBounded
CHECK_DEADLOCK FALSE
