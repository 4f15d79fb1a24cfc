SPECIFICATION Spec
CONSTANTS
  Searches = {s1}
  Clients = {c1}
  Keys = {k1}
  DefaultKey = k1
  Gyms = {g1}
  CacheTTL = 1
  SessionTTL = 1
  UpstreamTimeout = 1
  MaxTime = 1
  MaxCrashes = 0
  WriteFaults = FALSE
  ReadFaults = FALSE
  None = None
INVARIANTS
  CrossSourceOutranksBrand
CHECK_DEADLOCK FALSE
