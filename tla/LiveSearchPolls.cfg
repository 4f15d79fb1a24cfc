SPECIFICATION FairSpec
CONSTANTS
  Searches = {s1}
  Clients = {c1, c2}
  Keys = {k1}
  DefaultKey = k1
  Gyms = {g1}
  CacheTTL = 1
  SessionTTL = 2
  UpstreamTimeout = 1
  MaxTime = 4
  MaxCrashes = 1
  WriteFaults = TRUE
  ReadFaults = FALSE
  None = None
INVARIANTS
  StoredSessionsCoherent
  ProvenanceSupported
PROPERTIES
  SessionsKeptUntilExpiry
  AnswersNeverRegress
  ImplementsContract
  EnrichmentSettles
CHECK_DEADLOCK FALSE
