SPECIFICATION StoreFairSpec
CONSTANTS
  Ingests = {i1}
  Readers = {r1, r2}
  MaxVersion = 1
  MaxCrashes = 1
  BuildFaults = FALSE
  None = None
  Recheck = 0
  MaxTime = 1
INVARIANTS
  ServedFresh
  SnapshotLockAtWork
PROPERTIES
  ImplementsReadModel
  QueriesEnd
