SPECIFICATION StoreSpec
CONSTANTS
  Ingests = {i1}
  Readers = {r1, r2}
  MaxVersion = 2
  MaxCrashes = 0
  BuildFaults = FALSE
  None = None
  Recheck = 0
  MaxTime = 1
INVARIANTS
  QueriesServed
