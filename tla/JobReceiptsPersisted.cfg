SPECIFICATION JobsSpec
CONSTANTS
  Ingests = {j1}
  Readers = {}
  MaxVersion = 2
  MaxCrashes = 0
  BuildFaults = FALSE
  DbFaults = FALSE
  FsReceipts = TRUE
  None = None
INVARIANTS
  ReceiptPersisted
CHECK_DEADLOCK FALSE
