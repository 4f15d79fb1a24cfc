SPECIFICATION JobsSpec
CONSTANTS
  Ingests = {j1, j2}
  Readers = {r1}
  MaxVersion = 2
  MaxCrashes = 1
  BuildFaults = TRUE
  DbFaults = TRUE
  FsReceipts = TRUE
  None = None
SYMMETRY JobSymmetry
INVARIANTS
  SucceededIndexed
  AnswerAgreesWithFile
  IndexNotOlder
  OneBuilder
PROPERTIES
  CurrentIndexKept
