SPECIFICATION Spec
CONSTANTS
  Ingests = {i1, i2}
  Readers = {}
  MaxVersion = 2
  MaxCrashes = 0
  BuildFaults = FALSE
  None = None
SYMMETRY ActorSymmetry
INVARIANTS
  ManifestNamesIndex
