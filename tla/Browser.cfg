SPECIFICATION FairBrowserSpec
CONSTANTS
  Searches = {s1, s2}
  Boot = s1
  Loads = {l1}
  MaxEvents = 2
  None = None
INVARIANTS
  NewestShown
  SessionOfResults
  RefreshIsDriven
PROPERTIES
  RevisionsAdvance
  RefreshEnds
CHECK_DEADLOCK FALSE
