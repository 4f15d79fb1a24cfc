SPECIFICATION PagingSpec
CONSTANTS
  Ids = {1, 2, 3}
  NameOf <- PagingNames
  DistanceOf <- PagingDistances
  Around = {1, 2, 3}
  ScanOf <- PagingScan
  Levels = {1, 2}
  Limits = {1, 2}
  ReviewWindow = 2
  MaxPublished = 1
INVARIANT
  HasMoreExact
CHECK_DEADLOCK FALSE
