SPECIFICATION FairSpec
CONSTANTS
  FileSizes = {3, 7, 13, 16}
  PartSizes <- SmallPartSizes
  MaxParts = 5
  SmallUpTo = 2
  MediumUpTo = 8
  BigFrom = 3
  MinWidth = 2
  MaxWidth = 3
  Room = 4
  FastLoad = 3
  Attempts = 2
  None = None
  MaxFaults = 2
CHECK_DEADLOCK FALSE
INVARIANTS
  PartsInOnePlace
  DoneIsWhole
  PoolInOrder
PROPERTIES
  UploadEnds
