SPECIFICATION FairSpec
CONSTANTS
  MaxId = 5
  InitTop = 2
  Kept = {1, 3, 4, 5}
  Deletable = {2}
  BatchSize = 2
  PageSize = 2
  DateFroms = {0}
  DateTos = {5}
  Faults = {"signal", "delete"}
  MaxFaults = 3
PROPERTIES
  PagesShowDatabase
  EventuallyShown
