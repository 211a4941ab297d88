SPECIFICATION FairSpec
CONSTANTS
  MaxId = 5
  InitTop = 2
  Kept = {1, 3, 4, 5}
  Deletable = {2, 3}
  BatchSize = 2
  PageSize = 2
  DateFroms = {0, 3}
  DateTos = {3, 5}
  Faults = {"signal", "force", "fail", "kill", "delete", "reset", "purge"}
  MaxFaults = 2
INVARIANTS
  TypeOK
  NothingLost
PROPERTIES
  CountHonest
  ProgressKept
  ImplementsArchive
  CleanRunComplete
  EventuallyStored
