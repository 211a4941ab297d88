SPECIFICATION Spec
CONSTANTS
  MaxId = 4
  InitTop = 2
  Kept = {1, 2, 3, 4}
  Deletable = {}
  BatchSize = 2
  PageSize = 2
  DateFroms = {0, 4}
  DateTos = {4}
  Faults = {}
  MaxFaults = 0
INVARIANTS
  NothingKeptLost
