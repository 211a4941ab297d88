SPECIFICATION FairSpec
CONSTANTS
  Procs = {p, q}
  p = p
  q = q
  MaxTakeout = 2
  MaxLogin = 2
  MaxFaults = 3
  None = None
  Junk = Junk
INVARIANTS
  TypeOK
  TakeoutKept
  NoLostWriter
  SessionKept
PROPERTIES
  ReusedWhileAlive
  BackupEmptied
