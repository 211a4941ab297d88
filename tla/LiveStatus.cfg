SPECIFICATION Spec
CONSTANTS
  Tasks = {t1, t2}
  t1 = t1
  t2 = t2
  MaxChats = 2
  Stored = {1}
  MaxMsgs = 1
  MaxFiles = 2
  MaxTime = 2
  MinLogged = 2
  Telethon = Telethon
  None = None
CHECK_DEADLOCK FALSE
INVARIANTS
  FrameOfOneChat
  WaitsReported
PROPERTIES
  FrameDrawn
