SPECIFICATION Spec
CONSTANTS
  Chats = 1
  Messages = 1
  Limit = 1
  Sections = {}
  Broken = 0
  MaxSignals = 1
  MaxFaults = 0
INVARIANT InterruptedNonZero
