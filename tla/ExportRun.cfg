SPECIFICATION FairSpec
CONSTANTS
  Chats = 2
  Messages = 2
  Limit = 2
  Sections = {"contacts", "stories"}
  Broken = 2
  MaxSignals = 3
  MaxFaults = 1
INVARIANTS TypeOK HonestExit WalkLeavesNothing
PROPERTIES StopRespected EndsAfterForce
