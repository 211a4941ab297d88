SPECIFICATION FairSpec
CONSTANTS
  MaxMsg = 4
  InitMark = 1
  Own = {3}
  ShowOutgoing = FALSE
  CatchupLimit = 2
  TitleKnown = FALSE
  Faults = {"disconnect", "askfail", "stop", "kill"}
  MaxFaults = 3
INVARIANTS
  TypeOK
  LossAccountedFor
  CaughtUp
  RepeatsAccountedFor
PROPERTIES
  EventuallyHanded
CHECK_DEADLOCK FALSE
