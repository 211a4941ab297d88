\* One probe without an answer is enough.
SPECIFICATION Spec
CONSTANTS
  Procs = {p}
  p = p
  MaxTakeout = 2
  MaxLogin = 1
  MaxFaults = 1
  None = None
  Junk = Junk
INVARIANTS
  NeverDiscarded
