CONSTANTS
  N = 1
  MaxEvents = 1
  MaxClock = 1
  Faults = {}
  Moves = {"developer"}
SPECIFICATION Spec
INVARIANT FetchBringsBase
CHECK_DEADLOCK FALSE
