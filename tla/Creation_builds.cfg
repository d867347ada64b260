CONSTANTS
  N = 2
  MaxEvents = 2
  MaxClock = 1
  Faults = {"step", "undo", "crash"}
  Moves = {"developer", "agents", "tree", "doctor"}
SPECIFICATION Spec
INVARIANTS TypeOK Restored RecordIsBuilt SliceOfTime
PROPERTIES ForeseenSpared KeepsPromise
CHECK_DEADLOCK FALSE
