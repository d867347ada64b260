CONSTANTS
  Works = {w1}
  N = 2
  Moves = {"switch", "back", "wipe", "reuse", "close"}
  Faults = {"check", "prune", "keep", "delete", "crash"}
SPECIFICATION Spec
CHECK_DEADLOCK FALSE
INVARIANT TypeOK
PROPERTIES NothingLost ForeignSpared BranchKept
