CONSTANTS
  None = None
  Procs = {p1, p2}
  Tasks = {t1}
  Repos = {r1, r2}
  Verbs = {"new", "add", "post-create", "rm"}
  Faults = {"build", "delete", "crash"}
  HasScript = TRUE
SYMMETRY Symmetry
SPECIFICATION Spec
INVARIANTS TypeOK StagedOwned
PROPERTY TreeTakenByOwner
