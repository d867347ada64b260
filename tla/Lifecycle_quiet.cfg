CONSTANTS
  None = None
  Procs = {p1, p2}
  Tasks = {t1, t2}
  Repos = {r1, r2}
  Verbs = {"new", "add", "post-create", "rm"}
  Faults = {"build", "refresh"}
  HasScript = FALSE
SYMMETRY Symmetry
SPECIFICATION Spec
INVARIANTS RecordMatchesDisk PerimeterCurrent
PROPERTY GraftsSurvive
