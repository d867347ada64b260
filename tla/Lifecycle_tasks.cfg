CONSTANTS
  None = None
  Procs = {p1, p2}
  Tasks = {t1, t2}
  Repos = {r1, r2}
  Verbs = {"new", "add", "rm"}
  Faults = {}
  HasScript = TRUE
SYMMETRY Symmetry
SPECIFICATION Spec
INVARIANTS NoCircularWait ScriptIsolated ScriptKeepsTree
PROPERTY NoRevival
