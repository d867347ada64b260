CONSTANTS
  None = None
  Procs = {p1, p2}
  Tasks = {t1}
  Repos = {r1}
  Verbs = {"new", "add", "post-create", "rm", "worktree-remove", "session-start", "repair", "doctor"}
  Faults = {"build", "delete", "crash"}
  HasScript = TRUE
SPECIFICATION FairSpec
PROPERTY CommandsEnd
