CONSTANTS
  None = None
  Tasks = {t1, t2}
  Dirs = {d1, d2}
  Procs = {p1, p2}
  Wide = {t1}
  MaxEvents = 3
  Faults = {"write"}
SPECIFICATION FairSpec
INVARIANT TypeOK
PROPERTIES ForeignSpared Heals
CHECK_DEADLOCK FALSE
