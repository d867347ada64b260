CONSTANTS
  N = 2
  Fetchers = {f1, f2}
  MaxHistory = 1
  Meddling = {"commit", "amend", "develop", "switch", "clash", "delete", "rm", "git"}
  NoBranch = NoBranch
SYMMETRY Symmetry
SPECIFICATION Spec
INVARIANTS TypeOK ForeseenOrDisturbed Delivered
PROPERTIES NeverForced HeadLeftAlone
