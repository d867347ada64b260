CONSTANTS
  Tasks = {t1, t2}
  Ids = {i1, i2}
  Unset = Unset
  Ambients = {"gc", "hooks"}
  Absent = Absent
  Nobody = Nobody
SYMMETRY Symmetry
SPECIFICATION Spec
INVARIANTS TypeOK SelfContained TracksOrigin
PROPERTIES BridgeFollows KeepsPromise
