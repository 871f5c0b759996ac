SPECIFICATION Spec
CONSTANTS
  Writers = {p1, p2}
  Readers = {}
  Ids = {s1, s2}
  NoId = NoId
  Metas = {m1}
  Current = Current
  FaultKinds = {"writeerror"}
  MaxFaults = 1
  Damages <- TextDamages
SYMMETRY Symmetry
INVARIANTS ActiveIsPublished NoTempLeft
