SPECIFICATION Spec
CONSTANTS
  Writers = {p1}
  Readers = {}
  Ids = {s1, s2}
  NoId = NoId
  Metas = {m1, m2}
  Current = Current
  FaultKinds = {"crash","powerloss"}
  MaxFaults = 2
  Damages <- TextDamages
SYMMETRY Symmetry
PROPERTIES OkMeansLoadable
