SPECIFICATION Spec
CONSTANTS
  Writers = {p1, p2}
  Readers = {}
  Ids = {s1}
  NoId = NoId
  Metas = {m1, m2}
  Current = Current
  FaultKinds = {}
  MaxFaults = 0
  Damages <- TextDamages
INVARIANTS PublishedComplete
