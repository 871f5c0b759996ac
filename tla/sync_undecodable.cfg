SPECIFICATION Spec
CONSTANTS
  Writers = {p1}
  Readers = {r1}
  Ids = {s1}
  NoId = NoId
  Metas = {m1}
  Current = Current
  FaultKinds = {"damage"}
  MaxFaults = 1
  Damages <- EveryDamage
INVARIANTS ReaderNeverRaises
