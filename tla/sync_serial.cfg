SPECIFICATION Spec
CONSTANTS
  Writers = {p1}
  Readers = {r1}
  Ids = {s1, s2, s3}
  NoId = NoId
  Metas = {m1, m2}
  Current = Current
  FaultKinds = {"crash", "writeerror"}
  MaxFaults = 2
  Damages <- TextDamages
SYMMETRY Symmetry
INVARIANTS TypeOK PublishedComplete GenerationsLoad ReaderGetsActive
PROPERTIES SnapshotsImmutable RotationRemembers FailureKeepsCatalogue ImplementsCatalogue
