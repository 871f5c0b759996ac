SPECIFICATION FairSpec
CONSTANTS
  Writers = {p1}
  Readers = {r1}
  Ids = {s1, s2, s3}
  NoId = NoId
  Metas = {m1}
  Current = Current
  FaultKinds = {"damage", "readerror", "crash", "writeerror"}
  MaxFaults = 1
  Damages <- TextDamages
INVARIANTS OneDamageSurvivable FallbackServes LoadSound
PROPERTIES SnapshotsImmutable ManifestHeals
