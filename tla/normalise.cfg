SPECIFICATION Spec
CONSTANTS
  Ids = {"empty", "spaces", "m1"}
  Blanks = {"empty", "spaces"}
  Empty = "empty"
  Placeholder = "(empty)"
  Rank <- Order
  Tags = {"code", "coding", "vision"}
  Tasks = {"chat", "codigo"}
  Mapping <- PolicyMapping
  OutOfScope = {"vision"}
  MaxRecords = 3
  MaxTags = 2
CHECK_DEADLOCK FALSE
INVARIANTS TypeOK EachRecordOnce SnapshotAccepted FirstRecordDecides ContentOrderFree
