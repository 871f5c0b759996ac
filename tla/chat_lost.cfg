SPECIFICATION Spec
CONSTANTS
  Threads = {t1, t2}
  Conversations = {c1}
  Criteria = {k1}
  Incomplete = Incomplete
  Invalid = Invalid
  None = None
  TTL = 1
  MaxTime = 3
  Overlap = TRUE
SYMMETRY Symmetry
CHECK_DEADLOCK FALSE
INVARIANTS AnswerRemembered
