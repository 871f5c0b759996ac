SPECIFICATION Spec
CONSTANTS
  Threads = {t1, t2}
  Conversations = {c1, c2}
  Criteria = {k1, k2}
  Incomplete = Incomplete
  Invalid = Invalid
  None = None
  TTL = 1
  MaxTime = 4
  Overlap = FALSE
SYMMETRY Symmetry
CHECK_DEADLOCK FALSE
INVARIANTS TypeOK AnswerRemembered
PROPERTIES LivingRowsStay CriteriaStable
