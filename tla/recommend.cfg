SPECIFICATION Spec
CONSTANTS
  Pool <- Families
  MaxFamilies = 3
  Replies <- Answers
  Criteria <- Requests
  TopNs <- Asked
CHECK_DEADLOCK FALSE
INVARIANTS TypeOK BestFirst ScoringNeverFails LighterScoresBetter
