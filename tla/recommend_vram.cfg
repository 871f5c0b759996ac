SPECIFICATION Spec
CONSTANTS
  Pool <- Families
  MaxFamilies = 2
  Replies <- Measured
  Criteria <- Requests
  TopNs <- Asked
CHECK_DEADLOCK FALSE
INVARIANTS LighterFitsBetter
