SPECIFICATION Spec
CONSTANTS
  Writers = {p1}
  Ids = {s1, s2, s3}
  Target = Target
  MaxFaults = 3
SYMMETRY Symmetry
INVARIANTS TypeOK
PROPERTIES StaysServable ReplacedOnRequest FailureKeepsBootstrap OkInstalls
