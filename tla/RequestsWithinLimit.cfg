SPECIFICATION Spec
CONSTANTS
  Word = 32
  MaxVerify = 8
  MaxDev = 7
  Points = {0, 2}
  Sizes = {1}
  MaxBound = 1
  FixedEnd = 4
  FixedStep = 1
  FixedReqs = 4
INVARIANT
  RequestsWithinLimit
