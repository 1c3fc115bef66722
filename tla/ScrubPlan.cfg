SPECIFICATION FairSpec
CONSTANTS
  Word = 32
  MaxVerify = 3
  MaxDev = 7
  Points = {0, 1, 2, 4, 5, 7, 29}
  Sizes = {1, 2, 3, 15, 16}
  MaxBound = 2
  FixedEnd = 4
  FixedStep = 1
  FixedReqs = 4
INVARIANTS
  TypeOK
  Complete
  InRange
  VerifiedOnce
PROPERTY
  Terminates
