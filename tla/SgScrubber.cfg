SPECIFICATION FairSpec
CONSTANTS
  Block = 2
  Sector = 1
  Addresses = 5
  MaxVerify = 3
  MaxBytes = 12
  MaxSize = 9
  MaxLba = 2
  MaxBack = 3
INVARIANTS
  ScansExactly
  ExactOnlyIfFits
PROPERTY
  RunEnds
