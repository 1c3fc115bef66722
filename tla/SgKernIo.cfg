SPECIFICATION FairSpec
CHECK_DEADLOCK FALSE
CONSTANTS
  Callers = {c1, c2}
  MaxElevator = 2
INVARIANTS
  TypeOK
  References
  Counted
  PrivateDataStays
PROPERTY
  NobodyWaitsForever
