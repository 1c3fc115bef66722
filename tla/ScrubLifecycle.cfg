SPECIFICATION FairSpec
CHECK_DEADLOCK FALSE
CONSTANT
  Users = {u1, u2}
INVARIANTS
  DiskReferences
  UsersAreSafe
PROPERTY
  RemovalEnds
