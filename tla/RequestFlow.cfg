SPECIFICATION Spec
CONSTANTS
  Callers = {c1, c2}
  MaxElevator = 1
SYMMETRY CallerSymmetry
INVARIANT
  FollowsRequestFlow
