SPECIFICATION Spec
CONSTANTS
  Workers = {w1, w2}
  Epoch = 2
  MaxClock = 3
  Word = 5
  MaxHandoffs = 2
  MaxRounds = 2
  Writes = {4}
SYMMETRY WorkerSymmetry
INVARIANTS
  TypeOK
  CountExact
  ScanTimes
