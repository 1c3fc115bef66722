SPECIFICATION Spec
CONSTANTS
  Byte = 4
  Lbas = {0, 1, 5, 27, 228, 255, 256, 700}
  Counts = {1, 4, 6, 15}
INVARIANTS
  TypeOK
  QueueMatchesRequest
  NoFalseSuccess
  ClassifiedAsDocumented
