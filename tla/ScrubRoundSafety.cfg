SPECIFICATION Spec
CONSTANTS
  MaxThreads = 2
  MaxJobs = 2
  Chunks <- MCChunks
  TicketMod = 256
INVARIANTS
  TypeOK
  AvailableCounts
  IdleFound
  JobsConserved
  FreedWhenQuiet
  OverReleaseIsFinal
  NoLostWake
  WaitedLoadIsWhole
PROPERTIES
  StaysInStep
  PoolSpec
  PublishedCountStable
