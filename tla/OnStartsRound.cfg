SPECIFICATION FairSpec
CONSTANTS
  MaxThreads = 1
  MaxJobs = 1
  Chunks <- MCChunks
  TicketMod = 256
PROPERTY
  OnStartsRound
