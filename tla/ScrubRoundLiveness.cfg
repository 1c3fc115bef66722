SPECIFICATION FairSpec
CONSTANTS
  MaxThreads = 2
  MaxJobs = 1
  Chunks <- MCChunks
  TicketMod = 256
PROPERTIES
  RoundEnds
  StoppedWorkersExit
  ParkedWorkerRuns
