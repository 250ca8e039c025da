\* A fault-free line and an image that fills the region exactly.
SPECIFICATION FairSpec
CONSTANTS
  ImageBlocks = 8
  RegionBlocks = 8
  IdMod = 8
  MaxRetry = 2
  CPeriod = 2
  CompleteDelay = 2
  Pause = 1
  LineFaults = {}
  MaxFaults = 0
  HostFifo = 2
  PromptHost = TRUE
  PromptHandler = TRUE
  OperatorWaits = TRUE
PROPERTIES KeepsPromise BoardStarts
CHECK_DEADLOCK FALSE
