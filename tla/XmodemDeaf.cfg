\* No fault, but a host program started before the board listens.
SPECIFICATION Spec
CONSTANTS
  ImageBlocks = 3
  RegionBlocks = 4
  IdMod = 8
  MaxRetry = 1
  CPeriod = 2
  CompleteDelay = 2
  Pause = 1
  LineFaults = {}
  MaxFaults = 0
  HostFifo = 2
  PromptHost = TRUE
  PromptHandler = TRUE
  OperatorWaits = FALSE
INVARIANT ReadSuccessListens
CHECK_DEADLOCK FALSE
