\* One damaged header.
SPECIFICATION Spec
CONSTANTS
  ImageBlocks = 3
  RegionBlocks = 4
  IdMod = 8
  MaxRetry = 1
  CPeriod = 2
  CompleteDelay = 2
  Pause = 1
  LineFaults = {"garble"}
  MaxFaults = 1
  HostFifo = 2
  PromptHost = TRUE
  PromptHandler = TRUE
  OperatorWaits = TRUE
INVARIANT AnnouncedIsComplete
CHECK_DEADLOCK FALSE
