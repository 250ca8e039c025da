\* As many damaged blocks as the host has retries.
SPECIFICATION FairSpec
CONSTANTS
  ImageBlocks = 10
  RegionBlocks = 11
  IdMod = 8
  MaxRetry = 2
  CPeriod = 2
  CompleteDelay = 2
  Pause = 1
  LineFaults = {"payload"}
  MaxFaults = 3
  HostFifo = 2
  PromptHost = TRUE
  PromptHandler = TRUE
  OperatorWaits = TRUE
INVARIANTS LockStep AcceptedInOrder
PROPERTIES KeepsPromise EndsWell
CHECK_DEADLOCK FALSE
