\* Any three faults of the line, a host that may be late or started too early.
SPECIFICATION Spec
CONSTANTS
  ImageBlocks = 2
  RegionBlocks = 3
  IdMod = 8
  MaxRetry = 1
  CPeriod = 2
  CompleteDelay = 2
  Pause = 1
  LineFaults = {"garble", "flag", "drop", "reply"}
  MaxFaults = 3
  HostFifo = 2
  PromptHost = FALSE
  PromptHandler = TRUE
  OperatorWaits = FALSE
INVARIANTS TypeOK AcceptedInOrder RamKeepsAccepted PdcAhead CountersAgree NoInterruptStorm
PROPERTY ImageIsStill
CHECK_DEADLOCK FALSE
