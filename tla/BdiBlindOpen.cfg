\* The last step of AsynResetLink.
SPECIFICATION Spec
CONSTANTS
  Commands <- AllCommands
  NoCommand = NoCommand
  Outcomes <- AllOutcomes
  ShortCommands <- OneByteAnswers
  TopRate = 2
  Requested = 2
  DefaultRate = 1
  Repeats = 2
  Attentions = {TRUE}
  Faults = {"lost"}
  MaxFaults = 1
  Tasks = {"startup"}
  BdiTypes = {"20"}
  Found <- MCFound
  Records <- MCRecords
  MaxBlock = 3
  SectorSize = 4
  Rows = 2
PROPERTY OpenIsAnswered
