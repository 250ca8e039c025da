\* Updates and configurations with accidents.
SPECIFICATION FairSpec
CONSTANTS
  Commands <- AllCommands
  NoCommand = NoCommand
  Outcomes <- AllOutcomes
  ShortCommands <- OneByteAnswers
  TopRate = 2
  Requested = 1
  DefaultRate = 1
  Repeats = 2
  Attentions = {TRUE}
  Faults = {"lost", "damaged", "late", "attention", "port", "write", "power", "abort", "flash", "file", "row"}
  MaxFaults = 2
  Tasks = {"update", "config", "erase", "startup"}
  BdiTypes = {"HS", "20"}
  Found <- MCFound
  Records <- MCRecords
  MaxBlock = 3
  SectorSize = 4
  Rows = 1
INVARIANTS TypeOK AnswersOwnCommand TriggerMeansComplete HalfTriggerReported UpdatedIsCurrent ConfigComplete
PROPERTIES NoOldLogicBesideNew UpdateGetsDone KeepsPromise
