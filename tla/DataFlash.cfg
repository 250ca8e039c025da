SPECIFICATION FairSpec
CONSTANTS
  MaxCalls = 4
  MaxSize = 2
INVARIANTS TypeOK CarriedOutAlone
PROPERTIES StatusIsAnswer ErrorNeedsAbort Ends
