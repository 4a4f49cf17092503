SPECIFICATION FairSpec
CONSTANTS
  MaxCommands = 3
  MaxTime = 2
  ClockMayStepBack = FALSE
  AckStatuses = {"sent", "executed"}
INVARIANT TypeOK
PROPERTY Dispatch
PROPERTY OutcomeStays
PROPERTY NothingWaitsForever
