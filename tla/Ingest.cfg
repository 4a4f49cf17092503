SPECIFICATION FairSpec
CONSTANTS
  MaxBatches = 2
  MaxTicks = 2
  Devices = 2
  WithReceivedAt = TRUE
  BadBatches = {2}
  MaxTime = 2
  MaxCrashes = 1
INVARIANT TypeOK
INVARIANT MarkedIsStored
INVARIANT AcceptedIsStored
INVARIANT NoDuplicateReadings
INVARIANT LastSeenBacked
PROPERTY EveryBatchAccepted
