SPECIFICATION Spec
CONSTANTS
  MaxBatches = 1
  MaxTicks = 0
  Devices = 1
  WithReceivedAt = FALSE
  BadBatches = {}
  MaxTime = 1
  MaxCrashes = 1
INVARIANT NoDuplicateReadings
