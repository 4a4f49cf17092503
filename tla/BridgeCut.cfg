SPECIFICATION Spec
CONSTANTS
  HistoryLimit = 3
  PendingLimit = 2
  MaxCommands = 2
  MaxLate = 1
  MaxBacklog = 2
INVARIANT ForwardedAsAsked
CHECK_DEADLOCK FALSE
