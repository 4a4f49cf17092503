SPECIFICATION FairSpec
CONSTANTS
  HistoryLimit = 3
  PendingLimit = 2
  MaxCommands = 4
  MaxLate = 1
  MaxBacklog = 2
INVARIANT TypeOK
INVARIANT NewestKept
INVARIANT PendingIsShown
INVARIANT ForwardedIsTakenUp
PROPERTY Dispatch
PROPERTY Drained
CHECK_DEADLOCK FALSE
