SPECIFICATION FairSpec
CONSTANTS
  QueueLen = 5
  MayFail = {"enable", "seek_enable", "seek_disable", "connect", "pair", "exchange", "property", "init", "announce"}
INVARIANT TypeOK
INVARIANT HandlesAreCurrent
INVARIANT StateTellsLink
INVARIANT NeverForgotten
INVARIANT NeverStranded
PROPERTY Reconnects
