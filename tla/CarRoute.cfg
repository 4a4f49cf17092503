SPECIFICATION FairSpec
CONSTANTS
  Sources = {"http", "sle"}
  Commands <- RouteCommands
  SamplePeriodMs = 1000
  ManualTimeoutMs = 800
  Word = 2000
  MaxFaults = 1
  MaxCommands = 3
INVARIANT RouteFollowed
PROPERTY RouteCycles
