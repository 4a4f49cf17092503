SPECIFICATION FairSpec
CONSTANTS
  Sources = {"http"}
  Commands <- ManualCommands
  SamplePeriodMs = 1000
  ManualTimeoutMs = 800
  Word = 2000
  MaxFaults = 1
  MaxCommands = 1
PROPERTY ComesToRest
