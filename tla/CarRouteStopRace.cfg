SPECIFICATION Spec
CONSTANTS
  Sources = {"http"}
  Commands <- MixedCommands
  SamplePeriodMs = 1000
  ManualTimeoutMs = 800
  Word = 2000
  MaxFaults = 0
  MaxCommands = 2
INVARIANT NoRunaway
