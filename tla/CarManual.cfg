SPECIFICATION FairSpec
CONSTANTS
  Sources = {"http"}
  Commands <- ManualCommands
  SamplePeriodMs = 300
  ManualTimeoutMs = 800
  Word = 1200
  MaxFaults = 2
  MaxCommands = 3
INVARIANT TypeOK
INVARIANT NoRunaway
INVARIANT StopsInTime
INVARIANT NoShootThrough
INVARIANT AckedMotionApplied
PROPERTY ComesToRestAfterFaults
