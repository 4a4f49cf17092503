SPECIFICATION FairSpec
CONSTANTS
  CacheSize = 4
  BufSize = 4
  Lengths <- MixedLengths
INVARIANT TypeOK
INVARIANT QuietReadIsLatest
INVARIANT NoAnswerGoesBack
INVARIANT TerminatorInside
PROPERTY AnswersSettle
