SPECIFICATION FairSpec
CONSTANTS
  t1 = t1
  t2 = t2
  Tests <- TwoTests
  Groups <- TwoGroups
  MaxTestsPerGroup = 2
  PipeLines = 1
  MaxLines = 2
  Codes <- FewCodes
INVARIANTS
  EveryTestCountedOnce
  VerdictsTruthful
  TranscriptComplete
PROPERTY RunAllReturns
CHECK_DEADLOCK FALSE
