SPECIFICATION FairSpec
CONSTANTS
  None = None
  Writer = {w1, w2}
  Maintainer = {m1}
  MaxBytes = 1
  MaxRequest = 1
  MaxExcess = 1
  MaxCrashes = 1
INVARIANTS
  ExclusiveUntilStale
  HardCeiling
  OverrunIsReported
PROPERTIES
  WaitersAnswered
CHECK_DEADLOCK FALSE
