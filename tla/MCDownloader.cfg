SPECIFICATION FairSpec
CONSTANTS
  Downloads = {d1, d2}
  Parallel = 1
  N = 3
INVARIANTS TargetComplete FailedLeavesNothing
