CONSTANTS
  InitialInterval = 1
  MaxInterval = 5
  MaxElapsedTime = 0
  MinWorkTime = 3
  MaxWorkTime = 4
  BackoffOnAllErrors = FALSE
  Horizon = 13
SPECIFICATION FairSpec
INVARIANTS BackoffHonoured
PROPERTIES ExitsOnCancel
