SPECIFICATION Spec
CONSTANTS
  MaxRetries = 2
  MaxCrashes = 0
  MaxAttempt = 4
  DetCrash = FALSE
  Stalls = TRUE
  Orphans = FALSE
  PrMode = FALSE
  OthersBoot = FALSE
INVARIANTS RetryKeepsCandidate
CHECK_DEADLOCK FALSE
