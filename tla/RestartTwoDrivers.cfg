SPECIFICATION Spec
CONSTANTS
  MaxRetries = 1
  MaxCrashes = 1
  MaxAttempt = 4
  DetCrash = FALSE
  Stalls = FALSE
  Orphans = FALSE
  PrMode = FALSE
  OthersBoot = TRUE
INVARIANTS VerdictOnce
CHECK_DEADLOCK FALSE
