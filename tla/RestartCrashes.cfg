SPECIFICATION LiveSpec
CONSTANTS
  MaxRetries = 1
  MaxCrashes = 2
  MaxAttempt = 4
  DetCrash = TRUE
  Stalls = TRUE
  Orphans = FALSE
  PrMode = FALSE
  OthersBoot = FALSE
INVARIANTS
  OneCallPerCause
  SpawnsAccounted
  VerdictOnce
  ClaimSurvives
PROPERTIES
  Rests
  ContractKept
CHECK_DEADLOCK FALSE
