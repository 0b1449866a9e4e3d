SPECIFICATION LiveSpec
CONSTANTS
  MaxRetries = 1
  MaxCrashes = 1
  MaxAttempt = 4
  DetCrash = FALSE
  Stalls = FALSE
  Orphans = TRUE
  PrMode = FALSE
  OthersBoot = FALSE
PROPERTIES RunsToRest
CHECK_DEADLOCK FALSE
