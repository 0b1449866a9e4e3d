SPECIFICATION Spec
CONSTANTS
  MaxRetries = 1
  MaxCrashes = 2
  MaxAttempt = 4
  DetCrash = FALSE
  Stalls = FALSE
  Orphans = FALSE
  PrMode = TRUE
  OthersBoot = FALSE
INVARIANTS
  DeliveredIsVerified
  DecisionNotDiscarded
  NeverCalledTwice
  OneChildPerIntervention
  RedeliveryIsIdempotent
CHECK_DEADLOCK FALSE
