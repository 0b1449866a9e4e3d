SPECIFICATION LiveSpec
CONSTANTS
  N = 3
  Given = 2
  HandMade = TRUE
  Forever = FALSE
  Slots = 2
  Adaptive = FALSE
  Conflicts = {{1, 2}}
  PlanKey = "conflicts"
  MaxRetries = 1
  SpawnMayFail = FALSE
  InterfacesMayFail = TRUE
  Faults = {"worker", "cleanup"}
  MaxAdds = 1
  MaxAnswers = 0
  MaxCancels = 0
INVARIANTS
  BlockedForCause
  WithinCapacity
  AdmitsExactlyDags
PROPERTIES
  RunExits
CHECK_DEADLOCK FALSE
