SPECIFICATION LiveSpec
CONSTANTS
  N = 3
  Given = 1
  HandMade = FALSE
  Forever = TRUE
  Slots = 1
  Adaptive = TRUE
  Conflicts = {}
  PlanKey = "conflict_groups"
  MaxRetries = 0
  SpawnMayFail = FALSE
  InterfacesMayFail = FALSE
  Faults = {"worker"}
  MaxAdds = 2
  MaxAnswers = 1
  MaxCancels = 1
INVARIANT GateHolds
PROPERTY AddedIsTakenUp
CHECK_DEADLOCK FALSE
