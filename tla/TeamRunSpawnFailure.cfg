SPECIFICATION LiveSpec
CONSTANTS
  N = 2
  Given = 2
  HandMade = FALSE
  Forever = FALSE
  Slots = 2
  Adaptive = FALSE
  Conflicts = {}
  PlanKey = "conflict_groups"
  MaxRetries = 1
  SpawnMayFail = TRUE
  InterfacesMayFail = FALSE
  Faults = {}
  MaxAdds = 0
  MaxAnswers = 0
  MaxCancels = 0
PROPERTIES RunExits
CHECK_DEADLOCK FALSE
