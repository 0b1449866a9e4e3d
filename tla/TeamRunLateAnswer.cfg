SPECIFICATION Spec
CONSTANTS
  N = 3
  Given = 3
  HandMade = FALSE
  Forever = FALSE
  Slots = 2
  Adaptive = FALSE
  Conflicts = {}
  PlanKey = "conflict_groups"
  MaxRetries = 1
  SpawnMayFail = FALSE
  InterfacesMayFail = FALSE
  Faults = {}
  MaxAdds = 0
  MaxAnswers = 1
  MaxCancels = 0
INVARIANTS BlockedIsHopeless
CHECK_DEADLOCK FALSE
