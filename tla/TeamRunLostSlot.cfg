SPECIFICATION Spec
CONSTANTS
  N = 2
  Given = 2
  HandMade = FALSE
  Forever = FALSE
  Slots = 2
  Adaptive = FALSE
  Conflicts = {}
  PlanKey = "conflict_groups"
  MaxRetries = 1
  SpawnMayFail = FALSE
  InterfacesMayFail = FALSE
  Faults = {}
  MaxAdds = 0
  MaxAnswers = 0
  MaxCancels = 1
INVARIANTS SlotsHaveOwners
CHECK_DEADLOCK FALSE
