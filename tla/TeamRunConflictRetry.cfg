SPECIFICATION Spec
CONSTANTS
  N = 2
  Given = 2
  HandMade = FALSE
  Forever = FALSE
  Slots = 2
  Adaptive = FALSE
  Conflicts = {{1, 2}}
  PlanKey = "conflicts"
  MaxRetries = 1
  SpawnMayFail = FALSE
  InterfacesMayFail = FALSE
  Faults = {}
  MaxAdds = 0
  MaxAnswers = 0
  MaxCancels = 0
INVARIANTS ConflictsApart
CHECK_DEADLOCK FALSE
