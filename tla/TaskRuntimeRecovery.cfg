SPECIFICATION Spec
CONSTANTS
  MaxRetries = 1
  MaxNudges = 1
  Slots = 1
  CrashRecovery = TRUE
  ProtocolRecovery = TRUE
  PublicRecovery = TRUE
  Yolo = TRUE
  Lines = {"done", "asked", "unclaimed"}
  Exits = {"exited", "crashed"}
  Waits = TRUE
  Lapses = FALSE
  SpawnMayFail = TRUE
  OtherTasks = 1
  MaxAnswers = 0
  MaxCancels = 0
INVARIANTS
  TypeOK
  OneLiveWorker
PROPERTY ContractKept
CHECK_DEADLOCK FALSE
