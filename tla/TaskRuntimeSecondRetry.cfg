SPECIFICATION Spec
CONSTANTS
  MaxRetries = 2
  MaxNudges = 0
  Slots = 1
  CrashRecovery = FALSE
  ProtocolRecovery = FALSE
  PublicRecovery = TRUE
  Yolo = FALSE
  Lines = {"done"}
  Exits = {"exited", "crashed"}
  Waits = TRUE
  Lapses = FALSE
  SpawnMayFail = FALSE
  OtherTasks = 0
  MaxAnswers = 0
  MaxCancels = 0
INVARIANT VerifyingWorkerReaped
PROPERTIES
  EquivalentFailureEscalates
  ContractKept
CHECK_DEADLOCK FALSE
