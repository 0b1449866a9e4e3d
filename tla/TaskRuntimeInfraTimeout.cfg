SPECIFICATION Spec
CONSTANTS
  MaxRetries = 1
  MaxNudges = 0
  Slots = 1
  CrashRecovery = FALSE
  ProtocolRecovery = FALSE
  PublicRecovery = FALSE
  Yolo = FALSE
  Lines = {"done", "sdk_timeout"}
  Exits = {"exited", "crashed"}
  Waits = FALSE
  Lapses = FALSE
  SpawnMayFail = FALSE
  OtherTasks = 0
  MaxAnswers = 0
  MaxCancels = 0
INVARIANT InfraNotTriaged
PROPERTY ExitBlamesItsAttempt
CHECK_DEADLOCK FALSE
