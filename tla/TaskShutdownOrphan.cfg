SPECIFICATION SpecS
CONSTANTS
  MaxRetries = 1
  MaxNudges = 0
  Slots = 1
  CrashRecovery = TRUE
  ProtocolRecovery = FALSE
  PublicRecovery = FALSE
  Yolo = FALSE
  Lines = {"startup_failed"}
  Exits = {"crashed"}
  Waits = FALSE
  Lapses = FALSE
  SpawnMayFail = FALSE
  OtherTasks = 0
  MaxAnswers = 0
  MaxCancels = 0
  Interrupts = TRUE
INVARIANT NoWorkerLeft
CHECK_DEADLOCK FALSE
