SPECIFICATION LiveSpec
CONSTANTS
  MaxRetries = 1
  MaxNudges = 0
  Slots = 1
  CrashRecovery = FALSE
  ProtocolRecovery = FALSE
  PublicRecovery = FALSE
  Yolo = FALSE
  Lines = {"done", "startup_failed"}
  Exits = {"crashed"}
  Waits = FALSE
  Lapses = FALSE
  SpawnMayFail = FALSE
  OtherTasks = 0
  MaxAnswers = 0
  MaxCancels = 1
PROPERTIES
  ExitBlamesItsAttempt
  Settles
CHECK_DEADLOCK FALSE
