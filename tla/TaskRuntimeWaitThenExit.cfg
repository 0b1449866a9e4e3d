SPECIFICATION LiveSpec
CONSTANTS
  MaxRetries = 1
  MaxNudges = 0
  Slots = 1
  CrashRecovery = FALSE
  ProtocolRecovery = FALSE
  PublicRecovery = FALSE
  Yolo = FALSE
  Lines = {"done"}
  Exits = {"exited", "crashed"}
  Waits = TRUE
  Lapses = FALSE
  SpawnMayFail = FALSE
  OtherTasks = 0
  MaxAnswers = 0
  MaxCancels = 0
PROPERTY Settles
CHECK_DEADLOCK FALSE
