SPECIFICATION Spec
CONSTANTS
  MaxRetries = 1
  MaxNudges = 0
  Slots = 1
  CrashRecovery = FALSE
  ProtocolRecovery = FALSE
  PublicRecovery = FALSE
  Yolo = FALSE
  Lines = {"done"}
  Exits = {"exited", "crashed"}
  Waits = FALSE
  Lapses = FALSE
  SpawnMayFail = FALSE
  OtherTasks = 0
  MaxAnswers = 1
  MaxCancels = 0
PROPERTY AnsweredHasNoWorker
CHECK_DEADLOCK FALSE
