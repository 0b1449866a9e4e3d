SPECIFICATION Spec
CONSTANTS
  MaxRetries = 0
  MaxNudges = 0
  Slots = 1
  CrashRecovery = FALSE
  ProtocolRecovery = FALSE
  PublicRecovery = FALSE
  Yolo = FALSE
  Lines = {"done", "asked"}
  Exits = {"exited"}
  Waits = FALSE
  Lapses = TRUE
  SpawnMayFail = TRUE
  OtherTasks = 1
  MaxAnswers = 1
  MaxCancels = 1
INVARIANTS
  VerifyingWorkerReaped
  OneLiveWorker
  RestIsClean
CHECK_DEADLOCK FALSE
