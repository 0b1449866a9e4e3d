SPECIFICATION Spec
CONSTANTS
  N = 4
  Specs <- Workflows
INVARIANT NoTasksLeftBehind
CHECK_DEADLOCK FALSE
