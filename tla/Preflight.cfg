SPECIFICATION Spec
CONSTANTS
  N = 4
  Specs <- Workflows
INVARIANTS
  CompilesExactlySound
  OrderIsFirst
  CriticalPathLongest
  GroupsCoverWriters
  BackwardIsAdmitted
CHECK_DEADLOCK FALSE
