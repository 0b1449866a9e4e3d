SPECIFICATION Spec
CONSTANTS
  Task = {t1}
  Scheduler = {scheduler}
  Cli = {cli}
  Column = {retries}
  Value = {one, two}
  NoValue = null
  NoTask = none
  MaxLog = 6
SYMMETRY Values
INVARIANTS
  ReplayMatchesTable
  LoopReplayMatchesTable
PROPERTIES
  QuietTerminalIsFinal
CHECK_DEADLOCK FALSE
