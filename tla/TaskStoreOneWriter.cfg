SPECIFICATION Spec
CONSTANTS
  Task = {t1, t2}
  Scheduler = {scheduler}
  Cli = {}
  Column = {retries}
  Value = {one}
  NoValue = null
  NoTask = none
  MaxLog = 6
INVARIANTS
  LogIsAPath
PROPERTIES
  TerminalIsFinal
CHECK_DEADLOCK FALSE
