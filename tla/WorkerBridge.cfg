SPECIFICATION LiveSpec
CONSTANTS
  MaxAsks = 2
  ReplyLines = {1}
PROPERTIES
  WireRefined
  TurnsEnd
CHECK_DEADLOCK FALSE
