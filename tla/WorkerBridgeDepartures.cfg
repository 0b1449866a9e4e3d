SPECIFICATION LiveSpec
CONSTANTS
  MaxAsks = 2
  ReplyLines = {1, 2}
PROPERTIES
  WireRefined
  FailureIsOfStartup
  ClaimEnds
CHECK_DEADLOCK FALSE
