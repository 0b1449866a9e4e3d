SPECIFICATION Spec
CONSTANTS
  Attempt = {a1}
  Owner = {o1, o2}
  Watchdog = {w}
  TTL = 2
  MaxClock = 3
  MaxLog = 4
PROPERTIES
  StaleReleaseMeansFenced
CHECK_DEADLOCK FALSE
