SPECIFICATION Spec
CONSTANTS
  Attempt = {a1}
  Owner = {o1, o2}
  Watchdog = {w}
  TTL = 2
  MaxClock = 3
  MaxLog = 4
SYMMETRY Owners
INVARIANTS
  ActiveIsNewest
  LeaseReplayMatchesTable
PROPERTIES
  FencedStaysFenced
  LiveLeaseNotStolen
  ExpiryNeverShrinks
CHECK_DEADLOCK FALSE
