SPECIFICATION Spec
CONSTANTS
  Requests <- MCRequests
INVARIANTS
  GatesAgree
  PassIsEarned
  ReportIsLadder
