SPECIFICATION Spec
CONSTANTS
  Requests <- MCRequests
INVARIANTS
  CandidateIsPinned
  CheckoutsRemoved
  PassNamesNoFailure
  NoChangeIsVerified
