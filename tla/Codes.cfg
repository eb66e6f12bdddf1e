SPECIFICATION Spec
CONSTANTS
  Requests = {r1, r2}
  MaxCodes = 2
  MaxAttempts = 2
SYMMETRY Symmetry
INVARIANTS
  AttemptsBounded OneLiveCode RedeemedOnce CodeServesPurpose
CHECK_DEADLOCK FALSE
