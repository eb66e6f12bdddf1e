SPECIFICATION Spec
CONSTANTS
  Workers = {w1, w2}
  Keys = {k1, k2}
  Outcomes = {"pending", "failed", "succeeded"}
  MaxAmount = 2
  None = None
SYMMETRY Symmetry
INVARIANTS
  TypeOK PaidAsApproved PaidWithinClaim OneCallPerKey BookedIsPaid
  StatusIsReported
CHECK_DEADLOCK FALSE
