SPECIFICATION Spec
CONSTANTS
  Workers = {w1}
  Keys = {k1}
  Installments = {i1, i2}
  Outcomes = {"pending", "failed"}
  Offered = {"start_review", "approve", "suspend", "cancel", "renew"}
  MaxEntries = 2
  None = None
INVARIANTS PaidIsCovered
CHECK_DEADLOCK FALSE
