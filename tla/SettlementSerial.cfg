SPECIFICATION Spec
CONSTANTS
  Workers = {w1}
  Keys = {k1, k2, k3}
  Installments = {i1, i2}
  Outcomes = {"pending", "failed"}
  Offered = {"start_review", "approve", "suspend", "cancel", "renew"}
  MaxEntries = 2
  None = None
SYMMETRY Symmetry
INVARIANTS SucceededIsApplied  InvoiceFollows
   
CHECK_DEADLOCK FALSE
