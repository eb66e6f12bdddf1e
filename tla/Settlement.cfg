SPECIFICATION Spec
CONSTANTS
  Workers = {w1, w2}
  Keys = {k1, k2}
  Installments = {i1, i2}
  Outcomes = {"pending", "failed", "succeeded"}
  Offered = {"start_review", "approve", "suspend", "cancel", "renew"}
  MaxEntries = 2
  None = None
SYMMETRY Symmetry
INVARIANTS
  TypeOK BookedIsTaken OneRecordedAttempt PaidIsBooked PaidInvoiceIsPaid
PROPERTIES ImplementsPromise
CHECK_DEADLOCK FALSE
