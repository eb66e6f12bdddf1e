SPECIFICATION Spec
CONSTANTS
  Users = {u1, u2}
  Assigned = {"claims_officer", "finance_officer", "insurance_manager"}
  Requests = {r1, r2}
  Keys = {k1, k2}
  Total = 2
  Amounts = {1, 2, 3}
  MaxRoles = 2
  None = None
SYMMETRY Symmetry
CONSTRAINT Focus
INVARIANTS
  FourEyes StepUp RefundsWithinPayment
CHECK_DEADLOCK FALSE
