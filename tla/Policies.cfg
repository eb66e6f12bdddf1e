SPECIFICATION Spec
CONSTANTS
  Handlers = {h1, h2}
  Quotes = {q1, q2}
  Products = {p1, p2}
  Offered = {"start_review", "approve"}
  MaxCards = 2
  MaxPolicies = 3
  MaxClaims = 2
  None = None
SYMMETRY Symmetry
CONSTRAINT Focus
INVARIANTS
  TypeOK OnlyVerifiedSubscribe  CoveredOnce
CHECK_DEADLOCK FALSE
