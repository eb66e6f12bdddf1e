SPECIFICATION Spec
CONSTANTS
  Ids = {s1, s2, s3}
  Handlers = {h1, h2}
  Clients = {web, app}
  Mobile = {app}
  Slots = {r1, r2}
  None = None
SYMMETRY Symmetry
INVARIANTS TypeOK ReplayTakesTrouble SignedInStaysIn ReplacedIsRetired
CHECK_DEADLOCK FALSE
