SPECIFICATION FairSpec
CONSTANTS
  Ids = {s1, s2}
  Handlers = {h1, h2}
  Clients = {web}
  Mobile = {}
  Slots = {r1}
  None = None
PROPERTIES Answered DeadIsDropped
CHECK_DEADLOCK FALSE
