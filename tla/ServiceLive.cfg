SPECIFICATION FairSpec
CONSTANTS
  n1 = n1
  n2 = n2
  n3 = n3
  Users = {u1}
  Nodes = {n1, n2}
  Location <- Apart
  Sessions = {s1}
  Handlers = {h1, h2}
  OneCallPerUser = TRUE
  Admins = TRUE
  Late = TRUE
  None = None
PROPERTIES
  CallsReturn
  StoppedLeaveRelays
INVARIANT
  RegisteredWasPlaced
CHECK_DEADLOCK FALSE
