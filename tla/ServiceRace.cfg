SPECIFICATION Spec
CONSTANTS
  n1 = n1
  n2 = n2
  n3 = n3
  Users = {u1}
  Nodes = {n1, n2}
  Location <- Apart
  Sessions = {s1, s2}
  Handlers = {h1, h2}
  OneCallPerUser = FALSE
  Admins = FALSE
  Late = TRUE
  None = None
INVARIANT
  OneActivePerUser
