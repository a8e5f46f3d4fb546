SPECIFICATION Spec
CONSTANTS
  n1 = n1
  n2 = n2
  n3 = n3
  Users = {u1}
  Nodes = {n1, n2, n3}
  Location <- TwoPlaces
  Sessions = {s1, s2}
  Handlers = {h1, h2}
  OneCallPerUser = TRUE
  Admins = TRUE
  Late = FALSE
  None = None
SYMMETRY Symmetry
INVARIANTS
  TypeOK
  BackupElsewhere
PROPERTY
  IsLedger
