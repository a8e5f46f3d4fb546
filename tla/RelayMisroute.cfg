CONSTANTS
  Tokens = {t1, t2}
  Ports = {p1, p2}
  Clients = {}
  GameIps = {g1}
  Requests <- OwnTarget
  Workers = {w1, w2}
  Cleaner = cleaner
  Listeners = {l1}
  MaxSessions = 2
  Serial = FALSE
  None = None
SPECIFICATION Spec
VIEW NoGauge
SYMMETRY Symmetry
INVARIANT RoutedToOwner
