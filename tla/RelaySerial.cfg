CONSTANTS
  Tokens = {t1, t2, t3}
  Ports = {p1, p2, p3}
  Clients = {}
  GameIps = {g1}
  Requests <- OwnTarget
  Workers = {w1, w2}
  Cleaner = cleaner
  Listeners = {l1, l2}
  MaxSessions = 1
  Serial = TRUE
  None = None
SPECIFICATION Spec
VIEW NoGauge
SYMMETRY Symmetry
INVARIANTS RoutedToOwner MapsAgree SessionListened OvershootBounded
