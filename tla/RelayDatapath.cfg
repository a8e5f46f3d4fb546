CONSTANTS
  Tokens = {t1, t2}
  Ports = {p1, p2}
  Clients = {c1}
  GameIps = {g1, g2}
  Requests <- AnyTarget
  Workers = {w1}
  Cleaner = cleaner
  Listeners = {l1}
  MaxSessions = 2
  Serial = FALSE
  None = None
SPECIFICATION Spec
VIEW NoGauge
SYMMETRY Symmetry
INVARIANTS TypeOK SocketsExclusive TargetsGranted AnswersOnlyHeard
