CONSTANTS
  Tokens = {t1, t2}
  Ports = {p1, p2}
  Clients = {c1}
  GameIps = {g1}
  Requests <- OwnTarget
  Workers = {w1}
  Cleaner = cleaner
  Listeners = {l1}
  MaxSessions = 2
  Serial = TRUE
  None = None
SPECIFICATION TalkativeSpec
PROPERTIES StaleRemoved ListenerTerminates IsTable
