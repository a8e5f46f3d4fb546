SPECIFICATION FairSpec
CONSTANTS
  Sessions = {s1, s2}
  Games = {cs2, dota2}
  Commands = {c1, c2}
  AutoConnect = TRUE
  None = None

INVARIANTS
  TypeOK
  NoOrphanProxy
  StoredRuns
  
 
