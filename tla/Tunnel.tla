------------------------------- MODULE Tunnel -------------------------------
(***************************************************************************)
(* What a tunnel of the client promises to the game, whichever of the two  *)
(* it is: the localhost proxy (UdpProxy.tla) or the transparent one        *)
(* (WinDivert.tla).  The game hands packets to the tunnel; answers come    *)
(* back, each to a packet that was handed over, and not more often than    *)
(* `copies` times.  An answer is brought by a carrier, one per path.  Once   *)
(* the tunnel is closed a carrier brings one more answer at most, and all  *)
(* of them leave.                                                          *)
(***************************************************************************)
EXTENDS Naturals

CONSTANTS
  Asks,      \* packets of the game
  Carriers   \* who may bring answers

VARIABLES
  copies,    \* how often an answer may come
  phase,     \* "new", "open" or "closed"
  asked,     \* packets handed to the tunnel
  answered,  \* how often each was answered
  carriers   \* the carriers that have not left

vars == <<copies, phase, asked, answered, carriers>>

Init ==
  /\ copies \in Nat
  /\ phase = "new"
  /\ asked = {}
  /\ answered = [a \in Asks |-> 0]
  /\ carriers \in SUBSET Carriers

Open ==
  /\ phase = "new"
  /\ phase' = "open"
  /\ UNCHANGED <<copies, asked, answered, carriers>>

Close ==
  /\ phase = "open"
  /\ phase' = "closed"
  /\ UNCHANGED <<copies, asked, answered, carriers>>

Ask(a) ==
  /\ phase # "new" /\ a \notin asked
  /\ asked' = asked \cup {a}
  /\ UNCHANGED <<copies, phase, answered, carriers>>

Answer(c, a) ==
  /\ phase # "new" /\ c \in carriers
  /\ a \in asked /\ answered[a] < copies
  /\ answered' = [answered EXCEPT ![a] = @ + 1]
  /\ carriers' = IF phase = "open" THEN carriers ELSE carriers \ {c}
  /\ UNCHANGED <<copies, phase, asked>>

\* A carrier leaves: the tunnel is closed, or the carrier could not start.
Leave(c) ==
  /\ phase # "new" /\ c \in carriers
  /\ carriers' = carriers \ {c}
  /\ UNCHANGED <<copies, phase, asked, answered>>

Next ==
  \/ Open \/ Close
  \/ \E a \in Asks : Ask(a)
  \/ \E c \in Carriers, a \in Asks : Answer(c, a)
  \/ \E c \in Carriers : Leave(c)

Spec == Init /\ [][Next]_vars

\* Every carrier of a closed tunnel leaves.
FairSpec ==
  /\ Spec
  /\ \A c \in Carriers :
       WF_vars(phase = "closed" /\ (Leave(c) \/ \E a \in Asks : Answer(c, a)))
=============================================================================
