------------------------------- MODULE Ledger -------------------------------
(***************************************************************************)
(* What the control plane is to its users, to administrators and to those  *)
(* who pay for the relays: a ledger of sessions.  A session is opened for  *)
(* a user without an active one, at once and for good: its user, its node  *)
(* and its backup never change, it is closed once, and it is not opened    *)
(* again.  A relay may serve what the ledger placed on it, for a while,    *)
(* and nothing else; that it does is not promised.                         *)
(*                                                                         *)
(* The service of module SessionService reads and writes the table in      *)
(* separate transactions and tells the relays by messages that are lost,   *)
(* late and overtaken.                                                     *)
(***************************************************************************)
CONSTANTS Users, Nodes, Location, Sessions, None

VARIABLES
  rows,    \* session |-> its entry
  serving  \* node |-> the sessions it serves

vars == <<rows, serving>>

NoRow == [user |-> None, node |-> None, backup |-> None, status |-> "none"]

ActiveOf(u) == {s \in Sessions : rows[s].user = u /\ rows[s].status = "active"}

\* No backup, or another node, which is elsewhere when there is one elsewhere.
Apart(n, b) ==
  b # None =>
    /\ b # n
    /\ (\E m \in Nodes : Location[m] # Location[n]) => Location[b] # Location[n]

Init ==
  /\ rows = [s \in Sessions |-> NoRow]
  /\ serving = [n \in Nodes |-> {}]

Open(s, u, n, b) ==
  /\ rows[s] = NoRow
  /\ ActiveOf(u) = {}
  /\ Apart(n, b)
  /\ rows' = [rows EXCEPT ![s] =
                [user |-> u, node |-> n, backup |-> b, status |-> "active"]]
  /\ UNCHANGED serving

Close(s) ==
  /\ rows[s].status = "active"
  /\ rows' = [rows EXCEPT ![s].status = "stopped"]
  /\ UNCHANGED serving

\* Closed sessions included: whoever places a session may be overtaken by
\* whoever closes it.
Serve(n, s) ==
  /\ rows[s].status # "none" /\ n \in {rows[s].node, rows[s].backup}
  /\ serving' = [serving EXCEPT ![n] = @ \cup {s}]
  /\ UNCHANGED rows

Abandon(n, gone) ==
  /\ serving' = [serving EXCEPT ![n] = @ \ gone]
  /\ UNCHANGED rows

Next ==
  \/ \E s \in Sessions :
       \/ Close(s)
       \/ \E u \in Users, n \in Nodes, b \in Nodes \cup {None} : Open(s, u, n, b)
  \/ \E n \in Nodes :
       \/ \E s \in Sessions : Serve(n, s)
       \/ \E gone \in SUBSET Sessions : Abandon(n, gone)

Spec == Init /\ [][Next]_vars
=============================================================================
