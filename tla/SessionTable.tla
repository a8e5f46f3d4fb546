---------------------------- MODULE SessionTable ----------------------------
(***************************************************************************)
(* What the relay is to those who use it: one table from tokens to         *)
(* sessions, whose operations happen at once.  A session has a socket of   *)
(* its own, opened for it.  A packet that carries the session's token      *)
(* tells where the client is, may choose among the granted game servers,   *)
(* or goes out by the socket to the chosen one; an answer that comes to a  *)
(* socket goes to the client of the session the socket was opened for.     *)
(*                                                                         *)
(* The relay of module Relay has two maps, which several threads change    *)
(* one operation at a time, and uses values after it has released them.    *)
(***************************************************************************)
CONSTANTS Tokens, Ports, Clients, GameIps,
          Tasks,  \* what brings answers back
          None

VARIABLES
  table,   \* token |-> session
  opened,  \* socket |-> for which token and which grants it was opened last
  packet,  \* the client's packet that is on its way
  answer   \* task |-> the answer it brings

vars == <<table, opened, packet, answer>>

NoSession == [sock |-> None, ips |-> {}, target |-> None, client |-> None]
NoPacket == [sock |-> None, target |-> None]
NoAnswer == [sock |-> None, token |-> None, client |-> None]

Has(t) == table[t].sock # None

Init ==
  /\ table = [t \in Tokens |-> NoSession]
  /\ opened = [p \in Ports |-> [token |-> None, ips |-> {}]]
  /\ packet = NoPacket
  /\ answer = [k \in Tasks |-> NoAnswer]

\* A socket that nobody uses is opened for a session to come.
Open(p, t, ips) ==
  /\ \A u \in Tokens : table[u].sock # p
  /\ packet.sock # p /\ \A k \in Tasks : answer[k].sock # p
  /\ opened' = [opened EXCEPT ![p] = [token |-> t, ips |-> ips]]
  /\ UNCHANGED <<table, packet, answer>>

\* The session enters the table, with one of its grants as target or with none.
Enter(p, t, g) ==
  /\ opened[p].token = t /\ ~Has(t)
  /\ \A u \in Tokens : table[u].sock # p
  /\ g \in opened[p].ips \cup {None}
  /\ table' = [table EXCEPT ![t] = [sock |-> p, ips |-> opened[p].ips,
                                    target |-> g, client |-> None]]
  /\ UNCHANGED <<opened, packet, answer>>

Leave(t) ==
  /\ Has(t)
  /\ table' = [table EXCEPT ![t] = NoSession]
  /\ UNCHANGED <<opened, packet, answer>>

\* A packet of a session comes while none is on its way.
Hear(t, c) ==
  /\ Has(t) /\ packet = NoPacket
  /\ table' = [table EXCEPT ![t].client = c]
  /\ UNCHANGED <<opened, packet, answer>>

Choose(t, c, g) ==
  /\ Has(t) /\ packet = NoPacket
  /\ g \in table[t].ips
  /\ table' = [table EXCEPT ![t].client = c, ![t].target = g]
  /\ UNCHANGED <<opened, packet, answer>>

Take(t, c) ==
  /\ Has(t) /\ packet = NoPacket
  /\ table[t].target # None
  /\ table' = [table EXCEPT ![t].client = c]
  /\ packet' = [sock |-> table[t].sock, target |-> table[t].target]
  /\ UNCHANGED <<opened, answer>>

Send ==
  /\ packet # NoPacket
  /\ packet' = NoPacket
  /\ UNCHANGED <<table, opened, answer>>

\* An answer came to socket p.  The session may have left and come back since.
TakeAnswer(k, p) ==
  LET t == opened[p].token IN
  /\ answer[k] = NoAnswer
  /\ t \in Tokens /\ Has(t) /\ table[t].client # None
  /\ answer' = [answer EXCEPT ![k] = [sock |-> p, token |-> t,
                                      client |-> table[t].client]]
  /\ UNCHANGED <<table, opened, packet>>

SendAnswer(k) ==
  /\ answer[k] # NoAnswer
  /\ answer' = [answer EXCEPT ![k] = NoAnswer]
  /\ UNCHANGED <<table, opened, packet>>

Next ==
  \/ \E p \in Ports, t \in Tokens :
       \/ \E ips \in SUBSET GameIps : Open(p, t, ips)
       \/ \E g \in GameIps \cup {None} : Enter(p, t, g)
  \/ \E t \in Tokens :
       \/ Leave(t)
       \/ \E c \in Clients :
            Hear(t, c) \/ Take(t, c) \/ \E g \in GameIps : Choose(t, c, g)
  \/ Send
  \/ \E k \in Tasks : SendAnswer(k) \/ \E p \in Ports : TakeAnswer(k, p)

Spec == Init /\ [][Next]_vars
=============================================================================
