----------------------------- MODULE Forwarder ------------------------------
(***************************************************************************)
(* The relay's datapath (relay/src/forwarder.rs): the client_listener loop *)
(* that takes PLG packets from the main socket to the game servers, and    *)
(* the response-listener tasks that bring the game's answers back.         *)
(*                                                                         *)
(* The network is the environment: at any time a packet of any kind from   *)
(* any client, carrying any token, may arrive at the main socket, and a    *)
(* datagram may arrive at any open forward socket.  That covers loss,      *)
(* duplication, delay and reordering.                                      *)
(***************************************************************************)
EXTENDS SessionCache

NoPacket == [sock |-> None, target |-> None]

Hear(t, c) == heard' = [heard EXCEPT ![t] = @ \cup {c}]

\* What every packet of a known session does first, under the entry's lock.
Touched(t, c) == [sessions[t] EXCEPT !.client = c, !.fresh = TRUE]

\* client_listener is at recv_from: it handles one packet at a time.
Receiving(t, c) ==
  /\ fwd = NoPacket
  /\ Present(t)
  /\ Hear(t, c)
  /\ UNCHANGED <<portToken, gauge, proc, todo, lsn, bound>>

Keepalive(t, c) ==
  /\ Receiving(t, c)
  /\ sessions' = [sessions EXCEPT ![t] = Touched(t, c)]
  /\ UNCHANGED fwd

\* A fault: the target is not checked against the allowed IPs.
ControlUnchecked(t, c, ip) ==
  /\ Receiving(t, c)
  /\ sessions' = [sessions EXCEPT ![t] = [Touched(t, c) EXCEPT !.target = ip]]
  /\ UNCHANGED fwd

\* A control packet names a new target; it counts only if its IP is one the
\* session was registered with.
Control(t, c, ip) ==
  /\ Receiving(t, c)
  /\ sessions' = [sessions EXCEPT ![t] =
                    IF ip \in sessions[t].ips
                    THEN [Touched(t, c) EXCEPT !.target = ip]
                    ELSE Touched(t, c)]
  /\ UNCHANGED fwd

\* A data packet: copy the socket and the target out of the entry, release
\* its lock, and send.  Without a target the packet is dropped.
Data(t, c) ==
  /\ Receiving(t, c)
  /\ sessions' = [sessions EXCEPT ![t] = Touched(t, c)]
  /\ fwd' = IF sessions[t].target = None THEN NoPacket
            ELSE [sock |-> sessions[t].sock, target |-> sessions[t].target]

\* send_to(payload, target) completes, successfully or not.
ForwardToGame ==
  /\ fwd # NoPacket
  /\ fwd' = NoPacket
  /\ UNCHANGED <<sessions, portToken, gauge, proc, todo, lsn, bound, heard>>
-----------------------------------------------------------------------------
(* One response listener.  A datagram from the game arrives at its socket: *)
(* the task looks the token up by port, then the client by token, then     *)
(* sends.  It ends when either lookup fails.                               *)

Retire(l) == lsn' = [lsn EXCEPT ![l] = Off]

\* A fault: an unknown port is taken for a stray datagram.
ResolveTokenForever(l) ==
  /\ lsn[l].pc = "recv"
  /\ LET t == portToken[lsn[l].sock] IN
       /\ t # None
       /\ lsn' = [lsn EXCEPT ![l].pc = "session", ![l].token = t]
  /\ UNCHANGED <<sessions, portToken, gauge, proc, todo, fwd, bound, heard>>

ResolveToken(l) ==
  /\ lsn[l].pc = "recv"
  /\ LET t == portToken[lsn[l].sock] IN
     \/ /\ t = None
        /\ Retire(l)
     \/ /\ t # None
        /\ lsn' = [lsn EXCEPT ![l].pc = "session", ![l].token = t]
  /\ UNCHANGED <<sessions, portToken, gauge, proc, todo, fwd, bound, heard>>

\* A fault: the placeholder address is not recognised.
ReadClientBlindly(l) ==
  LET t == lsn[l].token IN
  /\ lsn[l].pc = "session"
  /\ \/ /\ ~Present(t)
        /\ Retire(l)
     \/ /\ Present(t)
        /\ lsn' = [lsn EXCEPT ![l].pc = "send",
                              ![l].client = sessions[t].client]
  /\ UNCHANGED <<sessions, portToken, gauge, proc, todo, fwd, bound, heard>>

\* A fault: the task ends when the client has not been heard of yet.
ReadClientGivesUp(l) ==
  LET t == lsn[l].token IN
  /\ lsn[l].pc = "session"
  /\ \/ /\ ~Present(t) \/ sessions[t].client = None
        /\ Retire(l)
     \/ /\ Present(t) /\ sessions[t].client # None
        /\ lsn' = [lsn EXCEPT ![l].pc = "send",
                              ![l].client = sessions[t].client]
  /\ UNCHANGED <<sessions, portToken, gauge, proc, todo, fwd, bound, heard>>

ReadClient(l) ==
  LET t == lsn[l].token IN
  /\ lsn[l].pc = "session"
  /\ \/ /\ ~Present(t)
        /\ Retire(l)
     \/ /\ Present(t) /\ sessions[t].client = None
        /\ lsn' = [lsn EXCEPT ![l] = ListeningOn(lsn[l].sock)]
     \/ /\ Present(t) /\ sessions[t].client # None
        /\ lsn' = [lsn EXCEPT ![l].pc = "send",
                              ![l].client = sessions[t].client]
  /\ UNCHANGED <<sessions, portToken, gauge, proc, todo, fwd, bound, heard>>

SendResponse(l) ==
  /\ lsn[l].pc = "send"
  /\ lsn' = [lsn EXCEPT ![l] = ListeningOn(lsn[l].sock)]
  /\ UNCHANGED <<sessions, portToken, gauge, proc, todo, fwd, bound, heard>>
-----------------------------------------------------------------------------
ClientListener ==
  \/ \E t \in Tokens, c \in Clients :
       \/ Keepalive(t, c)
       \/ \E ip \in GameIps : Control(t, c, ip)
       \/ Data(t, c)
  \/ ForwardToGame

ResponseListener(l) == ResolveToken(l) \/ ReadClient(l) \/ SendResponse(l)
=============================================================================
