------------------------------- MODULE Relay --------------------------------
(***************************************************************************)
(* The relay process: the session cache with its callers, composed with    *)
(* the datapath.  They interact through the shared cache and through the   *)
(* forward sockets they hold.                                              *)
(***************************************************************************)
EXTENDS Forwarder

Init ==
  /\ sessions = [t \in Tokens |-> NoSession]
  /\ portToken = [p \in Ports |-> None]
  /\ gauge = 0
  /\ proc = [w \in Procs |-> Idle]
  /\ todo = {}
  /\ lsn = [l \in Listeners |-> Off]
  /\ fwd = NoPacket
  /\ bound = [p \in Ports |-> [token |-> None, ips |-> {}]]
  /\ heard = [t \in Tokens |-> {}]

HttpRequest(w) ==
  \E t \in Tokens :
    \/ \E r \in Requests : BeginRegister(w, t, r)
    \/ BeginUnregister(w, t)

Next ==
  \/ \E w \in Workers : HttpRequest(w) \/ Register(w)
  \/ \E w \in Procs : Unregister(w)
  \/ Cleanup
  \/ \E t \in Tokens : Age(t)
  \/ ClientListener
  \/ \E l \in Listeners : ResponseListener(l)

Spec == Init /\ [][Next]_vars

(***************************************************************************)
(* Fairness.  Every step of a handler, of the cleanup task (an endless     *)
(* interval loop) and of a listener that has a datagram in hand is run by  *)
(* the tokio scheduler and blocks on nothing outside the process.  Nothing *)
(* is assumed of callers, of clients or of game servers.                   *)
(***************************************************************************)
FairSpec ==
  /\ Spec
  /\ \A w \in Workers : WF_vars(Register(w) \/ Unregister(w))
  /\ WF_vars(Unregister(Cleaner)) /\ WF_vars(Cleanup)
  /\ WF_vars(ForwardToGame)
  /\ \A l \in Listeners : WF_vars(ReadClient(l) \/ SendResponse(l))

\* The same, when game servers also keep sending to every open socket.
TalkativeSpec ==
  FairSpec /\ \A l \in Listeners : WF_vars(ResolveToken(l))
-----------------------------------------------------------------------------
ProcState ==
  [pc : {"idle", "check", "remove", "removePort", "evictLen", "evictGauge",
         "bind", "insert", "insertPort", "regLen", "regGauge", "spawn"},
   op : {"none", "register", "unregister", "cleanup"},
   token : Tokens \cup {None}, ips : SUBSET GameIps,
   target : GameIps \cup {None}, port : Ports \cup {None}, len : Nat]

ListenerState ==
  [pc : {"off", "recv", "session", "send"}, sock : Ports \cup {None},
   token : Tokens \cup {None}, client : Clients \cup {None}]

\* Program points only a register call reaches.
Registering ==
  {"check", "bind", "insert", "insertPort", "regLen", "regGauge", "spawn"}

\* A handler has a token while it runs, and owns a socket where Holding says so.
LocalsSet(q) ==
  /\ q.pc # "idle" => q.token \in Tokens
  /\ q.pc \in Registering => q.op = "register"
  /\ q.pc \in Holding \cup {"insertPort"} => q.port \in Ports
  /\ q.target \in q.ips \cup {None}

\* A listener task has a socket, and past its first lookup a token.
TaskSet(k) ==
  /\ k.pc # "off" => k.sock \in Ports
  /\ k.pc \in {"session", "send"} => k.token \in Tokens

CacheType ==
  /\ sessions \in [Tokens -> Session]
  /\ portToken \in [Ports -> Tokens \cup {None}]
  /\ gauge \in Nat
  /\ todo \in SUBSET Tokens

ProcType ==
  /\ proc \in [Procs -> ProcState]
  /\ \A w \in Procs : LocalsSet(proc[w])

ListenerType ==
  /\ lsn \in [Listeners -> ListenerState]
  /\ \A l \in Listeners : TaskSet(lsn[l])

PacketType ==
  /\ fwd \in {NoPacket} \cup [sock : Ports, target : GameIps]
  /\ bound \in [Ports -> [token : Tokens \cup {None}, ips : SUBSET GameIps]]
  /\ heard \in [Tokens -> SUBSET Clients]

\* The shape of the state, and which locals are set at which program point.
TypeOK == CacheType /\ ProcType /\ ListenerType /\ PacketType

\* A forward socket belongs to one SessionInfo, whether that is in the map or
\* in the hands of a handler: no two sessions ever share one (session.rs:70).
SocketsExclusive ==
  LET Holds(w, p) == proc[w].pc \in Holding /\ proc[w].port = p IN
  /\ \A t, u \in Live : sessions[t].sock = sessions[u].sock => t = u
  /\ \A t \in Live, w \in Procs : ~Holds(w, sessions[t].sock)
  /\ \A w, x \in Procs, p \in Ports : Holds(w, p) /\ Holds(x, p) => w = x

\* The datagram client_listener sends after it has released the entry's lock
\* goes to a game server of the very registration that opened the socket it is
\* sent from, whatever happened to the session meanwhile (forwarder.rs:97-103).
TargetsGranted ==
  fwd # NoPacket => fwd.target \in bound[fwd.sock].ips

\* A response is sent only to an address that has used the token it carries,
\* never to the placeholder or to a stranger (forwarder.rs:152-165).
AnswersOnlyHeard ==
  \A l \in Listeners :
    lsn[l].pc = "send" => lsn[l].client \in heard[lsn[l].token]

\* The capacity check and the insert are far apart, so concurrent registers
\* may overshoot max_sessions, but by less than the number of handlers.
OvershootBounded ==
  Cardinality(Live) + 1 <= MaxSessions + Cardinality(Workers)

\* A datagram that reached a forward socket is answered under the token whose
\* registration opened that socket (session.rs:138).
RoutedToOwner ==
  \A l \in Listeners :
    lsn[l].pc \in {"session", "send"} =>
      lsn[l].token = bound[lsn[l].sock].token

\* Between calls about a token the two maps are inverse to each other at it.
MapsAgree ==
  \A t \in Tokens : ~Busy(t) =>
    \A p \in Ports : portToken[p] = t <=> sessions[t].sock = p

\* Between calls about a token, its session has a task bringing answers back.
SessionListened ==
  \A t \in Live : ~Busy(t) =>
    \E l \in Listeners : lsn[l].sock = sessions[t].sock

\* A stale session that hears nothing more is removed (main.rs:66-74).
StaleRemoved ==
  \A t \in Tokens :
    Present(t) /\ ~sessions[t].fresh ~> ~Present(t) \/ sessions[t].fresh

\* "The forward socket is dropped, causing the response listener task to
\* terminate." (session.rs:113-114): a listener whose session is gone ends.
ListenerTerminates ==
  \A l \in Listeners, p \in Ports :
    lsn[l].sock = p /\ (\A t \in Tokens : sessions[t].sock # p)
      ~> lsn[l].sock # p

\* The part of an entry, and of a listener's task, that shows outside.
Entry(e) == [sock |-> e.sock, ips |-> e.ips, target |-> e.target,
             client |-> e.client]
Bringing(k) ==
  IF k.pc = "send" THEN [sock |-> k.sock, token |-> k.token, client |-> k.client]
                   ELSE [sock |-> None, token |-> None, client |-> None]

Entries == [t \in Tokens |-> Entry(sessions[t])]
Answers == [l \in Listeners |-> Bringing(lsn[l])]

Table == INSTANCE SessionTable
           WITH Tasks <- Listeners, table <- Entries, opened <- bound,
                packet <- fwd, answer <- Answers

\* To callers that do not overlap calls about one token the relay is a table
\* whose operations happen at once: an entry comes with its insert into the
\* session map (session.rs:86-105) and goes with its removal (session.rs:116);
\* what the calls do before and after does not show.
IsTable == Table!Spec
=============================================================================
