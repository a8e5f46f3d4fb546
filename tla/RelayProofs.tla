---------------------------- MODULE RelayProofs -----------------------------
(***************************************************************************)
(* What holds of Relay for any tokens, ports, clients, handlers and        *)
(* listeners, finitely many of the tokens, and in every interleaving.      *)
(*                                                                         *)
(* TypeOK is inductive.  It has four parts, and a step disturbs at most    *)
(* two: a handler's step replaces its local state by another well-formed   *)
(* one (ProcUpdate, MoveTo), a listener's step its task (TaskUpdate), and  *)
(* one entry of the map is replaced by a SessionInfo (SessionUpdate).      *)
(*                                                                         *)
(* Four safety properties have an inductive invariant of their own each,   *)
(* relative to TypeOK:                                                     *)
(*                                                                         *)
(*   SocketsExclusive   itself: a port is bound only when nobody holds it, *)
(*                      and every other step hands a socket on or drops it *)
(*   TargetsGranted     GrantInv: the grant travels with the socket from   *)
(*                      the handler to the entry and on to the packet      *)
(*   AnswersOnlyHeard   HeardInv: an address enters an entry only by a     *)
(*                      packet carrying the entry's token                  *)
(*   OvershootBounded   CapacityInv: entries and admitted register calls   *)
(*                      together stay below the bound                      *)
(*                                                                         *)
(* Each is proved the same way: a frame lemma says which changes cannot    *)
(* hurt, and the few actions it does not cover get a lemma each.           *)
(***************************************************************************)
EXTENDS Relay, FiniteSetTheorems, TLAPS

\* The length of the map is a natural number.
LEMMA LiveCount == Cardinality(Live) \in Nat
<1>1. IsFiniteSet(Live)
  BY RelayAssumption, FS_Subset DEF Live
<1>2. QED
  BY <1>1, FS_CardinalityType

\* A handler's step puts a well-formed local state in place of the old one.
LEMMA ProcUpdate ==
  ASSUME ProcType, NEW w \in Procs, NEW q \in ProcState, LocalsSet(q),
         proc' = [proc EXCEPT ![w] = q]
  PROVE  ProcType'
BY DEF ProcType, LocalsSet, ProcState

\* A listener's step puts a well-formed task in place of the old one.
LEMMA TaskUpdate ==
  ASSUME ListenerType, NEW l \in Listeners, NEW k \in ListenerState, TaskSet(k),
         lsn' = [lsn EXCEPT ![l] = k]
  PROVE  ListenerType'
BY DEF ListenerType, TaskSet, ListenerState

\* Replacing one entry by another keeps the map well-formed.
LEMMA SessionUpdate ==
  ASSUME sessions \in [Tokens -> Session], NEW t \in Tokens, NEW s \in Session,
         sessions' = [sessions EXCEPT ![t] = s]
  PROVE  sessions' \in [Tokens -> Session]
OBVIOUS

\* A handler between calls.
LEMMA IdleState == Idle \in ProcState /\ LocalsSet(Idle)
BY DEF Idle, ProcState, LocalsSet, Holding, Registering

\* The relay starts well-typed.
LEMMA InitType == Init => TypeOK
BY RelayAssumption, IdleState DEF Init, TypeOK, CacheType, ProcType, ListenerType,
   PacketType, Session, NoSession, ListenerState, TaskSet, Off

\* The start of an HTTP call.
LEMMA CallType ==
  ASSUME TypeOK, NEW w \in Workers, HttpRequest(w)
  PROVE  TypeOK'
<1> w \in Procs
  BY DEF Procs
<1>1. ASSUME NEW t \in Tokens, NEW r \in Requests, BeginRegister(w, t, r)
      PROVE  ProcType'
  <2> DEFINE q == [Idle EXCEPT !.pc = "check", !.op = "register", !.token = t,
                             !.ips = r.ips, !.target = r.target]
  <2>1. q \in ProcState /\ LocalsSet(q)
    BY RelayAssumption DEF Idle, ProcState, LocalsSet, Holding, Registering
  <2>2. QED
    BY <1>1, <2>1, ProcUpdate DEF BeginRegister, TypeOK
<1>2. ASSUME NEW t \in Tokens, BeginUnregister(w, t)
      PROVE  ProcType'
  <2> DEFINE q == [Idle EXCEPT !.pc = "remove", !.op = "unregister", !.token = t]
  <2>1. q \in ProcState /\ LocalsSet(q)
    BY DEF Idle, ProcState, LocalsSet, Holding, Registering
  <2>2. QED
    BY <1>2, <2>1, ProcUpdate DEF BeginUnregister, TypeOK
<1>3. UNCHANGED <<sessions, portToken, gauge, todo, lsn, fwd, bound, heard>>
  BY DEF HttpRequest, BeginRegister, BeginUnregister
<1>4. ProcType'
  BY <1>1, <1>2 DEF HttpRequest
<1>5. QED
  BY <1>3, <1>4 DEF TypeOK, CacheType, ListenerType, PacketType

\* A step of a handler that changes no shared state but its own locals.
LEMMA LocalStep ==
  ASSUME TypeOK, NEW w \in Procs, NEW q \in ProcState, LocalsSet(q),
         proc' = [proc EXCEPT ![w] = q],
         UNCHANGED <<sessions, portToken, gauge, todo, lsn, fwd, bound, heard>>
  PROVE  TypeOK'
<1>1. ProcType'
  BY ProcUpdate DEF TypeOK
<1>2. QED
  BY <1>1 DEF TypeOK, CacheType, ListenerType, PacketType

\* Moving to another label keeps the locals well-formed when the label asks
\* for no socket, or the handler has one.
LEMMA MoveTo ==
  ASSUME ProcType, NEW w \in Procs, proc[w].pc # "idle",
         NEW pc \in {"check", "remove", "removePort", "evictLen", "evictGauge",
                     "bind", "insert", "insertPort", "regLen", "regGauge", "spawn"},
         pc \in Holding \cup {"insertPort"} => proc[w].port \in Ports,
         pc \in Registering => proc[w].op = "register"
  PROVE  /\ [proc[w] EXCEPT !.pc = pc] \in ProcState
         /\ LocalsSet([proc[w] EXCEPT !.pc = pc])
BY DEF ProcType, ProcState, LocalsSet

\* The return from unregister, to the caller or to the rest of register.
LEMMA AfterUnregisterType ==
  ASSUME ProcType, NEW w \in Procs, AfterUnregister(w), proc[w].pc # "idle"
  PROVE  ProcType'
<1>1. CASE proc[w].op = "register"
  <2> DEFINE q == [proc[w] EXCEPT !.pc = "bind", !.port = None, !.len = 0]
  <2>1. q \in ProcState /\ LocalsSet(q)
    BY <1>1 DEF ProcType, ProcState, LocalsSet, Holding, Registering
  <2>2. proc' = [proc EXCEPT ![w] = q]
    BY <1>1 DEF AfterUnregister
  <2>3. QED
    BY <2>1, <2>2, ProcUpdate
<1>2. CASE proc[w].op # "register"
  BY <1>2, IdleState, ProcUpdate DEF AfterUnregister, Return
<1>3. QED
  BY <1>1, <1>2

\* The steps of register and of the listener's start.
LEMMA RegisterType ==
  ASSUME TypeOK, NEW w \in Workers, Register(w)
  PROVE  TypeOK'
<1> USE DEF TypeOK
<1>w. w \in Procs
  BY DEF Procs
<1>1. CASE CheckCapacity(w)
  <2>1. CASE Return(w)
    BY <1>1, <1>w, <2>1, IdleState, LocalStep DEF CheckCapacity, Return
  <2>2. CASE Goto(w, "remove")
    BY <1>1, <1>w, <2>2, MoveTo, LocalStep DEF CheckCapacity, Goto, Holding,
       Registering
  <2>3. QED
    BY <1>1, <2>1, <2>2 DEF CheckCapacity
<1>2. ASSUME NEW p \in Ports, Bind(w, p) PROVE TypeOK'
  <2> DEFINE q == [proc[w] EXCEPT !.pc = "insert", !.port = p]
  <2>1. q \in ProcState /\ LocalsSet(q)
    BY <1>2, <1>w DEF Bind, ProcType, ProcState, LocalsSet, Registering
  <2>2. ProcType'
    BY <1>2, <1>w, <2>1, ProcUpdate DEF Bind
  <2>3. [token |-> proc[w].token, ips |-> proc[w].ips]
          \in [token : Tokens \cup {None}, ips : SUBSET GameIps]
    BY <1>w DEF ProcType, ProcState
  <2>4. PacketType'
    BY <1>2, <2>3 DEF Bind, PacketType
  <2>5. QED
    BY <1>2, <2>2, <2>4 DEF Bind, CacheType, ListenerType
<1>3. CASE BindFails(w)
  BY <1>3, <1>w, IdleState, LocalStep DEF BindFails, Return
<1>4. CASE InsertSession(w)
  <2> DEFINE s == [sock |-> proc[w].port, ips |-> proc[w].ips,
                   target |-> proc[w].target, client |-> None, fresh |-> TRUE]
  <2>1. s \in Session /\ proc[w].token \in Tokens
    BY <1>4, <1>w DEF InsertSession, ProcType, ProcState, LocalsSet, Session
  <2>2. sessions' \in [Tokens -> Session]
    BY <1>4, <2>1, SessionUpdate DEF InsertSession, CacheType
  <2>3. proc[w].port \in Ports
    BY <1>4, <1>w DEF InsertSession, ProcType, LocalsSet, Holding, Registering
  <2>4. ProcType'
    <3>1. proc[w].op = "register"
      BY <1>4, <1>w DEF InsertSession, ProcType, LocalsSet, Registering
    <3>2. QED
      BY <1>4, <1>w, <2>3, <3>1, MoveTo, ProcUpdate DEF InsertSession, Goto
  <2>5. QED
    BY <1>4, <2>2, <2>4 DEF InsertSession, CacheType, ListenerType, PacketType
<1>5. CASE InsertPort(w)
  <2>1. proc[w].token \in Tokens /\ proc[w].port \in Ports
    BY <1>5, <1>w DEF InsertPort, ProcType, LocalsSet
  <2>2. portToken' \in [Ports -> Tokens \cup {None}]
    BY <1>5, <2>1 DEF InsertPort, CacheType
  <2>3. ProcType'
    <3>1. proc[w].op = "register"
      BY <1>5, <1>w DEF InsertPort, ProcType, LocalsSet, Registering
    <3>2. QED
      BY <1>5, <1>w, <3>1, MoveTo, ProcUpdate DEF InsertPort, Goto, Holding
  <2>4. QED
    BY <1>5, <2>2, <2>3 DEF InsertPort, CacheType, ListenerType, PacketType
<1>6. CASE SpawnListener(w)
  <2>1. ProcType'
    BY <1>6, <1>w, IdleState, ProcUpdate DEF SpawnListener, Return
  <2>2. ASSUME Present(proc[w].token) PROVE ListenerType'
    <3> DEFINE k == ListeningOn(sessions[proc[w].token].sock)
    <3>1. k \in ListenerState /\ TaskSet(k)
      BY <1>6, <1>w, <2>2 DEF SpawnListener, ProcType, LocalsSet, CacheType,
         Session, Present, ListeningOn, Off, ListenerState, TaskSet
    <3>2. PICK l \in Listeners : lsn' = [lsn EXCEPT ![l] = k]
      BY <1>6, <2>2 DEF SpawnListener
    <3>3. QED
      BY <3>1, <3>2, TaskUpdate
  <2>3. ListenerType'
    BY <1>6, <2>2 DEF SpawnListener, ListenerType
  <2>4. QED
    BY <1>6, <2>1, <2>3 DEF SpawnListener, CacheType, PacketType
<1>7. QED
  BY <1>1, <1>2, <1>3, <1>4, <1>5, <1>6 DEF Register

\* The steps of unregister, whoever called it.
LEMMA UnregisterType ==
  ASSUME TypeOK, NEW w \in Procs, Unregister(w)
  PROVE  TypeOK'
<1> USE DEF TypeOK
<1>1. CASE RemoveSession(w)
  <2> DEFINE t == proc[w].token
  <2>1. t \in Tokens
    BY <1>1 DEF RemoveSession, ProcType, LocalsSet
  <2>2. CASE Present(t) /\ sessions' = [sessions EXCEPT ![t] = NoSession]
             /\ proc' = [proc EXCEPT ![w].pc = "removePort",
                                     ![w].port = sessions[t].sock]
    <3> DEFINE q == [proc[w] EXCEPT !.pc = "removePort", !.port = sessions[t].sock]
    <3>1. q \in ProcState /\ LocalsSet(q)
      BY ZenonT(30), <2>1, <2>2 DEF ProcType, ProcState, LocalsSet, CacheType, Session,
         Present, Registering
    <3>2. ProcType'
      BY <2>2, <3>1, ProcUpdate
    <3>3. sessions' \in [Tokens -> Session]
      BY <2>1, <2>2, SessionUpdate DEF CacheType, Session, NoSession
    <3>4. QED
      BY <1>1, <3>2, <3>3 DEF RemoveSession, CacheType, ListenerType, PacketType
  <2>3. CASE AfterUnregister(w) /\ UNCHANGED sessions
    <3>1. ProcType'
      BY <1>1, <2>3, AfterUnregisterType DEF RemoveSession
    <3>2. QED
      BY <1>1, <2>3, <3>1 DEF RemoveSession, CacheType, ListenerType, PacketType
  <2>4. QED
    BY <1>1, <2>2, <2>3 DEF RemoveSession
<1>2. CASE RemovePort(w)
  <2>1. proc[w].port \in Ports
    BY <1>2 DEF RemovePort, ProcType, LocalsSet, Holding, Registering
  <2>2. ProcType'
    BY <1>2, <2>1, MoveTo, ProcUpdate DEF RemovePort, Goto, Registering
  <2>3. portToken' \in [Ports -> Tokens \cup {None}]
    BY <1>2, <2>1 DEF RemovePort, CacheType
  <2>4. QED
    BY <1>2, <2>2, <2>3 DEF RemovePort, CacheType, ListenerType, PacketType
<1>3. CASE ReadLen(w)
  <2> DEFINE pc == IF proc[w].pc = "evictLen" THEN "evictGauge" ELSE "regGauge"
             q == [proc[w] EXCEPT !.len = Cardinality(Live), !.pc = pc]
  <2>1. q \in ProcState /\ LocalsSet(q)
    BY <1>3, LiveCount DEF ReadLen, ProcType, ProcState, LocalsSet, Holding, Registering
  <2>2. proc' = [proc EXCEPT ![w] = q]
    BY <1>3 DEF ReadLen
  <2>3. QED
    BY <1>3, <2>1, <2>2, LocalStep DEF ReadLen
<1>4. CASE SetGauge(w)
  <2>1. gauge' \in Nat
    BY <1>4 DEF SetGauge, ProcType, ProcState
  <2>2. ASSUME proc[w].pc = "evictGauge", AfterUnregister(w) PROVE ProcType'
    BY <2>2, AfterUnregisterType
  <2>3. ASSUME proc[w].pc = "regGauge",
               proc' = [proc EXCEPT ![w].pc = "spawn", ![w].len = 0]
        PROVE  ProcType'
    <3> DEFINE q == [proc[w] EXCEPT !.pc = "spawn", !.len = 0]
    <3>1. q \in ProcState /\ LocalsSet(q)
      BY <2>3 DEF ProcType, ProcState, LocalsSet, Holding, Registering
    <3>2. QED
      BY <2>3, <3>1, ProcUpdate
  <2>4. ProcType'
    BY <1>4, <2>2, <2>3 DEF SetGauge
  <2>5. QED
    BY <1>4, <2>1, <2>4 DEF SetGauge, CacheType, ListenerType, PacketType
<1>5. QED
  BY <1>1, <1>2, <1>3, <1>4 DEF Unregister

\* The steps of cleanup_stale.
LEMMA CleanupType ==
  ASSUME TypeOK, Cleanup
  PROVE  TypeOK'
<1> USE DEF TypeOK
<1>1. CASE CollectStale
  BY <1>1 DEF CollectStale, Stale, Live, CacheType, ProcType, ListenerType,
     PacketType
<1>2. ASSUME NEW t \in Tokens, RemoveNextStale(t) PROVE TypeOK'
  <2> DEFINE q == [Idle EXCEPT !.pc = "remove", !.op = "cleanup", !.token = t]
  <2>1. q \in ProcState /\ LocalsSet(q)
    BY DEF Idle, ProcState, LocalsSet, Holding, Registering
  <2>2. ProcType'
    BY <1>2, <2>1, ProcUpdate DEF RemoveNextStale, Procs
  <2>3. QED
    BY <1>2, <2>2 DEF RemoveNextStale, CacheType, ListenerType, PacketType
<1>3. QED
  BY <1>1, <1>2 DEF Cleanup

\* The passing of session_timeout.
LEMMA AgeType ==
  ASSUME TypeOK, NEW t \in Tokens, Age(t)
  PROVE  TypeOK'
<1>1. [sessions[t] EXCEPT !.fresh = FALSE] \in Session
  BY DEF TypeOK, CacheType, Session
<1>2. sessions' \in [Tokens -> Session]
  BY <1>1, SessionUpdate DEF Age, TypeOK, CacheType
<1>3. QED
  BY <1>2 DEF Age, TypeOK, CacheType, ProcType, ListenerType, PacketType

\* The main socket's loop.
LEMMA ClientListenerType ==
  ASSUME TypeOK, ClientListener
  PROVE  TypeOK'
<1> USE DEF TypeOK
<1>1. ASSUME NEW t \in Tokens, NEW c \in Clients, Receiving(t, c),
             sessions' \in [Tokens -> Session],
             fwd' \in {NoPacket} \cup [sock : Ports, target : GameIps]
      PROVE  TypeOK'
  <2>1. PacketType'
    BY <1>1 DEF Receiving, Hear, PacketType
  <2>2. QED
    BY <1>1, <2>1 DEF Receiving, CacheType, ProcType, ListenerType
<1>2. ASSUME NEW t \in Tokens, NEW c \in Clients
      PROVE  /\ Touched(t, c) \in Session
             /\ \A ip \in GameIps :
                  [Touched(t, c) EXCEPT !.target = ip] \in Session
  BY DEF Touched, CacheType, Session
<1>3. fwd \in {NoPacket} \cup [sock : Ports, target : GameIps]
  BY DEF PacketType
<1>4. ASSUME NEW t \in Tokens, NEW c \in Clients, Keepalive(t, c)
      PROVE  TypeOK'
  <2>1. sessions' \in [Tokens -> Session]
    BY <1>2, <1>4, SessionUpdate DEF Keepalive, CacheType
  <2>2. QED
    BY <1>1, <1>3, <1>4, <2>1 DEF Keepalive
<1>5. ASSUME NEW t \in Tokens, NEW c \in Clients, NEW ip \in GameIps,
             Control(t, c, ip)
      PROVE  TypeOK'
  <2>1. sessions' \in [Tokens -> Session]
    BY <1>2, <1>5, SessionUpdate DEF Control, CacheType
  <2>2. QED
    BY <1>1, <1>3, <1>5, <2>1 DEF Control
<1>6. ASSUME NEW t \in Tokens, NEW c \in Clients, Data(t, c)
      PROVE  TypeOK'
  <2>1. sessions' \in [Tokens -> Session]
    BY <1>2, <1>6, SessionUpdate DEF Data, CacheType
  <2>2. fwd' \in {NoPacket} \cup [sock : Ports, target : GameIps]
    BY <1>6 DEF Data, Receiving, Present, CacheType, Session
  <2>3. QED
    BY <1>1, <1>6, <2>1, <2>2 DEF Data
<1>7. CASE ForwardToGame
  BY <1>7 DEF ForwardToGame, CacheType, ProcType, ListenerType, PacketType
<1>8. QED
  BY <1>4, <1>5, <1>6, <1>7 DEF ClientListener

\* The steps of a response listener.
LEMMA ResponseListenerType ==
  ASSUME TypeOK, NEW l \in Listeners, ResponseListener(l)
  PROVE  TypeOK'
<1> USE DEF TypeOK
<1>1. UNCHANGED <<sessions, portToken, gauge, proc, todo, fwd, bound, heard>>
  BY DEF ResponseListener, ResolveToken, ReadClient, SendResponse
<1>2. SUFFICES ListenerType'
  BY <1>1 DEF CacheType, ProcType, PacketType
<1>3. Off \in ListenerState /\ TaskSet(Off)
  BY DEF Off, ListenerState, TaskSet
<1>4. ASSUME NEW p \in Ports
      PROVE  ListeningOn(p) \in ListenerState /\ TaskSet(ListeningOn(p))
  BY DEF ListeningOn, Off, ListenerState, TaskSet
<1>5. CASE ResolveToken(l)
  <2> DEFINE t == portToken[lsn[l].sock]
             k == [lsn[l] EXCEPT !.pc = "session", !.token = t]
  <2>1. ASSUME t # None PROVE k \in ListenerState /\ TaskSet(k)
    BY ZenonT(30), <1>5, <2>1 DEF ResolveToken, ListenerType, ListenerState, TaskSet,
       CacheType
  <2>2. CASE t = None
    BY <1>3, <1>5, <2>2, TaskUpdate DEF ResolveToken, Retire
  <2>3. CASE t # None
    <3>1. lsn' = [lsn EXCEPT ![l] = k]
      BY <1>5, <2>3 DEF ResolveToken
    <3>2. QED
      BY <2>1, <2>3, <3>1, TaskUpdate
  <2>4. QED
    BY <2>2, <2>3
<1>6. CASE ReadClient(l)
  <2> DEFINE c == sessions[lsn[l].token].client
             k == [lsn[l] EXCEPT !.pc = "send", !.client = c]
  <2>1. k \in ListenerState /\ TaskSet(k) /\ lsn[l].sock \in Ports
    BY ZenonT(30), <1>6 DEF ReadClient, ListenerType, ListenerState, TaskSet, CacheType,
       Session
  <2>2. CASE Retire(l)
    BY <1>3, <2>2, TaskUpdate DEF Retire
  <2>3. CASE lsn' = [lsn EXCEPT ![l] = ListeningOn(lsn[l].sock)]
    BY <1>4, <2>1, <2>3, TaskUpdate
  <2>4. CASE lsn' = [lsn EXCEPT ![l] = k]
    BY <2>1, <2>4, TaskUpdate
  <2>5. QED
    BY <1>6, <2>2, <2>3, <2>4 DEF ReadClient
<1>7. CASE SendResponse(l)
  <2>1. lsn[l].sock \in Ports
    BY <1>7 DEF SendResponse, ListenerType, TaskSet
  <2>2. QED
    BY <1>4, <1>7, <2>1, TaskUpdate DEF SendResponse
<1>8. QED
  BY <1>5, <1>6, <1>7 DEF ResponseListener

\* Every step keeps TypeOK.
LEMMA NextType == TypeOK /\ [Next]_vars => TypeOK'
<1> SUFFICES ASSUME TypeOK, [Next]_vars PROVE TypeOK'
  OBVIOUS
<1>1. CASE UNCHANGED vars
  BY <1>1 DEF vars, TypeOK, CacheType, ProcType, ListenerType, PacketType
<1>2. CASE Next
  BY <1>2, CallType, RegisterType, UnregisterType, CleanupType, AgeType,
     ClientListenerType, ResponseListenerType DEF Next
<1>3. QED
  BY <1>1, <1>2

\* Theorem: in every reachable state the variables have their types, a handler
\* has the locals its program point needs, and a listener task has a socket.
THEOREM TypeCorrect == Spec => []TypeOK
<1>1. Init => TypeOK
  BY InitType
<1>2. TypeOK /\ [Next]_vars => TypeOK'
  BY NextType
<1>3. QED
  BY <1>1, <1>2, PTL DEF Spec
-----------------------------------------------------------------------------
\* What w holds outside the map.
Holds(w, p) == proc[w].pc \in Holding /\ proc[w].port = p

\* A step that gives nobody a socket it did not have keeps them exclusive.
LEMMA NothingGained ==
  ASSUME TypeOK, SocketsExclusive,
         \A t \in Tokens : sessions'[t].sock \in {sessions[t].sock, None},
         \A w \in Procs, p \in Ports : Holds(w, p)' => Holds(w, p)
  PROVE  SocketsExclusive'
<1>1. \A t \in Live' : t \in Live /\ sessions'[t].sock = sessions[t].sock
  BY DEF Live, Present
<1>2. \A t \in Live : sessions[t].sock \in Ports
  BY DEF Live, Present, TypeOK, CacheType, Session
<1>3. QED
  BY <1>1, <1>2 DEF SocketsExclusive, Holds

\* The kernel hands out a port nobody holds.
LEMMA BindExclusive ==
  ASSUME TypeOK, SocketsExclusive, NEW w \in Workers, NEW p \in Ports, Bind(w, p)
  PROVE  SocketsExclusive'
BY DEF Bind, InUse, SocketsExclusive, Live, Present, Procs, TypeOK, ProcType,
   ProcState, Holding

\* A handler puts its socket into the map; an entry it replaces is dropped.
LEMMA InsertExclusive ==
  ASSUME TypeOK, SocketsExclusive, NEW w \in Workers, InsertSession(w)
  PROVE  SocketsExclusive'
BY DEF InsertSession, Goto, SocketsExclusive, Live, Present, Procs, TypeOK,
   ProcType, ProcState, CacheType, Session, LocalsSet, Holding

\* unregister takes an entry's socket out of the map.
LEMMA RemoveExclusive ==
  ASSUME TypeOK, SocketsExclusive, NEW w \in Procs, RemoveSession(w)
  PROVE  SocketsExclusive'
<1> DEFINE t == proc[w].token
<1>1. t \in Tokens
  BY DEF RemoveSession, TypeOK, ProcType, LocalsSet
<1>2. CASE Present(t)
  <2>1. /\ sessions' = [sessions EXCEPT ![t] = NoSession]
        /\ proc' = [proc EXCEPT ![w].pc = "removePort",
                                ![w].port = sessions[t].sock]
    BY <1>2 DEF RemoveSession
  <2>2. QED
    BY <1>1, <1>2, <2>1 DEF SocketsExclusive, Live, Present, NoSession, TypeOK,
       ProcType, ProcState, CacheType, Session, Holding
<1>3. CASE ~Present(t)
  BY <1>3, NothingGained DEF RemoveSession, AfterUnregister, Return, Idle,
     Holds, Holding, TypeOK, ProcType, ProcState
<1>4. QED
  BY <1>2, <1>3

\* The remaining steps of the cache move no socket.
LEMMA OtherCacheExclusive ==
  ASSUME TypeOK, SocketsExclusive, NEW w \in Procs,
         \/ RemovePort(w) \/ ReadLen(w) \/ SetGauge(w)
         \/ CheckCapacity(w) \/ BindFails(w) \/ InsertPort(w) \/ SpawnListener(w)
  PROVE  SocketsExclusive'
<1>1. UNCHANGED sessions
  BY DEF RemovePort, ReadLen, SetGauge, CheckCapacity, BindFails, InsertPort,
     SpawnListener
<1>2. \A x \in Procs, p \in Ports : Holds(x, p)' => Holds(x, p)
  BY DEF RemovePort, ReadLen, SetGauge, CheckCapacity, BindFails, InsertPort,
     SpawnListener, Goto, Return, AfterUnregister, Idle, Holds, Holding, TypeOK,
     ProcType, ProcState
<1>3. QED
  BY <1>1, <1>2, NothingGained

\* Calls begin without a socket.
LEMMA CallExclusive ==
  ASSUME TypeOK, SocketsExclusive,
         \/ \E w \in Workers : HttpRequest(w)
         \/ Cleanup
  PROVE  SocketsExclusive'
<1>1. UNCHANGED sessions
  BY DEF HttpRequest, BeginRegister, BeginUnregister, Cleanup, CollectStale,
     RemoveNextStale
<1>2. \A x \in Procs, p \in Ports : Holds(x, p)' => Holds(x, p)
  <2>1. ASSUME NEW w \in Workers, HttpRequest(w)
        PROVE  \E q : q.pc \notin Holding /\ proc' = [proc EXCEPT ![w] = q]
    BY <2>1 DEF HttpRequest, BeginRegister, BeginUnregister, Idle, Holding
  <2>2. ASSUME NEW t \in Tokens, RemoveNextStale(t)
        PROVE  \E q : q.pc \notin Holding
                      /\ proc' = [proc EXCEPT ![Cleaner] = q]
    BY <2>2 DEF RemoveNextStale, Idle, Holding
  <2>3. CollectStale => UNCHANGED proc
    BY DEF CollectStale
  <2>4. QED
    BY <2>1, <2>2, <2>3 DEF Cleanup, Holds, TypeOK, ProcType, Procs
<1>3. QED
  BY <1>1, <1>2, NothingGained

\* The datapath and the passing of time move no socket and run no handler.
LEMMA DatapathSockets ==
  ASSUME TypeOK,
         \/ \E t \in Tokens : Age(t)
         \/ ClientListener
         \/ \E l \in Listeners : ResponseListener(l)
  PROVE  /\ \A t \in Tokens : sessions'[t].sock = sessions[t].sock
         /\ UNCHANGED proc
<1>1. \A t \in Tokens : sessions'[t].sock = sessions[t].sock
  <2>1. ASSUME NEW t \in Tokens, Age(t)
        PROVE  \A u \in Tokens : sessions'[u].sock = sessions[u].sock
    BY <2>1 DEF Age, TypeOK, CacheType, Session
  <2>2. ASSUME NEW t \in Tokens, NEW c \in Clients, NEW s \in Session,
               sessions' = [sessions EXCEPT ![t] = s],
               s.sock = Touched(t, c).sock
        PROVE  \A u \in Tokens : sessions'[u].sock = sessions[u].sock
    BY <2>2 DEF Touched, TypeOK, CacheType, Session
  <2>3. ASSUME NEW t \in Tokens, NEW c \in Clients
        PROVE  /\ Touched(t, c) \in Session
               /\ \A ip \in GameIps :
                    LET s == [Touched(t, c) EXCEPT !.target = ip] IN
                    s \in Session /\ s.sock = Touched(t, c).sock
    BY DEF Touched, TypeOK, CacheType, Session
  <2>4. ASSUME NEW t \in Tokens, NEW c \in Clients,
               \/ Keepalive(t, c)
               \/ \E ip \in GameIps : Control(t, c, ip)
               \/ Data(t, c)
        PROVE  \A u \in Tokens : sessions'[u].sock = sessions[u].sock
    <3>1. \E s \in Session : sessions' = [sessions EXCEPT ![t] = s]
                             /\ s.sock = Touched(t, c).sock
      BY ZenonT(30), <2>3, <2>4 DEF Keepalive, Control, Data
    <3>2. QED
      BY <2>2, <3>1
  <2>5. ForwardToGame \/ (\E l \in Listeners : ResponseListener(l))
          => UNCHANGED sessions
    BY DEF ForwardToGame, ResponseListener, ResolveToken, ReadClient,
       SendResponse
  <2>6. QED
    BY <2>1, <2>4, <2>5 DEF ClientListener
<1>2. UNCHANGED proc
  BY DEF Age, ClientListener, Keepalive, Control, Data, ForwardToGame,
     Receiving, ResponseListener, ResolveToken, ReadClient, SendResponse
<1>3. QED
  BY <1>1, <1>2

\* Theorem: no two sessions, and no session and a handler's local variable,
\* ever own the same forward socket.
THEOREM SocketsNeverShared == Spec => []SocketsExclusive
<1>1. Init => SocketsExclusive
  BY DEF Init, SocketsExclusive, Live, Present, NoSession, Idle, Holding
<1>2. TypeOK /\ SocketsExclusive /\ [Next]_vars => SocketsExclusive'
  <2> SUFFICES ASSUME TypeOK, SocketsExclusive, [Next]_vars
               PROVE  SocketsExclusive'
    OBVIOUS
  <2>1. CASE UNCHANGED vars
    BY <2>1, NothingGained DEF vars, Holds
  <2>2. CASE \E w \in Workers : HttpRequest(w)
    BY <2>2, CallExclusive
  <2>3. ASSUME NEW w \in Workers, Register(w) PROVE SocketsExclusive'
    BY <2>3, BindExclusive, InsertExclusive, OtherCacheExclusive
       DEF Register, Procs
  <2>4. ASSUME NEW w \in Procs, Unregister(w) PROVE SocketsExclusive'
    BY <2>4, RemoveExclusive, OtherCacheExclusive DEF Unregister
  <2>5. CASE Cleanup
    BY <2>5, CallExclusive
  <2>6. CASE \/ \E t \in Tokens : Age(t)
             \/ ClientListener
             \/ \E l \in Listeners : ResponseListener(l)
    BY <2>6, DatapathSockets, NothingGained DEF Holds
  <2>7. QED
    BY <2>1, <2>2, <2>3, <2>4, <2>5, <2>6 DEF Next
<1>3. QED
  BY <1>1, <1>2, TypeCorrect, PTL DEF Spec
-----------------------------------------------------------------------------
(* Targets.                                                                *)

\* The grant travels with the socket: from the handler that binds it to the
\* map entry and on to the packet in flight.
GrantInv ==
  /\ \A t \in Live : /\ sessions[t].ips = bound[sessions[t].sock].ips
                     /\ sessions[t].target \in sessions[t].ips \cup {None}
  /\ \A w \in Procs : proc[w].pc = "insert" =>
       proc[w].ips = bound[proc[w].port].ips
  /\ TargetsGranted

\* What most steps leave alone.
LEMMA GrantKept ==
  ASSUME TypeOK, GrantInv, UNCHANGED bound, fwd' \in {fwd, NoPacket},
         \A t \in Tokens :
           \/ sessions'[t].sock = None
           \/ /\ sessions'[t].sock = sessions[t].sock
              /\ sessions'[t].ips = sessions[t].ips
              /\ sessions'[t].target \in {sessions[t].target} \cup sessions[t].ips,
         \A w \in Procs : proc'[w].pc = "insert" =>
           /\ proc[w].pc = "insert"
           /\ proc'[w].ips = proc[w].ips
           /\ proc'[w].port = proc[w].port
  PROVE  GrantInv'
<1>1. \A t \in Live' : t \in Live /\ t \in Tokens
                       /\ sessions'[t].sock = sessions[t].sock
                       /\ sessions'[t].ips = sessions[t].ips
                       /\ sessions'[t].target
                            \in {sessions[t].target} \cup sessions[t].ips
  BY DEF Live, Present
<1>2. TargetsGranted'
  BY DEF GrantInv, TargetsGranted
<1>3. QED
  BY <1>1, <1>2 DEF GrantInv

\* A fresh socket is granted the IPs of the call that binds it.
LEMMA BindGrants ==
  ASSUME TypeOK, GrantInv, NEW w \in Workers, NEW p \in Ports, Bind(w, p)
  PROVE  GrantInv'
<1> USE DEF TypeOK
<1>1. /\ bound' = [bound EXCEPT ![p] = [token |-> proc[w].token,
                                        ips |-> proc[w].ips]]
      /\ proc' = [proc EXCEPT ![w].pc = "insert", ![w].port = p]
      /\ UNCHANGED <<sessions, fwd>>
      /\ ~InUse(p)
  BY DEF Bind
<1>2. \A t \in Live : sessions[t].sock # p
  BY <1>1 DEF InUse, Live
<1>3. \A x \in Procs : proc[x].pc = "insert" => proc[x].port # p
  BY <1>1 DEF InUse, Holding
<1>4. fwd # NoPacket => fwd.sock # p
  BY <1>1 DEF InUse
<1>5. ASSUME NEW q, q # p PROVE bound'[q].ips = bound[q].ips
  BY <1>1, <1>5 DEF PacketType
<1>6. bound'[p].ips = proc[w].ips
  BY <1>1 DEF PacketType
<1>7. /\ proc'[w].ips = proc[w].ips /\ proc'[w].port = p
      /\ \A x \in Procs : x # w => proc'[x] = proc[x]
  BY <1>1 DEF ProcType, ProcState, Procs
<1>8. UNCHANGED Live
  BY <1>1 DEF Live, Present
<1>9. TargetsGranted'
  BY <1>1, <1>4, <1>5 DEF GrantInv, TargetsGranted
<1>10. \A t \in Live' : /\ sessions'[t].ips = bound'[sessions'[t].sock].ips
                        /\ sessions'[t].target \in sessions'[t].ips \cup {None}
  BY <1>1, <1>2, <1>5, <1>8 DEF GrantInv
<1>11. \A x \in Procs : proc'[x].pc = "insert" =>
         proc'[x].ips = bound'[proc'[x].port].ips
  <2>1. ASSUME NEW x \in Procs, x # w, proc'[x].pc = "insert"
        PROVE  proc'[x].ips = bound'[proc'[x].port].ips
    BY <1>3, <1>5, <1>7, <2>1 DEF GrantInv
  <2>2. QED
    BY <1>6, <1>7, <2>1
<1>12. QED
  BY <1>9, <1>10, <1>11 DEF GrantInv

\* The entry inherits the grant from the handler.
LEMMA InsertGrants ==
  ASSUME TypeOK, GrantInv, NEW w \in Workers, InsertSession(w)
  PROVE  GrantInv'
<1> DEFINE t == proc[w].token
<1> USE DEF TypeOK
<1>1. w \in Procs /\ t \in Tokens /\ proc[w].pc = "insert"
  BY DEF InsertSession, Procs, ProcType, LocalsSet
<1>2. /\ sessions'[t].ips = proc[w].ips /\ sessions'[t].sock = proc[w].port
      /\ sessions'[t].target = proc[w].target
      /\ \A u \in Tokens : u # t => sessions'[u] = sessions[u]
  BY <1>1 DEF InsertSession, CacheType
<1>3. proc[w].target \in proc[w].ips \cup {None}
  BY <1>1 DEF ProcType, LocalsSet
<1>4. \A x \in Procs : proc'[x].pc = "insert" => proc'[x] = proc[x]
  BY <1>1 DEF InsertSession, Goto, ProcType, ProcState
<1>5. UNCHANGED <<bound, fwd>>
  BY DEF InsertSession
<1>6. TargetsGranted'
  BY <1>5 DEF GrantInv, TargetsGranted
<1>7. QED
  BY <1>1, <1>2, <1>3, <1>4, <1>5, <1>6 DEF GrantInv, Live, Present

\* The remaining steps of the cache grant nothing.
LEMMA CacheGrants ==
  ASSUME TypeOK, GrantInv, NEW w \in Procs,
         \/ Unregister(w)
         \/ CheckCapacity(w) \/ BindFails(w) \/ InsertPort(w) \/ SpawnListener(w)
  PROVE  GrantInv'
<1>1. UNCHANGED <<bound, fwd>>
  BY DEF Unregister, RemoveSession, RemovePort, ReadLen, SetGauge,
     CheckCapacity, BindFails, InsertPort, SpawnListener
<1>2. \A t \in Tokens : sessions'[t] = sessions[t] \/ sessions'[t].sock = None
  <2>1. ASSUME RemoveSession(w)
        PROVE  \/ UNCHANGED sessions
               \/ sessions' = [sessions EXCEPT ![proc[w].token] = NoSession]
    BY <2>1 DEF RemoveSession
  <2>2. \/ UNCHANGED sessions
        \/ sessions' = [sessions EXCEPT ![proc[w].token] = NoSession]
    BY <2>1 DEF Unregister, RemovePort, ReadLen, SetGauge, CheckCapacity,
       BindFails, InsertPort, SpawnListener
  <2>3. QED
    BY <2>2 DEF NoSession, TypeOK, CacheType
<1>3. \A x \in Procs : proc'[x].pc = "insert" => proc'[x] = proc[x]
  <2>1. ASSUME AfterUnregister(w)
        PROVE  \A x \in Procs : proc'[x].pc = "insert" => proc'[x] = proc[x]
    BY <2>1 DEF AfterUnregister, Return, Idle, TypeOK, ProcType, ProcState
  <2>2. ASSUME RemoveSession(w) \/ SetGauge(w)
        PROVE  \A x \in Procs : proc'[x].pc = "insert" => proc'[x] = proc[x]
    BY <2>1, <2>2 DEF RemoveSession, SetGauge, TypeOK, ProcType, ProcState
  <2>3. ASSUME \/ RemovePort(w) \/ ReadLen(w) \/ CheckCapacity(w)
               \/ BindFails(w) \/ InsertPort(w) \/ SpawnListener(w)
        PROVE  \A x \in Procs : proc'[x].pc = "insert" => proc'[x] = proc[x]
    BY <2>3 DEF RemovePort, ReadLen, CheckCapacity, BindFails, InsertPort,
       SpawnListener, Goto, Return, Idle, TypeOK, ProcType, ProcState
  <2>4. QED
    BY <2>2, <2>3 DEF Unregister
<1>4. QED
  BY <1>1, <1>2, <1>3, GrantKept

\* Calls begin without a grant.
LEMMA CallGrants ==
  ASSUME TypeOK, GrantInv, (\E w \in Workers : HttpRequest(w)) \/ Cleanup
  PROVE  GrantInv'
<1>1. UNCHANGED <<sessions, bound, fwd>>
  BY DEF HttpRequest, BeginRegister, BeginUnregister, Cleanup, CollectStale,
     RemoveNextStale
<1>2. \A x \in Procs : proc'[x].pc = "insert" => proc'[x] = proc[x]
  BY ZenonT(30) DEF HttpRequest, BeginRegister, BeginUnregister, Cleanup, CollectStale,
     RemoveNextStale, Idle, TypeOK, ProcType, Procs
<1>3. QED
  BY <1>1, <1>2, GrantKept

\* A packet of a known session changes its entry's client, age and, within the
\* allowed IPs, its target.
LEMMA PacketEntry ==
  ASSUME TypeOK, NEW t \in Tokens, NEW c \in Clients,
         \/ Keepalive(t, c)
         \/ \E ip \in GameIps : Control(t, c, ip)
         \/ Data(t, c)
  PROVE  /\ \A u \in Tokens :
              /\ sessions'[u].sock = sessions[u].sock
              /\ sessions'[u].ips = sessions[u].ips
              /\ sessions'[u].target \in {sessions[u].target} \cup sessions[u].ips
              /\ sessions'[u].client = sessions[u].client
                   \/ (u = t /\ sessions'[u].client = c)
         /\ Receiving(t, c)
<1>1. /\ Touched(t, c).sock = sessions[t].sock
      /\ Touched(t, c).ips = sessions[t].ips
      /\ Touched(t, c).target = sessions[t].target
      /\ Touched(t, c).client = c
      /\ Touched(t, c) \in Session
  BY DEF Touched, TypeOK, CacheType, Session
<1>2. \A u \in Tokens : u # t => sessions'[u] = sessions[u]
  BY DEF Keepalive, Control, Data, TypeOK, CacheType
<1>3. CASE sessions' = [sessions EXCEPT ![t] = Touched(t, c)]
  <2>1. sessions'[t] = Touched(t, c)
    BY <1>3 DEF TypeOK, CacheType
  <2>2. QED
    BY <1>1, <1>2, <2>1 DEF Keepalive, Control, Data
<1>4. ASSUME NEW ip \in GameIps, Control(t, c, ip), ip \in sessions[t].ips
      PROVE  /\ sessions'[t].sock = sessions[t].sock
             /\ sessions'[t].ips = sessions[t].ips
             /\ sessions'[t].target \in {sessions[t].target} \cup sessions[t].ips
             /\ sessions'[t].client = c
  <2>1. sessions'[t] = [Touched(t, c) EXCEPT !.target = ip]
    BY <1>4 DEF Control, TypeOK, CacheType
  <2>2. QED
    BY <1>1, <1>4, <2>1 DEF Session
<1>5. Receiving(t, c)
  BY DEF Keepalive, Control, Data
<1>6. QED
  BY <1>2, <1>3, <1>4, <1>5 DEF Keepalive, Control, Data

\* A packet is sent with the entry's socket and the entry's target.
LEMMA PacketGrants ==
  ASSUME TypeOK, GrantInv, NEW t \in Tokens, NEW c \in Clients,
         \/ Keepalive(t, c)
         \/ \E ip \in GameIps : Control(t, c, ip)
         \/ Data(t, c)
  PROVE  GrantInv'
<1>1. UNCHANGED <<proc, bound>>
  BY PacketEntry DEF Receiving
<1>2. CASE fwd' \in {fwd, NoPacket}
  BY <1>1, <1>2, PacketEntry, GrantKept
<1>3. CASE /\ fwd' = [sock |-> sessions[t].sock, target |-> sessions[t].target]
           /\ sessions[t].target # None
  <2>1. t \in Live
    BY PacketEntry DEF Receiving, Live
  <2>2. TargetsGranted'
    BY <1>1, <1>3, <2>1 DEF GrantInv, TargetsGranted
  <2>3. \A u \in Live' : u \in Live /\ u \in Tokens
    BY PacketEntry DEF Live, Present
  <2>4. QED
    BY <1>1, <2>2, <2>3, PacketEntry DEF GrantInv
<1>4. QED
  BY <1>2, <1>3 DEF Keepalive, Control, Data

\* GrantInv is an invariant.
LEMMA AlwaysGranted == Spec => []GrantInv
<1>1. Init => GrantInv
  BY DEF Init, GrantInv, TargetsGranted, Live, Present, NoSession, Idle
<1>2. TypeOK /\ GrantInv /\ [Next]_vars => GrantInv'
  <2> SUFFICES ASSUME TypeOK, GrantInv, [Next]_vars PROVE GrantInv'
    OBVIOUS
  <2>1. CASE UNCHANGED vars
    BY <2>1, GrantKept DEF vars
  <2>2. CASE (\E w \in Workers : HttpRequest(w)) \/ Cleanup
    BY <2>2, CallGrants
  <2>3. ASSUME NEW w \in Workers, Register(w) PROVE GrantInv'
    BY <2>3, BindGrants, InsertGrants, CacheGrants DEF Register, Procs
  <2>4. ASSUME NEW w \in Procs, Unregister(w) PROVE GrantInv'
    BY <2>4, CacheGrants
  <2>5. ASSUME NEW t \in Tokens, Age(t) PROVE GrantInv'
    <3>1. \A u \in Tokens : /\ sessions'[u].sock = sessions[u].sock
                            /\ sessions'[u].ips = sessions[u].ips
                            /\ sessions'[u].target = sessions[u].target
      BY <2>5 DEF Age, TypeOK, CacheType, Session
    <3>2. QED
      BY <2>5, <3>1, GrantKept DEF Age
  <2>6. CASE ForwardToGame \/ \E l \in Listeners : ResponseListener(l)
    BY <2>6, GrantKept DEF ForwardToGame, ResponseListener, ResolveToken,
       ReadClient, SendResponse
  <2>7. QED
    BY <2>1, <2>2, <2>3, <2>4, <2>5, <2>6, PacketGrants DEF Next, ClientListener
<1>3. QED
  BY <1>1, <1>2, TypeCorrect, PTL DEF Spec

\* Theorem: whatever happens to a session between the moment client_listener
\* copies its socket and target and the moment it sends, the datagram goes to a
\* game server granted to the registration that opened that socket.
THEOREM OnlyGrantedTargets == Spec => []TargetsGranted
<1>1. GrantInv => TargetsGranted
  BY DEF GrantInv
<1>2. QED
  BY <1>1, AlwaysGranted, PTL
-----------------------------------------------------------------------------
(* Answers.                                                                *)

\* An address gets into an entry, and from there into a listener's hands, only
\* by sending a packet with the entry's token.
HeardInv ==
  /\ \A t \in Tokens : sessions[t].client \in heard[t] \cup {None}
  /\ AnswersOnlyHeard

\* What most steps leave alone.
LEMMA HeardKept ==
  ASSUME TypeOK, HeardInv, UNCHANGED heard,
         \A t \in Tokens : sessions'[t].client \in {sessions[t].client, None},
         \A l \in Listeners : lsn'[l].pc = "send" => lsn'[l] = lsn[l]
  PROVE  HeardInv'
BY DEF HeardInv, AnswersOnlyHeard

\* No step of the cache or of a handler makes up an address.
LEMMA CacheHeard ==
  ASSUME TypeOK, HeardInv,
         \/ \E w \in Workers : HttpRequest(w) \/ Register(w)
         \/ \E w \in Procs : Unregister(w)
         \/ Cleanup
         \/ \E t \in Tokens : Age(t)
         \/ ForwardToGame
  PROVE  HeardInv'
<1>1. UNCHANGED heard
  BY DEF HttpRequest, BeginRegister, BeginUnregister, Register, CheckCapacity,
     Bind, BindFails, InsertSession, InsertPort, SpawnListener, Unregister,
     RemoveSession, RemovePort, ReadLen, SetGauge, Cleanup, CollectStale,
     RemoveNextStale, Age, ForwardToGame
<1>2. \A l \in Listeners : lsn'[l].pc = "send" => lsn'[l] = lsn[l]
  <2>1. ASSUME NEW w \in Workers, SpawnListener(w)
        PROVE  \A l \in Listeners : lsn'[l].pc = "send" => lsn'[l] = lsn[l]
    BY <2>1 DEF SpawnListener, ListeningOn, Off, TypeOK, ListenerType
  <2>2. (\E w \in Workers : SpawnListener(w)) \/ UNCHANGED lsn
    BY DEF HttpRequest, BeginRegister, BeginUnregister, Register, CheckCapacity,
       Bind, BindFails, InsertSession, InsertPort, Unregister,
       RemoveSession, RemovePort, ReadLen, SetGauge, Cleanup, CollectStale,
       RemoveNextStale, Age, ForwardToGame
  <2>3. QED
    BY <2>1, <2>2
<1>3. \A t \in Tokens : sessions'[t].client \in {sessions[t].client, None}
  <2>1. ASSUME NEW w \in Workers, InsertSession(w)
        PROVE  \A t \in Tokens : sessions'[t].client \in {sessions[t].client, None}
    BY <2>1 DEF InsertSession, TypeOK, CacheType
  <2>2. ASSUME NEW w \in Procs, RemoveSession(w)
        PROVE  \A t \in Tokens : sessions'[t].client \in {sessions[t].client, None}
    <3>1. \/ UNCHANGED sessions
          \/ sessions' = [sessions EXCEPT ![proc[w].token] = NoSession]
      BY <2>2 DEF RemoveSession
    <3>2. QED
      BY <3>1 DEF NoSession, TypeOK, CacheType
  <2>3. ASSUME NEW t \in Tokens, Age(t)
        PROVE  \A u \in Tokens : sessions'[u].client \in {sessions[u].client, None}
    BY <2>3 DEF Age, TypeOK, CacheType, Session
  <2>4. \/ \E w \in Workers : InsertSession(w)
        \/ \E w \in Procs : RemoveSession(w)
        \/ \E t \in Tokens : Age(t)
        \/ UNCHANGED sessions
    BY DEF HttpRequest, BeginRegister, BeginUnregister, Register, CheckCapacity,
       Bind, BindFails, InsertPort, SpawnListener, Unregister,
       RemovePort, ReadLen, SetGauge, Cleanup, CollectStale,
       RemoveNextStale, ForwardToGame
  <2>5. QED
    BY <2>1, <2>2, <2>3, <2>4
<1>4. QED
  BY <1>1, <1>2, <1>3, HeardKept

\* An address enters an entry together with the packet it sent.
LEMMA PacketHeard ==
  ASSUME TypeOK, HeardInv, NEW t \in Tokens, NEW c \in Clients,
         \/ Keepalive(t, c)
         \/ \E ip \in GameIps : Control(t, c, ip)
         \/ Data(t, c)
  PROVE  HeardInv'
<1>1. heard' = [heard EXCEPT ![t] = @ \cup {c}] /\ UNCHANGED lsn
  BY PacketEntry DEF Receiving, Hear
<1>2. \A u \in Tokens : heard[u] \subseteq heard'[u]
  BY <1>1 DEF TypeOK, PacketType
<1>3. c \in heard'[t]
  BY <1>1 DEF TypeOK, PacketType
<1>4. \A u \in Tokens : sessions'[u].client \in heard'[u] \cup {None}
  BY <1>2, <1>3, PacketEntry DEF HeardInv
<1>5. \A l \in Listeners : lsn[l].pc = "send" => lsn[l].token \in Tokens
  BY DEF TypeOK, ListenerType, TaskSet
<1>6. QED
  BY <1>1, <1>2, <1>4, <1>5 DEF HeardInv, AnswersOnlyHeard

\* A listener takes the address from the entry it looked up.
LEMMA ListenerHeard ==
  ASSUME TypeOK, HeardInv, NEW l \in Listeners, ResponseListener(l)
  PROVE  HeardInv'
<1>1. UNCHANGED <<sessions, heard>>
  BY DEF ResponseListener, ResolveToken, ReadClient, SendResponse
<1>2. CASE \A k \in Listeners : lsn'[k].pc = "send" => lsn'[k] = lsn[k]
  BY <1>1, <1>2, HeardKept
<1>3. ASSUME NEW c, lsn' = [lsn EXCEPT ![l].pc = "send", ![l].client = c],
             c \in heard[lsn[l].token]
      PROVE  HeardInv'
  BY <1>1, <1>3 DEF HeardInv, AnswersOnlyHeard, TypeOK, ListenerType,
     ListenerState
<1>4. CASE ReadClient(l) /\ Present(lsn[l].token)
           /\ sessions[lsn[l].token].client # None
  <2>1. sessions[lsn[l].token].client \in heard[lsn[l].token]
    BY <1>4 DEF ReadClient, HeardInv, TypeOK, ListenerType, TaskSet
  <2>2. QED
    BY <1>3, <1>4, <2>1 DEF ReadClient
<1>5. ASSUME NEW k, k.pc # "send", lsn' = [lsn EXCEPT ![l] = k]
      PROVE  HeardInv'
  BY <1>2, <1>5 DEF TypeOK, ListenerType
<1>6. CASE ResolveToken(l)
  <2>1. CASE Retire(l)
    BY <1>5, <2>1 DEF Retire, Off
  <2>2. CASE lsn' = [lsn EXCEPT ![l].pc = "session",
                                ![l].token = portToken[lsn[l].sock]]
    BY <1>2, <2>2 DEF TypeOK, ListenerType, ListenerState
  <2>3. QED
    BY <1>6, <2>1, <2>2 DEF ResolveToken
<1>7. CASE Retire(l) \/ lsn' = [lsn EXCEPT ![l] = ListeningOn(lsn[l].sock)]
  BY <1>5, <1>7 DEF Retire, Off, ListeningOn
<1>8. QED
  BY <1>4, <1>6, <1>7 DEF ResponseListener, ReadClient, SendResponse

\* Theorem: a response listener sends only to an address that has sent a packet
\* with the token it looked up, never to the placeholder 0.0.0.0:0.
THEOREM OnlyHeardAnswered == Spec => []AnswersOnlyHeard
<1>1. Init => HeardInv
  BY DEF Init, HeardInv, AnswersOnlyHeard, NoSession, Off
<1>2. TypeOK /\ HeardInv /\ [Next]_vars => HeardInv'
  <2> SUFFICES ASSUME TypeOK, HeardInv, [Next]_vars PROVE HeardInv'
    OBVIOUS
  <2>1. CASE UNCHANGED vars
    BY <2>1, HeardKept DEF vars
  <2>2. CASE ClientListener
    BY <2>2, PacketHeard, CacheHeard DEF ClientListener
  <2>3. ASSUME NEW l \in Listeners, ResponseListener(l) PROVE HeardInv'
    BY <2>3, ListenerHeard
  <2>4. QED
    BY <2>1, <2>2, <2>3, CacheHeard DEF Next
<1>3. HeardInv => AnswersOnlyHeard
  BY DEF HeardInv
<1>4. QED
  BY <1>1, <1>2, <1>3, TypeCorrect, PTL DEF Spec
-----------------------------------------------------------------------------
(* Capacity.                                                               *)

\* Register calls that have passed the capacity check and not yet inserted.
Admitted ==
  {w \in Workers : /\ proc[w].op = "register"
                   /\ proc[w].pc \in Holding \cup {"remove", "bind"}}

\* Every admitted call may still add a session; one handler at least is not
\* ahead of the check that let the last one through.
CapacityInv ==
  Cardinality(Live) + Cardinality(Admitted) + 1
    <= MaxSessions + Cardinality(Workers)

\* The sets counted are finite.
LEMMA Counts ==
  /\ IsFiniteSet(Live) /\ IsFiniteSet(Admitted)
  /\ Cardinality(Live) \in Nat /\ Cardinality(Admitted) \in Nat
  /\ Cardinality(Workers) \in Nat /\ Cardinality(Admitted) <= Cardinality(Workers)
<1>1. IsFiniteSet(Live) /\ IsFiniteSet(Admitted)
  BY RelayAssumption, FS_Subset DEF Live, Admitted
<1>2. Cardinality(Admitted) <= Cardinality(Workers)
  BY RelayAssumption, FS_Subset DEF Admitted
<1>3. QED
  BY <1>1, <1>2, RelayAssumption, FS_CardinalityType

\* Adding at most one element adds at most one to the cardinality.
LEMMA OneMore ==
  ASSUME NEW S, IsFiniteSet(S), NEW x, NEW T, T \subseteq S \cup {x}
  PROVE  Cardinality(T) <= Cardinality(S) + 1 /\ Cardinality(T) \in Nat
<1>1. IsFiniteSet(S \cup {x})
  BY FS_AddElement
<1>2. Cardinality(S) \in Nat
  BY FS_CardinalityType
<1>3. Cardinality(S \cup {x}) \in {Cardinality(S), Cardinality(S) + 1}
  BY FS_AddElement
<1>4. IsFiniteSet(T) /\ Cardinality(T) <= Cardinality(S \cup {x})
  BY <1>1, FS_Subset
<1>5. Cardinality(T) \in Nat
  BY <1>4, FS_CardinalityType
<1>6. QED
  BY <1>2, <1>3, <1>4, <1>5

\* A step that admits nobody and adds no session.
LEMMA CapacityKept ==
  ASSUME CapacityInv, Live' \subseteq Live, Admitted' \subseteq Admitted
  PROVE  CapacityInv'
<1>1. Cardinality(Live') <= Cardinality(Live)
      /\ Cardinality(Admitted') <= Cardinality(Admitted)
  BY Counts, FS_Subset
<1>2. Cardinality(Live') \in Nat /\ Cardinality(Admitted') \in Nat
  BY Counts, FS_Subset, FS_CardinalityType
<1>3. QED
  BY <1>1, <1>2, Counts, RelayAssumption DEF CapacityInv

\* A call is admitted only while the map has room.
LEMMA CheckCapacityKept ==
  ASSUME TypeOK, CapacityInv, NEW w \in Workers, CheckCapacity(w)
  PROVE  CapacityInv'
<1>1. Live' = Live
  BY DEF CheckCapacity, Live, Present
<1>2. CASE Return(w)
  <2>1. Admitted' \subseteq Admitted
    BY <1>2 DEF Return, Idle, Holding, Admitted, Procs, TypeOK, ProcType
  <2>2. QED
    BY <1>1, <2>1, CapacityKept
<1>3. CASE ~(Cardinality(Live) >= MaxSessions)
  <2>1. Admitted' \subseteq Workers
    BY DEF Admitted
  <2>2. Cardinality(Admitted') \in Nat
        /\ Cardinality(Admitted') <= Cardinality(Workers)
    BY <2>1, RelayAssumption, FS_Subset, FS_CardinalityType
  <2>3. QED
    BY <1>1, <1>3, <2>2, Counts, RelayAssumption DEF CapacityInv
<1>4. QED
  BY <1>2, <1>3 DEF CheckCapacity

\* An admitted call becomes at most one entry.
LEMMA InsertCapacity ==
  ASSUME TypeOK, CapacityInv, NEW w \in Workers, InsertSession(w)
  PROVE  CapacityInv'
<1>1. w \in Procs /\ proc[w].token \in Tokens /\ proc[w].op = "register"
      /\ proc[w].pc = "insert"
  BY DEF InsertSession, Procs, TypeOK, ProcType, LocalsSet, Registering
<1>2. Live' \subseteq Live \cup {proc[w].token}
  BY <1>1 DEF InsertSession, Live, Present, TypeOK, CacheType
<1>3. Cardinality(Live') <= Cardinality(Live) + 1 /\ Cardinality(Live') \in Nat
  BY <1>2, Counts, OneMore
<1>4. w \in Admitted
  BY <1>1 DEF Admitted, Holding
<1>5. Admitted' = Admitted \ {w}
  <2>1. proc'[w].pc = "insertPort" /\ \A x \in Procs : x # w => proc'[x] = proc[x]
    BY <1>1 DEF InsertSession, Goto, TypeOK, ProcType, ProcState
  <2>2. QED
    BY <2>1 DEF Admitted, Holding, Procs
<1>6. Cardinality(Admitted') = Cardinality(Admitted) - 1
  BY <1>4, <1>5, Counts, FS_RemoveElement
<1>7. QED
  BY <1>3, <1>6, Counts, RelayAssumption DEF CapacityInv

\* The remaining steps of the cache admit nobody and add no entry.
LEMMA CacheCapacity ==
  ASSUME TypeOK, CapacityInv,
         \/ \E w \in Workers :
              \/ HttpRequest(w) \/ (\E p \in Ports : Bind(w, p))
              \/ BindFails(w) \/ InsertPort(w) \/ SpawnListener(w)
         \/ \E w \in Procs : Unregister(w)
         \/ Cleanup
  PROVE  CapacityInv'
<1>1. Live' \subseteq Live
  <2>1. ASSUME NEW w \in Procs, RemoveSession(w) PROVE Live' \subseteq Live
    <3>1. \/ UNCHANGED sessions
          \/ sessions' = [sessions EXCEPT ![proc[w].token] = NoSession]
      BY <2>1 DEF RemoveSession
    <3>2. QED
      BY <3>1 DEF NoSession, Live, Present, TypeOK, CacheType
  <2>2. (\E w \in Procs : RemoveSession(w)) \/ UNCHANGED sessions
    BY DEF HttpRequest, BeginRegister, BeginUnregister, Bind, BindFails,
       InsertPort, SpawnListener, Unregister, RemovePort, ReadLen, SetGauge,
       Cleanup, CollectStale, RemoveNextStale
  <2>3. QED
    BY <2>1, <2>2 DEF Live, Present
<1>2. ASSUME NEW w \in Procs, NEW q, proc' = [proc EXCEPT ![w] = q],
             q.pc \in Holding \cup {"remove", "bind"} /\ q.op = "register"
               => w \in Admitted
      PROVE  Admitted' \subseteq Admitted
  BY <1>2 DEF Admitted, Procs, TypeOK, ProcType
<1>3. ASSUME NEW w \in Workers, HttpRequest(w) PROVE Admitted' \subseteq Admitted
  BY <1>2, <1>3 DEF HttpRequest, BeginRegister, BeginUnregister, Idle, Holding,
     Procs
<1>4. ASSUME NEW w \in Workers, NEW p \in Ports, Bind(w, p)
      PROVE  Admitted' \subseteq Admitted
  BY <1>4 DEF Bind, Admitted, Procs, Holding, TypeOK, ProcType, ProcState
<1>5. ASSUME NEW w \in Procs, Return(w) PROVE Admitted' \subseteq Admitted
  BY <1>2, <1>5 DEF Return, Idle, Holding
<1>6. ASSUME NEW w \in Procs, InsertPort(w) PROVE Admitted' \subseteq Admitted
  BY <1>6 DEF InsertPort, Goto, Admitted, Procs, Holding, TypeOK, ProcType,
     ProcState
<1>7. ASSUME NEW w \in Procs, AfterUnregister(w),
             proc[w].pc \in Holding \cup {"remove"}
      PROVE  Admitted' \subseteq Admitted
  BY <1>5, <1>7 DEF AfterUnregister, Admitted, Procs, TypeOK, ProcType, ProcState
<1>8. ASSUME NEW w \in Procs, Unregister(w) PROVE Admitted' \subseteq Admitted
  <2>1. CASE RemoveSession(w) /\ ~AfterUnregister(w)
    <3>1. proc' = [proc EXCEPT ![w].pc = "removePort",
                               ![w].port = sessions[proc[w].token].sock]
          /\ proc[w].pc = "remove"
      BY <2>1 DEF RemoveSession
    <3>2. QED
      BY <3>1 DEF Admitted, Procs, Holding, TypeOK, ProcType, ProcState
  <2>2. CASE RemovePort(w) \/ ReadLen(w)
    BY <2>2 DEF RemovePort, ReadLen, Goto, Admitted, Procs, Holding, TypeOK,
       ProcType, ProcState
  <2>3. CASE SetGauge(w) /\ ~AfterUnregister(w)
    BY <2>3 DEF SetGauge, Admitted, Procs, Holding, TypeOK, ProcType, ProcState
  <2>4. CASE AfterUnregister(w) /\ (RemoveSession(w) \/ SetGauge(w))
    <3>1. CASE proc[w].pc = "regGauge"
      BY <2>4, <3>1 DEF RemoveSession, SetGauge, Admitted, Procs, Holding,
         TypeOK, ProcType, ProcState
    <3>2. QED
      BY <1>7, <2>4, <3>1 DEF RemoveSession, SetGauge, Holding
  <2>5. QED
    BY <1>8, <2>1, <2>2, <2>3, <2>4 DEF Unregister
<1>9. CASE Cleanup
  <2>1. ASSUME NEW t \in Tokens, RemoveNextStale(t)
        PROVE  Admitted' \subseteq Admitted
    BY <1>2, <2>1 DEF RemoveNextStale, Idle, Procs
  <2>2. CASE CollectStale
    BY <2>2, <1>1, CapacityKept DEF CollectStale, Admitted
  <2>3. QED
    BY <1>1, <1>9, <2>1, <2>2, CapacityKept DEF Cleanup
<1>10. Procs = Workers \cup {Cleaner}
  BY DEF Procs
<1>11. QED
  BY <1>1, <1>3, <1>4, <1>5, <1>6, <1>8, <1>9, <1>10, CapacityKept
     DEF BindFails, SpawnListener

\* Theorem: concurrent registers overshoot max_sessions by less than the number
\* of handler threads.
THEOREM OvershootIsBounded == Spec => []OvershootBounded
<1>1. Init => CapacityInv
  <2>1. Init => Live = {} /\ Admitted = {}
    BY DEF Init, Live, Present, NoSession, Admitted, Procs, Idle
  <2>2. Cardinality(Workers) >= 1
    BY RelayAssumption, Counts, FS_EmptySet
  <2>3. QED
    BY <2>1, <2>2, Counts, FS_EmptySet, RelayAssumption DEF CapacityInv
<1>2. TypeOK /\ CapacityInv /\ [Next]_vars => CapacityInv'
  <2> SUFFICES ASSUME TypeOK, CapacityInv, [Next]_vars PROVE CapacityInv'
    OBVIOUS
  <2>1. CASE UNCHANGED vars
    BY <2>1, CapacityKept DEF vars, Live, Present, Admitted
  <2>2. ASSUME NEW w \in Workers, HttpRequest(w) \/ Register(w)
        PROVE  CapacityInv'
    BY <2>2, CheckCapacityKept, InsertCapacity, CacheCapacity DEF Register
  <2>3. CASE (\E w \in Procs : Unregister(w)) \/ Cleanup
    BY <2>3, CacheCapacity
  <2>4. CASE \/ \E t \in Tokens : Age(t)
             \/ ClientListener
             \/ \E l \in Listeners : ResponseListener(l)
    <3>1. UNCHANGED proc /\ \A t \in Tokens : sessions'[t].sock = sessions[t].sock
      BY <2>4, DatapathSockets
    <3>2. QED
      BY <3>1, CapacityKept DEF Live, Present, Admitted
  <2>5. QED
    BY <2>1, <2>2, <2>3, <2>4 DEF Next
<1>3. CapacityInv => OvershootBounded
  BY Counts, RelayAssumption DEF CapacityInv, OvershootBounded
<1>4. QED
  BY <1>1, <1>2, <1>3, TypeCorrect, PTL DEF Spec
=============================================================================
