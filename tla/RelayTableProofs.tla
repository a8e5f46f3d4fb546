-------------------------- MODULE RelayTableProofs --------------------------
(***************************************************************************)
(* What holds of Relay while callers do not overlap calls about one token  *)
(* (Serial), for every value of the other constants: an entry, its port    *)
(* and its listener belong to one registration (Mapped, Origin, Attended), *)
(* because a register call meets nobody else on its token between its      *)
(* steps (Resting, Undisturbed).  The conjunction Orderly is inductive     *)
(* relative to TypeOK and SocketsExclusive, and gives                      *)
(*                                                                         *)
(*   RoutedToOwner, MapsAgree, SessionListened                             *)
(*                                                                         *)
(* and, with GrantInv, that the relay implements SessionTable: its two     *)
(* maps, its handlers and its listeners are one table.  A step opens a     *)
(* socket (BindOpens), changes one row (InsertEnters, RemoveLeaves,        *)
(* PacketShows), passes something on (SendShows, ListenerShows) or shows   *)
(* nothing (CallHidden, SpawnHidden, AgeHidden).                           *)
(***************************************************************************)
EXTENDS RelayProofs

\* Program points of register before and after its insert.
Before == {"check", "remove", "bind", "insert"}
After == {"insertPort", "regLen", "regGauge", "spawn"}

\* Between calls a handler has no token.
Resting ==
  \A w \in Procs : proc[w].pc = "idle" => proc[w].op = "none" /\ proc[w].token = None

\* Nobody else works on the token of w, which has no entry before the insert and
\* w's own after it.
Calm(w) ==
  LET t == proc[w].token IN
  /\ w \in Workers /\ t \notin todo
  /\ \A x \in Procs \ {w} : proc[x].token # t
  /\ \/ proc[w].pc \in Before /\ ~Present(t)
     \/ /\ proc[w].pc \in After
        /\ Present(t) /\ sessions[t].sock = proc[w].port /\ sessions[t].fresh

Undisturbed == \A w \in Procs : proc[w].op = "register" => Calm(w)

\* Every step keeps Resting.
LEMMA RestingStep == TypeOK /\ Resting /\ [Next]_vars => Resting'
<1> SUFFICES ASSUME TypeOK, Resting, [Next]_vars PROVE Resting'
  OBVIOUS
<1>1. CASE UNCHANGED vars
  BY <1>1 DEF vars, Resting
<1>2. ASSUME NEW w \in Workers, HttpRequest(w) PROVE Resting'
  <2>1. \A x \in Procs \ {w} : proc'[x] = proc[x]
    BY <1>2 DEF HttpRequest, BeginRegister, BeginUnregister, TypeOK, ProcType
  <2>2. proc'[w].pc # "idle"
    BY <1>2 DEF HttpRequest, BeginRegister, BeginUnregister, Idle, Procs, TypeOK,
       ProcType
  <2>3. QED
    BY <2>1, <2>2 DEF Resting
<1>3. ASSUME NEW w \in Workers, Register(w) PROVE Resting'
  BY <1>3 DEF Register, CheckCapacity, Bind, BindFails, InsertSession, InsertPort,
     SpawnListener, Goto, Return, Resting, Procs, Idle, TypeOK, ProcType, ProcState
<1>4. ASSUME NEW w \in Procs, Unregister(w) PROVE Resting'
  BY <1>4 DEF Unregister, RemoveSession, RemovePort, ReadLen, SetGauge,
     AfterUnregister, Goto, Return, Resting, Idle, TypeOK, ProcType, ProcState
<1>5. CASE Cleanup
  <2>1. ASSUME NEW t \in Tokens, RemoveNextStale(t) PROVE Resting'
    BY <2>1 DEF RemoveNextStale, Resting, Procs, Idle, TypeOK, ProcType
  <2>2. QED
    BY <1>5, <2>1 DEF Cleanup, CollectStale, Resting
<1>6. CASE \/ \E t \in Tokens : Age(t)
           \/ ClientListener
           \/ \E l \in Listeners : ResponseListener(l)
  BY <1>6, DatapathSockets DEF Resting
<1>7. QED
  BY <1>1, <1>2, <1>3, <1>4, <1>5, <1>6 DEF Next

\* A call that is registering stays undisturbed while w takes a step that keeps
\* its own token, or takes one that no such call has.
LEMMA OthersCalm ==
  ASSUME TypeOK, Undisturbed, NEW w \in Procs, NEW v \in Procs \ {w},
         \A x \in Procs \ {w} : proc'[x] = proc[x],
         proc[v].op = "register",
         proc'[w].token # proc[v].token,
         proc[v].token \notin todo',
         sessions'[proc[v].token].sock = sessions[proc[v].token].sock,
         sessions[proc[v].token].fresh => sessions'[proc[v].token].fresh
  PROVE  Calm(v)'
BY DEF Undisturbed, Calm, Present

\* The same for a step of w that changes its own entry at most.
LEMMA OwnStepCalm ==
  ASSUME TypeOK, Undisturbed, NEW w \in Procs,
         \A x \in Procs \ {w} : proc'[x] = proc[x],
         proc'[w].token \in {proc[w].token, None},
         todo' = todo,
         \A t \in Tokens \ {proc[w].token} : sessions'[t] = sessions[t],
         proc'[w].op = "register" => Calm(w)'
  PROVE  Undisturbed'
<1> SUFFICES ASSUME NEW v \in Procs, proc'[v].op = "register", v # w
             PROVE  Calm(v)'
  BY DEF Undisturbed
<1>1. proc[v].op = "register" /\ Calm(v)
  BY DEF Undisturbed
<1>2. proc[v].token \in Tokens
  BY <1>1 DEF Calm, Before, After, TypeOK, ProcType, LocalsSet
<1>3. proc[v].token # proc[w].token /\ proc[v].token \notin todo
  BY <1>1 DEF Calm
<1>4. QED
  BY <1>1, <1>2, <1>3, OthersCalm, RelayAssumption

\* Every step keeps it, when callers do not overlap.
LEMMA UndisturbedStep ==
  ASSUME Serial
  PROVE  TypeOK /\ Resting /\ Undisturbed /\ [Next]_vars => Undisturbed'
<1> SUFFICES ASSUME TypeOK, Resting, Undisturbed, [Next]_vars PROVE Undisturbed'
  OBVIOUS
<1> USE DEF Before, After
<1>t. \A w \in Procs : proc[w].op = "register" => proc[w].token \in Tokens
  BY DEF Undisturbed, Calm, TypeOK, ProcType, LocalsSet
<1>1. CASE UNCHANGED vars
  BY <1>1 DEF vars, Undisturbed, Calm, Present
<1>2. ASSUME NEW w \in Workers, NEW t \in Tokens, NEW r \in Requests,
             BeginRegister(w, t, r)
      PROVE  Undisturbed'
  <2>1. /\ w \in Procs /\ \A x \in Procs \ {w} : proc'[x] = proc[x]
        /\ proc'[w].token = t /\ proc'[w].pc = "check"
        /\ sessions' = sessions /\ todo' = todo
    BY <1>2 DEF BeginRegister, Procs, TypeOK, ProcType, ProcState, Idle
  <2>2. t \notin todo /\ ~Present(t) /\ \A x \in Procs : proc[x].token # t
    BY <1>2 DEF BeginRegister, Busy
  <2>3. Calm(w)'
    BY <2>1, <2>2 DEF Calm, Present
  <2>4. ASSUME NEW v \in Procs \ {w}, proc'[v].op = "register" PROVE Calm(v)'
    <3>1. proc[v].op = "register" /\ Calm(v)
      BY <2>1, <2>4 DEF Undisturbed
    <3>2. proc[v].token # t /\ proc[v].token \notin todo
      BY <2>2, <3>1 DEF Calm
    <3>3. QED
      BY <2>1, <3>1, <3>2, OthersCalm
  <2>5. QED
    BY <2>3, <2>4 DEF Undisturbed
<1>3. ASSUME NEW w \in Procs, NEW t \in Tokens, UNCHANGED sessions,
             \/ w \in Workers /\ BeginUnregister(w, t)
             \/ w = Cleaner /\ RemoveNextStale(t)
      PROVE  Undisturbed'
  <2>1. /\ \A x \in Procs \ {w} : proc'[x] = proc[x]
        /\ proc'[w].token = t /\ proc'[w].op # "register"
        /\ todo' \subseteq todo
    <3>0. proc \in [Procs -> ProcState]
      BY DEF TypeOK, ProcType
    <3>1. CASE BeginUnregister(w, t)
      BY <3>0, <3>1 DEF BeginUnregister, Idle
    <3>2. CASE w = Cleaner /\ RemoveNextStale(t)
      BY <3>0, <3>2 DEF RemoveNextStale, Idle
    <3>3. QED
      BY <1>3, <3>1, <3>2
  <2>2. t \in todo \/ \A x \in Procs : proc[x].token # t
    BY <1>3 DEF BeginUnregister, RemoveNextStale, Busy
  <2>4. ASSUME NEW v \in Procs \ {w}, proc'[v].op = "register" PROVE Calm(v)'
    <3>1. proc[v].op = "register" /\ Calm(v)
      BY <2>1, <2>4 DEF Undisturbed
    <3>2. proc[v].token # t /\ proc[v].token \notin todo'
      BY <2>1, <2>2, <3>1 DEF Calm
    <3>3. QED
      BY <1>3, <2>1, <3>1, <3>2, OthersCalm
  <2>5. QED
    BY <2>1, <2>4 DEF Undisturbed
<1>4. ASSUME NEW w \in Workers, CheckCapacity(w) \/ BindFails(w) PROVE Undisturbed'
  <2>1. /\ w \in Procs /\ \A x \in Procs \ {w} : proc'[x] = proc[x]
        /\ sessions' = sessions /\ todo' = todo
        /\ \/ proc'[w] = Idle
           \/ /\ proc[w].pc = "check" /\ proc'[w].pc = "remove"
              /\ proc'[w].token = proc[w].token /\ proc'[w].op = proc[w].op
    BY <1>4 DEF CheckCapacity, BindFails, Goto, Return, Procs, TypeOK, ProcType,
       ProcState
  <2>2. proc'[w].op = "register" => Calm(w)'
    BY <2>1 DEF Undisturbed, Calm, Present, Idle
  <2>3. QED
    BY <2>1, <2>2, OwnStepCalm DEF Idle
<1>5. ASSUME NEW w \in Workers, NEW p \in Ports, Bind(w, p) PROVE Undisturbed'
  <2>1. /\ w \in Procs /\ \A x \in Procs \ {w} : proc'[x] = proc[x]
        /\ sessions' = sessions /\ todo' = todo
        /\ proc[w].pc = "bind" /\ proc'[w].pc = "insert"
        /\ proc'[w].token = proc[w].token /\ proc'[w].op = proc[w].op
    BY <1>5 DEF Bind, Procs, TypeOK, ProcType, ProcState
  <2>2. ASSUME proc'[w].op = "register" PROVE Calm(w)'
    <3>1. Calm(w)
      BY <2>1, <2>2 DEF Undisturbed
    <3>2. QED
      BY <2>1, <3>1 DEF Calm, Present
  <2>3. QED
    BY <2>1, <2>2, OwnStepCalm
<1>6. ASSUME NEW w \in Workers, InsertSession(w) PROVE Undisturbed'
  <2>0. proc[w].token \in Tokens /\ proc[w].port \in Ports
    BY <1>6 DEF InsertSession, TypeOK, ProcType, LocalsSet, Holding, Procs
  <2>1. /\ w \in Procs /\ \A x \in Procs \ {w} : proc'[x] = proc[x]
        /\ \A t \in Tokens \ {proc[w].token} : sessions'[t] = sessions[t]
        /\ sessions'[proc[w].token].sock = proc[w].port
        /\ sessions'[proc[w].token].fresh
        /\ todo' = todo
        /\ proc[w].pc = "insert" /\ proc'[w].pc = "insertPort"
        /\ proc'[w].token = proc[w].token /\ proc'[w].op = proc[w].op
        /\ proc'[w].port = proc[w].port
    BY <1>6, <2>0 DEF InsertSession, Goto, Procs, TypeOK, ProcType, ProcState, CacheType
  <2>2. ASSUME proc'[w].op = "register" PROVE Calm(w)'
    <3>1. Calm(w)
      BY <2>1, <2>2 DEF Undisturbed
    <3>2. Present(proc[w].token)'
      BY <2>0, <2>1, RelayAssumption DEF Present
    <3>3. QED
      BY <2>1, <3>1, <3>2 DEF Calm, Present
  <2>3. QED
    BY <2>1, <2>2, OwnStepCalm
<1>7. ASSUME NEW w \in Procs,
             \/ InsertPort(w)
             \/ SpawnListener(w)
             \/ RemovePort(w)
             \/ ReadLen(w)
             \/ SetGauge(w)
      PROVE  Undisturbed'
  <2>1. /\ \A x \in Procs \ {w} : proc'[x] = proc[x]
        /\ sessions' = sessions /\ todo' = todo
        /\ \/ proc'[w] = Idle
           \/ /\ proc'[w].token = proc[w].token /\ proc'[w].op = proc[w].op
              /\ proc'[w].pc \notin After =>
                   proc[w].pc \in {"removePort", "evictLen", "evictGauge"}
              /\ proc'[w].pc \in After =>
                   proc[w].pc \in After /\ proc'[w].port = proc[w].port
    BY <1>7 DEF InsertPort, ReadLen, SetGauge, RemovePort, SpawnListener,
       AfterUnregister, Goto, Return, TypeOK, ProcType, ProcState
  <2>2. proc'[w].op = "register" => Calm(w)'
    BY <2>1 DEF Undisturbed, Calm, Present, Idle
  <2>3. QED
    BY <2>1, <2>2, OwnStepCalm DEF Idle
<1>8. ASSUME NEW w \in Procs, RemoveSession(w) PROVE Undisturbed'
  <2>0. proc[w].token \in Tokens
    BY <1>8 DEF RemoveSession, TypeOK, ProcType, LocalsSet
  <2>1. /\ \A x \in Procs \ {w} : proc'[x] = proc[x]
        /\ \A t \in Tokens \ {proc[w].token} : sessions'[t] = sessions[t]
        /\ todo' = todo
        /\ \/ proc'[w] = Idle
           \/ /\ proc'[w].token = proc[w].token /\ proc'[w].op = proc[w].op
              /\ \/ Present(proc[w].token)
                 \/ proc'[w].pc = "bind" /\ sessions' = sessions
        /\ proc[w].pc = "remove"
    BY <1>8, <2>0 DEF RemoveSession, AfterUnregister, Return, TypeOK, ProcType,
       ProcState, CacheType
  <2>2. proc'[w].op = "register" => Calm(w)'
    BY <2>1 DEF Undisturbed, Calm, Present, Idle
  <2>3. QED
    BY <2>1, <2>2, OwnStepCalm DEF Idle
<1>9. CASE CollectStale
  <2>1. sessions' = sessions /\ proc' = proc /\ todo' = {t \in Live : ~sessions[t].fresh}
    BY <1>9 DEF CollectStale, Stale
  <2>2. QED
    BY <2>1 DEF Undisturbed, Calm, Present, Live
<1>10. CASE \/ \E t \in Tokens : Age(t)
            \/ ClientListener
            \/ \E l \in Listeners : ResponseListener(l)
  <2>1. /\ \A t \in Tokens : sessions'[t].sock = sessions[t].sock
        /\ UNCHANGED proc
    BY <1>10, DatapathSockets
  <2>2. todo' = todo
    BY <1>10 DEF Age, ClientListener, Keepalive, Control, Data, ForwardToGame,
       Receiving, ResponseListener, ResolveToken, ReadClient, SendResponse
  <2>3. ASSUME NEW w \in Workers, proc[w].op = "register",
               sessions[proc[w].token].fresh
        PROVE  sessions'[proc[w].token].fresh
    <3>1. proc[w].token \in Tokens
      BY <1>t, <2>3 DEF Procs
    <3>2. ASSUME NEW t \in Tokens, Age(t) PROVE sessions'[proc[w].token].fresh
      BY <2>3, <3>1, <3>2 DEF Age, TypeOK, CacheType
    <3>3. ASSUME NEW t \in Tokens, NEW c \in Clients,
                 \/ Keepalive(t, c) \/ Data(t, c)
                 \/ \E ip \in GameIps : Control(t, c, ip)
          PROVE  sessions'[proc[w].token].fresh
      <4>0. /\ Touched(t, c).fresh
            /\ \A ip \in GameIps : [Touched(t, c) EXCEPT !.target = ip].fresh
        BY DEF Touched, TypeOK, CacheType, Session
      <4>1. \E s : sessions' = [sessions EXCEPT ![t] = s] /\ s.fresh
        <5>1. CASE Keepalive(t, c) \/ Data(t, c)
          BY <4>0, <5>1, Zenon DEF Keepalive, Data
        <5>2. ASSUME NEW ip \in GameIps, Control(t, c, ip)
              PROVE  \E s : sessions' = [sessions EXCEPT ![t] = s] /\ s.fresh
          BY <4>0, <5>2, Zenon DEF Control
        <5>. QED BY <3>3, <5>1, <5>2
      <4>2. QED
        BY <2>3, <3>1, <4>1 DEF TypeOK, CacheType
    <3>4. CASE ForwardToGame \/ \E l \in Listeners : ResponseListener(l)
      BY <2>3, <3>4 DEF ForwardToGame, ResponseListener, ResolveToken, ReadClient,
         SendResponse
    <3>5. QED
      BY <1>10, <3>2, <3>3, <3>4 DEF ClientListener
  <2>4. QED
    BY <1>t, <2>1, <2>2, <2>3 DEF Undisturbed, Calm, Present
<1>11. ASSUME NEW w \in Workers, HttpRequest(w) \/ Register(w) PROVE Undisturbed'
  <2>1. w \in Procs
    BY DEF Procs
  <2>2. ASSUME NEW t \in Tokens, BeginUnregister(w, t) PROVE Undisturbed'
    BY <1>3, <2>1, <2>2 DEF BeginUnregister
  <2>3. QED
    BY <1>2, <1>4, <1>5, <1>6, <1>7, <1>11, <2>1, <2>2 DEF HttpRequest, Register
<1>12. ASSUME NEW w \in Procs, Unregister(w) PROVE Undisturbed'
  BY <1>7, <1>8, <1>12 DEF Unregister
<1>13. ASSUME NEW t \in Tokens, RemoveNextStale(t) PROVE Undisturbed'
  BY <1>3, <1>13 DEF RemoveNextStale, Procs
<1>14. QED
  BY <1>1, <1>9, <1>10, <1>11, <1>12, <1>13 DEF Next, Cleanup
-----------------------------------------------------------------------------
\* The reverse entry of port p names t: t's entry has the socket and its call has
\* written the port, or t's entry is gone and a call is about to remove the port.
Entered(t, p) ==
  \/ /\ sessions[t].sock = p
     /\ \A w \in Procs : proc[w].pc = "insertPort" => proc[w].token # t
  \/ \E w \in Procs :
       proc[w].pc = "removePort" /\ proc[w].port = p /\ proc[w].token = t

Mapped == \A t \in Tokens, p \in Ports : portToken[p] = t <=> Entered(t, p)

\* A step between program points that do not touch the reverse map, and that
\* moves no socket in the map.
LEMMA MappedKept ==
  ASSUME Mapped, UNCHANGED portToken, NEW w \in Procs,
         \A t \in Tokens : sessions'[t].sock = sessions[t].sock,
         \A x \in Procs \ {w} : proc'[x] = proc[x],
         proc[w].pc \notin {"insertPort", "removePort"},
         proc'[w].pc \notin {"insertPort", "removePort"}
  PROVE  Mapped'
<1> SUFFICES ASSUME NEW t \in Tokens, NEW p \in Ports
             PROVE  Entered(t, p)' <=> Entered(t, p)
  BY DEF Mapped
<1>1. \A x \in Procs :
        /\ proc'[x].pc = "insertPort" /\ proc'[x].token = t
             <=> proc[x].pc = "insertPort" /\ proc[x].token = t
        /\ proc'[x].pc = "removePort" /\ proc'[x].port = p /\ proc'[x].token = t
             <=> proc[x].pc = "removePort" /\ proc[x].port = p /\ proc[x].token = t
  OBVIOUS
<1>2. QED
  BY <1>1 DEF Entered

\* A register call enters its socket, but not its port yet.
LEMMA InsertSessionMapped ==
  ASSUME TypeOK, SocketsExclusive, Undisturbed, Mapped,
         NEW w \in Workers, InsertSession(w)
  PROVE  Mapped'
<1>p. PICK t \in Tokens, p \in Ports : t = proc[w].token /\ p = proc[w].port
  BY DEF InsertSession, TypeOK, ProcType, LocalsSet, Holding, Procs
<1> USE <1>p
<1>0. /\ w \in Procs /\ proc[w].pc = "insert"
      /\ proc[w].op = "register" /\ portToken' = portToken
  BY DEF InsertSession, TypeOK, ProcType, LocalsSet, Holding, Registering, Procs
<1>1. /\ \A x \in Procs \ {w} : proc'[x] = proc[x]
      /\ proc'[w].pc = "insertPort" /\ proc'[w].token = t
      /\ \A u \in Tokens \ {t} : sessions'[u] = sessions[u]
      /\ sessions'[t].sock = p
  BY <1>0 DEF InsertSession, Goto, TypeOK, ProcType, ProcState, CacheType
<1>2. Calm(w)
  BY <1>0 DEF Undisturbed
<1>3. sessions[t].sock = None /\ \A x \in Procs \ {w} : proc[x].token # t
  BY <1>0, <1>2 DEF Calm, After, Present
<1>4. ASSUME NEW q \in Ports PROVE ~Entered(t, q) /\ ~Entered(t, q)'
  BY <1>0, <1>1, <1>3, RelayAssumption DEF Entered
<1>5. ASSUME NEW u \in Tokens \ {t}, NEW q \in Ports
      PROVE  Entered(u, q)' <=> Entered(u, q)
  <2>1. \A x \in Procs :
          /\ proc'[x].pc = "insertPort" /\ proc'[x].token = u
               <=> proc[x].pc = "insertPort" /\ proc[x].token = u
          /\ proc'[x].pc = "removePort" /\ proc'[x].port = q /\ proc'[x].token = u
               <=> proc[x].pc = "removePort" /\ proc[x].port = q /\ proc[x].token = u
    BY <1>0, <1>1
  <2>2. QED
    BY <1>1, <2>1 DEF Entered
<1>6. QED
  BY <1>0, <1>4, <1>5 DEF Mapped

\* The port follows.
LEMMA InsertPortMapped ==
  ASSUME TypeOK, SocketsExclusive, Undisturbed, Mapped,
         NEW w \in Workers, InsertPort(w)
  PROVE  Mapped'
<1>p. PICK t \in Tokens, p \in Ports : t = proc[w].token /\ p = proc[w].port
  BY DEF InsertPort, TypeOK, ProcType, LocalsSet, Procs
<1> USE <1>p
<1>0. /\ w \in Procs /\ proc[w].pc = "insertPort"
      /\ proc[w].op = "register" /\ sessions' = sessions
  BY DEF InsertPort, TypeOK, ProcType, LocalsSet, Registering, Procs
<1>1. /\ \A x \in Procs \ {w} : proc'[x] = proc[x]
      /\ proc'[w].pc = "regLen"
      /\ \A q \in Ports \ {p} : portToken'[q] = portToken[q]
      /\ portToken'[p] = t
  BY <1>0 DEF InsertPort, Goto, TypeOK, ProcType, CacheType
<1>2. Calm(w)
  BY <1>0 DEF Undisturbed
<1>3. /\ sessions[t].sock = p /\ t \in Live
      /\ \A x \in Procs \ {w} : proc[x].token # t
  BY <1>0, <1>2 DEF Calm, Before, Present, Live
<1>4. \A x \in Procs : ~(proc[x].pc = "removePort" /\ proc[x].port = p)
  BY <1>3 DEF SocketsExclusive, Holding
<1>5. \A u \in Tokens : sessions[u].sock = p => u = t
  BY <1>0, <1>3, RelayAssumption DEF SocketsExclusive, Live, Present
<1>6. Entered(t, p)'
  BY <1>0, <1>1, <1>3 DEF Entered
<1>7. ASSUME NEW u \in Tokens \ {t} PROVE ~Entered(u, p)'
  BY <1>0, <1>1, <1>4, <1>5, <1>7 DEF Entered
<1>8. ASSUME NEW u \in Tokens, NEW q \in Ports \ {p}
      PROVE  Entered(u, q)' <=> Entered(u, q)
  <2>1. \A x \in Procs :
          proc'[x].pc = "removePort" /\ proc'[x].port = q /\ proc'[x].token = u
            <=> proc[x].pc = "removePort" /\ proc[x].port = q /\ proc[x].token = u
    BY <1>0, <1>1
  <2>2. CASE u = t
    BY <1>0, <1>3, <2>1, <2>2 DEF Entered
  <2>3. CASE u # t
    <3>1. \A x \in Procs :
            proc'[x].pc = "insertPort" /\ proc'[x].token = u
              <=> proc[x].pc = "insertPort" /\ proc[x].token = u
      BY <1>0, <1>1, <2>3
    <3>2. QED
      BY <1>0, <2>1, <3>1 DEF Entered
  <2>4. QED
    BY <2>2, <2>3
<1>9. QED
  BY <1>0, <1>1, <1>6, <1>7, <1>8 DEF Mapped

\* unregister takes the entry, and has the port in hand.
LEMMA RemoveSessionMapped ==
  ASSUME TypeOK, Undisturbed, Mapped, NEW w \in Procs, RemoveSession(w)
  PROVE  Mapped'
<1>p. PICK t \in Tokens : t = proc[w].token
  BY DEF RemoveSession, TypeOK, ProcType, LocalsSet
<1> USE <1>p
<1>0. proc[w].pc = "remove" /\ portToken' = portToken
  BY DEF RemoveSession, TypeOK, ProcType, LocalsSet
<1>1. CASE ~Present(t)
  <2>1. /\ \A x \in Procs \ {w} : proc'[x] = proc[x]
        /\ proc'[w].pc \in {"bind", "idle"} /\ sessions' = sessions
    BY <1>1 DEF RemoveSession, AfterUnregister, Return, Idle, TypeOK, ProcType,
       ProcState
  <2>2. QED
    BY <1>0, <2>1, MappedKept
<1>2. CASE Present(t)
  <2>1. /\ \A x \in Procs \ {w} : proc'[x] = proc[x]
        /\ proc'[w].pc = "removePort" /\ proc'[w].port = sessions[t].sock
        /\ proc'[w].token = t
        /\ \A u \in Tokens \ {t} : sessions'[u] = sessions[u]
        /\ sessions'[t].sock = None
    BY <1>0, <1>2 DEF RemoveSession, NoSession, TypeOK, ProcType, ProcState,
       CacheType
  <2>2. \A x \in Procs : proc[x].pc = "insertPort" => proc[x].token # t
    <3> SUFFICES ASSUME NEW x \in Procs, proc[x].pc = "insertPort",
                        proc[x].token = t
                 PROVE  FALSE
      OBVIOUS
    <3>1. proc[x].op = "register"
      BY DEF TypeOK, ProcType, LocalsSet, Registering
    <3>2. Calm(x) /\ x # w
      BY <1>0, <3>1 DEF Undisturbed
    <3>3. QED
      BY <3>2 DEF Calm
  <2>3. ASSUME NEW q \in Ports PROVE Entered(t, q)' <=> Entered(t, q)
    <3>1. \A x \in Procs \ {w} :
            proc'[x].pc = "removePort" /\ proc'[x].port = q /\ proc'[x].token = t
              <=> proc[x].pc = "removePort" /\ proc[x].port = q /\ proc[x].token = t
      BY <2>1
    <3>2. QED
      BY <1>0, <2>1, <2>2, <3>1, RelayAssumption DEF Entered
  <2>4. ASSUME NEW u \in Tokens \ {t}, NEW q \in Ports
        PROVE  Entered(u, q)' <=> Entered(u, q)
    <3>1. \A x \in Procs :
            /\ proc'[x].pc = "insertPort" /\ proc'[x].token = u
                 <=> proc[x].pc = "insertPort" /\ proc[x].token = u
            /\ proc'[x].pc = "removePort" /\ proc'[x].port = q /\ proc'[x].token = u
                 <=> proc[x].pc = "removePort" /\ proc[x].port = q /\ proc[x].token = u
      BY <1>0, <2>1
    <3>2. QED
      BY <2>1, <3>1 DEF Entered
  <2>5. QED
    BY <1>0, <2>3, <2>4 DEF Mapped
<1>3. QED
  BY <1>1, <1>2

\* Then it clears the port.
LEMMA RemovePortMapped ==
  ASSUME TypeOK, SocketsExclusive, Mapped, NEW w \in Procs, RemovePort(w)
  PROVE  Mapped'
<1>p. PICK p \in Ports : p = proc[w].port
  BY DEF RemovePort, TypeOK, ProcType, LocalsSet, Holding
<1> USE <1>p
<1>0. proc[w].pc = "removePort" /\ sessions' = sessions
  BY DEF RemovePort, TypeOK, ProcType, LocalsSet, Holding
<1>1. /\ \A x \in Procs \ {w} : proc'[x] = proc[x]
      /\ proc'[w].pc = "evictLen"
      /\ \A q \in Ports \ {p} : portToken'[q] = portToken[q]
      /\ portToken'[p] = None
  BY <1>0 DEF RemovePort, Goto, TypeOK, ProcType, CacheType
<1>2. \A u \in Tokens : sessions[u].sock # p
  BY <1>0, RelayAssumption DEF SocketsExclusive, Live, Present, Holding
<1>3. \A x \in Procs \ {w} : ~(proc[x].pc = "removePort" /\ proc[x].port = p)
  BY <1>0 DEF SocketsExclusive, Holding
<1>4. ASSUME NEW u \in Tokens PROVE ~Entered(u, p)'
  BY <1>0, <1>1, <1>2, <1>3 DEF Entered
<1>5. ASSUME NEW u \in Tokens, NEW q \in Ports \ {p}
      PROVE  Entered(u, q)' <=> Entered(u, q)
  <2>1. \A x \in Procs :
          /\ proc'[x].pc = "insertPort" /\ proc'[x].token = u
               <=> proc[x].pc = "insertPort" /\ proc[x].token = u
          /\ proc'[x].pc = "removePort" /\ proc'[x].port = q /\ proc'[x].token = u
               <=> proc[x].pc = "removePort" /\ proc[x].port = q /\ proc[x].token = u
    BY <1>0, <1>1
  <2>2. QED
    BY <1>0, <2>1 DEF Entered
<1>6. QED
  BY <1>0, <1>1, <1>4, <1>5, RelayAssumption DEF Mapped

\* Every step keeps it.
LEMMA MappedStep ==
  TypeOK /\ SocketsExclusive /\ Undisturbed /\ Mapped /\ [Next]_vars => Mapped'
<1> SUFFICES ASSUME TypeOK, SocketsExclusive, Undisturbed, Mapped, [Next]_vars
             PROVE  Mapped'
  OBVIOUS
<1>0. Cleaner \in Procs /\ \A w \in Workers : w \in Procs
  BY DEF Procs
<1>1. ASSUME UNCHANGED <<proc, portToken>>,
             \A t \in Tokens : sessions'[t].sock = sessions[t].sock
      PROVE  Mapped'
  BY <1>1 DEF Mapped, Entered
<1>2. ASSUME NEW w \in Workers, HttpRequest(w) PROVE Mapped'
  <2>1. /\ UNCHANGED <<sessions, portToken>> /\ proc[w].pc = "idle"
        /\ \A x \in Procs \ {w} : proc'[x] = proc[x]
        /\ proc'[w].pc \in {"check", "remove"}
    BY <1>0, <1>2 DEF HttpRequest, BeginRegister, BeginUnregister, Idle, TypeOK,
       ProcType
  <2>2. QED
    BY <1>0, <2>1, MappedKept
<1>3. ASSUME NEW w \in Workers,
             \/ CheckCapacity(w)
             \/ \E p \in Ports : Bind(w, p)
             \/ BindFails(w)
             \/ SpawnListener(w)
      PROVE Mapped'
  <2>1. /\ UNCHANGED <<sessions, portToken>>
        /\ proc[w].pc \in {"check", "bind", "spawn"}
        /\ \A x \in Procs \ {w} : proc'[x] = proc[x]
        /\ proc'[w].pc \in {"idle", "remove", "insert"}
    BY <1>0, <1>3 DEF CheckCapacity, Bind, BindFails, SpawnListener, Goto, Return,
       Idle, TypeOK, ProcType, ProcState
  <2>2. QED
    BY <1>0, <2>1, MappedKept
<1>4. ASSUME NEW w \in Procs, ReadLen(w) \/ SetGauge(w) PROVE Mapped'
  <2>1. /\ UNCHANGED <<sessions, portToken>>
        /\ proc[w].pc \in {"evictLen", "regLen", "evictGauge", "regGauge"}
        /\ \A x \in Procs \ {w} : proc'[x] = proc[x]
        /\ proc'[w].pc \in {"evictGauge", "regGauge", "spawn", "bind", "idle"}
    BY <1>4 DEF ReadLen, SetGauge, AfterUnregister, Return, Idle, TypeOK, ProcType,
       ProcState
  <2>2. QED
    BY <2>1, MappedKept
<1>5. ASSUME NEW t \in Tokens, RemoveNextStale(t) PROVE Mapped'
  <2>1. /\ UNCHANGED <<sessions, portToken>> /\ proc[Cleaner].pc = "idle"
        /\ \A x \in Procs \ {Cleaner} : proc'[x] = proc[x]
        /\ proc'[Cleaner].pc = "remove"
    BY <1>0, <1>5 DEF RemoveNextStale, Idle, TypeOK, ProcType
  <2>2. QED
    BY <1>0, <2>1, MappedKept
<1>6. CASE CollectStale \/ UNCHANGED vars
  BY <1>1, <1>6 DEF CollectStale, vars
<1>7. CASE \/ \E t \in Tokens : Age(t)
           \/ ClientListener
           \/ \E l \in Listeners : ResponseListener(l)
  <2>1. UNCHANGED portToken
    BY <1>7 DEF Age, ClientListener, Keepalive, Control, Data, ForwardToGame,
       Receiving, ResponseListener, ResolveToken, ReadClient, SendResponse
  <2>2. QED
    BY <1>1, <1>7, <2>1, DatapathSockets
<1>8. ASSUME NEW w \in Workers, Register(w) PROVE Mapped'
  BY <1>3, <1>8, InsertSessionMapped, InsertPortMapped DEF Register
<1>9. ASSUME NEW w \in Procs, Unregister(w) PROVE Mapped'
  BY <1>4, <1>9, RemoveSessionMapped, RemovePortMapped DEF Unregister
<1>10. QED
  BY <1>2, <1>5, <1>6, <1>7, <1>8, <1>9 DEF Next, Cleanup
-----------------------------------------------------------------------------
\* A socket in the map or in a handler's hands was bound for the token it is
\* there for, and a listener has the token its socket was bound for.
Origin ==
  /\ \A t \in Live : bound[sessions[t].sock].token = t
  /\ \A w \in Procs :
       proc[w].pc \in Holding => bound[proc[w].port].token = proc[w].token
  /\ RoutedToOwner

\* A step that gives no socket to anyone and leaves the listeners alone.
LEMMA OriginKept ==
  ASSUME TypeOK, Origin, UNCHANGED <<bound, lsn>>,
         \A t \in Tokens : sessions'[t].sock \in {sessions[t].sock, None},
         \A w \in Procs : proc'[w].pc \in Holding =>
           /\ proc[w].pc \in Holding
           /\ proc'[w].port = proc[w].port /\ proc'[w].token = proc[w].token
  PROVE  Origin'
<1>1. \A t \in Live' : t \in Live /\ sessions'[t].sock = sessions[t].sock
  BY DEF Live, Present
<1>2. QED
  BY <1>1 DEF Origin, RoutedToOwner

\* What a call does to its own locals and to the socket it has.
LEMMA OriginCall ==
  ASSUME TypeOK, Origin, NEW w \in Procs, UNCHANGED <<bound, lsn, sessions>>,
         \A x \in Procs \ {w} : proc'[x] = proc[x],
         proc'[w].pc \in Holding =>
           /\ proc[w].pc \in Holding
           /\ proc'[w].port = proc[w].port /\ proc'[w].token = proc[w].token
  PROVE  Origin'
BY OriginKept

\* A fresh socket is bound: nobody had the port.
LEMMA BindOrigin ==
  ASSUME TypeOK, Origin, NEW w \in Workers, NEW p \in Ports, Bind(w, p)
  PROVE  Origin'
<1>0. w \in Procs
  BY DEF Procs
<1>1. /\ \A x \in Procs \ {w} : proc'[x] = proc[x]
      /\ proc'[w].port = p /\ proc'[w].token = proc[w].token
      /\ \A q \in Ports \ {p} : bound'[q] = bound[q]
      /\ bound'[p].token = proc[w].token
      /\ sessions' = sessions /\ lsn' = lsn
  BY <1>0 DEF Bind, TypeOK, ProcType, ProcState, PacketType
<1>2. /\ \A t \in Live : sessions[t].sock \in Ports \ {p}
      /\ \A x \in Procs : proc[x].pc \in Holding => proc[x].port \in Ports \ {p}
      /\ \A l \in Listeners : lsn[l].pc \in {"session", "send"} =>
           lsn[l].sock \in Ports \ {p}
  BY DEF Bind, InUse, Live, Present, TypeOK, CacheType, Session, ProcType,
     LocalsSet, ListenerType, TaskSet
<1>3. \A t \in Live' : bound'[sessions'[t].sock].token = t
  BY <1>1, <1>2 DEF Origin, Live, Present
<1>4. \A x \in Procs :
        proc'[x].pc \in Holding => bound'[proc'[x].port].token = proc'[x].token
  BY <1>1, <1>2 DEF Origin
<1>5. RoutedToOwner'
  BY <1>1, <1>2 DEF Origin, RoutedToOwner
<1>6. QED
  BY <1>3, <1>4, <1>5 DEF Origin

\* The socket goes into the map under the token it was bound for.
LEMMA InsertOrigin ==
  ASSUME TypeOK, Origin, NEW w \in Workers, InsertSession(w)
  PROVE  Origin'
<1>p. PICK t \in Tokens, p \in Ports : t = proc[w].token /\ p = proc[w].port
  BY DEF InsertSession, TypeOK, ProcType, LocalsSet, Holding, Procs
<1>0. w \in Procs /\ proc[w].pc = "insert" /\ UNCHANGED <<bound, lsn>>
  BY DEF InsertSession, Procs
<1>1. /\ \A x \in Procs \ {w} : proc'[x] = proc[x]
      /\ proc'[w].pc = "insertPort"
      /\ \A u \in Tokens \ {t} : sessions'[u] = sessions[u]
      /\ sessions'[t].sock = p
  BY <1>0, <1>p DEF InsertSession, Goto, TypeOK, ProcType, ProcState, CacheType
<1>2. bound[p].token = t
  BY <1>0, <1>p DEF Origin, Holding
<1>3. \A u \in Live' : bound'[sessions'[u].sock].token = u
  BY <1>0, <1>1, <1>2 DEF Origin, Live, Present
<1>4. QED
  BY <1>0, <1>1, <1>3 DEF Origin, RoutedToOwner, Holding

\* unregister takes it out of the map again.
LEMMA RemoveOrigin ==
  ASSUME TypeOK, Origin, NEW w \in Procs, RemoveSession(w)
  PROVE  Origin'
<1>p. PICK t \in Tokens : t = proc[w].token
  BY DEF RemoveSession, TypeOK, ProcType, LocalsSet
<1>0. proc[w].pc = "remove" /\ UNCHANGED <<bound, lsn>>
  BY DEF RemoveSession
<1>1. CASE ~Present(t)
  <2>1. /\ \A x \in Procs \ {w} : proc'[x] = proc[x]
        /\ proc'[w].pc \notin Holding /\ sessions' = sessions
    BY <1>1, <1>p DEF RemoveSession, AfterUnregister, Return, Idle, Holding, TypeOK,
       ProcType, ProcState
  <2>2. QED
    BY <1>0, <2>1, OriginCall
<1>2. CASE Present(t)
  <2>1. /\ \A x \in Procs \ {w} : proc'[x] = proc[x]
        /\ proc'[w].port = sessions[t].sock /\ proc'[w].token = t
        /\ \A u \in Tokens \ {t} : sessions'[u] = sessions[u]
        /\ sessions'[t].sock = None
    BY <1>2, <1>p DEF RemoveSession, NoSession, TypeOK, ProcType, ProcState,
       CacheType
  <2>2. bound[sessions[t].sock].token = t
    BY <1>2 DEF Origin, Live
  <2>3. \A u \in Live' : bound'[sessions'[u].sock].token = u
    BY <1>0, <2>1 DEF Origin, Live, Present
  <2>4. \A x \in Procs :
          proc'[x].pc \in Holding => bound'[proc'[x].port].token = proc'[x].token
    BY <1>0, <2>1, <2>2 DEF Origin
  <2>5. QED
    BY <1>0, <2>3, <2>4 DEF Origin, RoutedToOwner
<1>3. QED
  BY <1>1, <1>2

\* A listener learns its token from the reverse map.
LEMMA ListenerOrigin ==
  ASSUME TypeOK, Mapped, Origin, NEW l \in Listeners, ResponseListener(l)
  PROVE  Origin'
<1>0. UNCHANGED <<sessions, proc, bound>>
  BY DEF ResponseListener, ResolveToken, ReadClient, SendResponse
<1>1. \A k \in Listeners \ {l} : lsn'[k] = lsn[k]
  BY DEF ResponseListener, ResolveToken, ReadClient, SendResponse, Retire, TypeOK,
     ListenerType
<1>2. SUFFICES ASSUME lsn'[l].pc \in {"session", "send"}
               PROVE  lsn'[l].token = bound[lsn'[l].sock].token
  BY <1>0, <1>1 DEF Origin, RoutedToOwner, Live, Present
<1>3. CASE ResolveToken(l)
  <2>1. PICK p \in Ports : p = lsn[l].sock
    BY <1>3 DEF ResolveToken, TypeOK, ListenerType, TaskSet
  <2>2. lsn'[l].sock = p /\ lsn'[l].token = portToken[p] /\ portToken[p] # None
    BY <1>2, <1>3, <2>1 DEF ResolveToken, Retire, Off, TypeOK, ListenerType,
       ListenerState
  <2>3. PICK t \in Tokens : t = portToken[p]
    BY <2>2 DEF TypeOK, CacheType
  <2>4. Entered(t, p)
    BY <2>3 DEF Mapped
  <2>5. bound[p].token = t
    BY <2>4, RelayAssumption DEF Entered, Origin, Live, Present, Holding
  <2>6. QED
    BY <2>2, <2>3, <2>5
<1>4. CASE ReadClient(l) \/ SendResponse(l)
  <2>1. /\ lsn[l].pc \in {"session", "send"}
        /\ lsn'[l].token = lsn[l].token /\ lsn'[l].sock = lsn[l].sock
    <3>1. \A p : ListeningOn(p).pc = "recv" /\ Off.pc = "off"
      BY DEF ListeningOn, Off
    <3>2. lsn \in [Listeners -> ListenerState]
      BY DEF TypeOK, ListenerType
    <3>3. lsn' \notin {[lsn EXCEPT ![l] = ListeningOn(lsn[l].sock)],
                      [lsn EXCEPT ![l] = Off]}
      BY <1>2, <3>1, <3>2
    <3>4. ReadClient(l) /\ lsn' = [lsn EXCEPT ![l].pc = "send",
                       ![l].client = sessions[lsn[l].token].client]
      BY <1>4, <3>3 DEF ReadClient, SendResponse, Retire
    <3>5. lsn[l].pc = "session"
      BY <3>4 DEF ReadClient
    <3>. QED BY <3>2, <3>4, <3>5 DEF ListenerState
  <2>2. QED
    BY <2>1 DEF Origin, RoutedToOwner
<1>5. QED
  BY <1>3, <1>4 DEF ResponseListener

\* Every step keeps it.
LEMMA OriginStep == TypeOK /\ Mapped /\ Origin /\ [Next]_vars => Origin'
<1> SUFFICES ASSUME TypeOK, Mapped, Origin, [Next]_vars PROVE Origin'
  OBVIOUS
<1>0. Cleaner \in Procs /\ \A w \in Workers : w \in Procs
  BY DEF Procs
<1>1. ASSUME UNCHANGED <<proc, bound, lsn>>,
             \A t \in Tokens : sessions'[t].sock = sessions[t].sock
      PROVE  Origin'
  BY <1>1, OriginKept
<1>2. ASSUME NEW w \in Workers, HttpRequest(w) PROVE Origin'
  <2>1. /\ UNCHANGED <<sessions, bound, lsn>>
        /\ \A x \in Procs \ {w} : proc'[x] = proc[x]
        /\ proc'[w].pc \in {"check", "remove"}
    BY <1>0, <1>2 DEF HttpRequest, BeginRegister, BeginUnregister, Idle, TypeOK,
       ProcType
  <2>2. QED
    BY <1>0, <2>1, OriginCall DEF Holding
<1>3. ASSUME NEW w \in Workers, CheckCapacity(w) \/ BindFails(w) \/ InsertPort(w)
      PROVE Origin'
  <2>1. /\ UNCHANGED <<sessions, bound, lsn>>
        /\ \A x \in Procs \ {w} : proc'[x] = proc[x]
        /\ proc'[w].pc \in {"idle", "remove", "regLen"}
    BY <1>0, <1>3 DEF CheckCapacity, BindFails, InsertPort, Goto, Return,
       Idle, TypeOK, ProcType, ProcState
  <2>2. QED
    BY <1>0, <2>1, OriginCall DEF Holding
<1>4. ASSUME NEW w \in Procs, RemovePort(w) \/ ReadLen(w) \/ SetGauge(w)
      PROVE  Origin'
  <2>1. /\ UNCHANGED <<sessions, bound, lsn>>
        /\ \A x \in Procs \ {w} : proc'[x] = proc[x]
        /\ proc'[w].pc \in Holding =>
           /\ proc[w].pc \in Holding
           /\ proc'[w].port = proc[w].port /\ proc'[w].token = proc[w].token
    BY <1>4 DEF RemovePort, ReadLen, SetGauge, AfterUnregister, Goto, Return, Idle,
       Holding, TypeOK, ProcType, ProcState
  <2>2. QED
    BY <2>1, OriginCall
<1>5. ASSUME NEW t \in Tokens, RemoveNextStale(t) PROVE Origin'
  <2>1. /\ UNCHANGED <<sessions, bound, lsn>>
        /\ \A x \in Procs \ {Cleaner} : proc'[x] = proc[x]
        /\ proc'[Cleaner].pc = "remove"
    BY <1>0, <1>5 DEF RemoveNextStale, Idle, TypeOK, ProcType
  <2>2. QED
    BY <1>0, <2>1, OriginCall DEF Holding
<1>6. ASSUME NEW w \in Workers, SpawnListener(w) PROVE Origin'
  <2>1. /\ UNCHANGED <<sessions, bound>>
        /\ \A x \in Procs \ {w} : proc'[x] = proc[x]
        /\ proc'[w].pc = "idle"
    BY <1>0, <1>6 DEF SpawnListener, Return, Idle, TypeOK, ProcType
  <2>2. \A l \in Listeners :
          lsn'[l].pc \in {"session", "send"} => lsn'[l] = lsn[l]
    BY <1>6 DEF SpawnListener, ListeningOn, Off, TypeOK, ListenerType, ListenerState
  <2>3. RoutedToOwner'
    BY <2>1, <2>2 DEF Origin, RoutedToOwner
  <2>4. QED
    BY <2>1, <2>3 DEF Origin, Live, Present, Holding
<1>7. CASE CollectStale \/ UNCHANGED vars
  BY <1>1, <1>7 DEF CollectStale, vars
<1>8. CASE (\E t \in Tokens : Age(t)) \/ ClientListener
  <2>1. UNCHANGED <<bound, lsn>>
    BY <1>8 DEF Age, ClientListener, Keepalive, Control, Data, ForwardToGame,
       Receiving
  <2>2. QED
    BY <1>1, <1>8, <2>1, DatapathSockets
<1>9. ASSUME NEW w \in Workers, Register(w) PROVE Origin'
  BY <1>3, <1>6, <1>9, BindOrigin, InsertOrigin DEF Register
<1>10. ASSUME NEW w \in Procs, Unregister(w) PROVE Origin'
  BY <1>4, <1>10, RemoveOrigin DEF Unregister
<1>11. QED
  BY <1>2, <1>5, <1>7, <1>8, <1>9, <1>10, ListenerOrigin DEF Next, Cleanup
-----------------------------------------------------------------------------
\* An entry has a listener, or the call that made it is still to start one.
Attended ==
  /\ \A l \in Listeners : lsn[l].pc = "off" => lsn[l].sock = None
  /\ \A t \in Live :
       \/ \E w \in Procs : proc[w].pc \in After /\ proc[w].token = t
       \/ \E l \in Listeners : lsn[l].sock = sessions[t].sock

\* A step that ends no listener, brings no entry, and keeps the calls that are
\* past their insert.
LEMMA AttendedKept ==
  ASSUME TypeOK, Attended, UNCHANGED lsn,
         \A t \in Tokens : sessions'[t].sock \in {sessions[t].sock, None},
         \A w \in Procs : proc[w].pc \in After =>
           proc'[w].pc \in After /\ proc'[w].token = proc[w].token
  PROVE  Attended'
<1>1. \A t \in Live' : t \in Live /\ sessions'[t].sock = sessions[t].sock
  BY DEF Live, Present
<1>2. QED
  BY <1>1 DEF Attended

\* The same for a step of one call.
LEMMA AttendedCall ==
  ASSUME TypeOK, Attended, UNCHANGED lsn, NEW w \in Procs,
         \A t \in Tokens : sessions'[t].sock \in {sessions[t].sock, None},
         \A x \in Procs \ {w} : proc'[x] = proc[x],
         proc[w].pc \in After =>
           proc'[w].pc \in After /\ proc'[w].token = proc[w].token
  PROVE  Attended'
BY AttendedKept

\* A new entry is its call's.
LEMMA InsertAttended ==
  ASSUME TypeOK, Attended, NEW w \in Workers, InsertSession(w)
  PROVE  Attended'
<1>p. PICK t \in Tokens : t = proc[w].token
  BY DEF InsertSession, TypeOK, ProcType, LocalsSet, Procs
<1>0. w \in Procs /\ proc[w].pc = "insert" /\ UNCHANGED lsn
  BY DEF InsertSession, Procs
<1>1. /\ \A x \in Procs \ {w} : proc'[x] = proc[x]
      /\ proc'[w].pc = "insertPort" /\ proc'[w].token = t
      /\ \A u \in Tokens \ {t} : sessions'[u] = sessions[u]
  BY <1>0, <1>p DEF InsertSession, Goto, TypeOK, ProcType, ProcState, CacheType
<1>2. \A x \in Procs : proc[x].pc \in After =>
        proc'[x].pc \in After /\ proc'[x].token = proc[x].token
  BY <1>0, <1>1 DEF After
<1>3. ASSUME NEW u \in Live'
      PROVE  \/ \E x \in Procs : proc'[x].pc \in After /\ proc'[x].token = u
             \/ \E l \in Listeners : lsn'[l].sock = sessions'[u].sock
  <2>1. CASE u = t
    BY <1>0, <1>1, <2>1 DEF After
  <2>2. CASE u # t
    <3>1. u \in Live /\ sessions'[u] = sessions[u]
      BY <1>1, <1>3, <2>2 DEF Live, Present
    <3>2. QED
      BY <1>0, <1>2, <3>1 DEF Attended
  <2>3. QED
    BY <2>1, <2>2
<1>4. QED
  BY <1>0, <1>3 DEF Attended

\* The handler finds the entry its call has made, and starts a listener.
LEMMA SpawnAttended ==
  ASSUME TypeOK, Undisturbed, Attended, NEW w \in Workers, SpawnListener(w)
  PROVE  Attended'
<1>p. PICK t \in Tokens : t = proc[w].token
  BY DEF SpawnListener, TypeOK, ProcType, LocalsSet, Procs
<1>0. /\ w \in Procs /\ proc[w].pc = "spawn" /\ sessions' = sessions
      /\ proc[w].op = "register"
  BY DEF SpawnListener, Procs, TypeOK, ProcType, LocalsSet, Registering
<1>1. Present(t)
  BY <1>0, <1>p DEF Undisturbed, Calm, Before
<1>2. PICK l \in Listeners : /\ lsn[l].pc = "off"
                             /\ lsn' = [lsn EXCEPT ![l] = ListeningOn(sessions[t].sock)]
  BY <1>1, <1>p DEF SpawnListener
<1>3. /\ lsn'[l].sock = sessions[t].sock /\ lsn'[l].pc = "recv"
      /\ \A k \in Listeners \ {l} : lsn'[k] = lsn[k]
      /\ lsn[l].sock = None
  BY <1>2 DEF ListeningOn, Off, TypeOK, ListenerType, Attended
<1>4. \A x \in Procs \ {w} : proc'[x] = proc[x]
  BY <1>0 DEF SpawnListener, Return, TypeOK, ProcType
<1>5. ASSUME NEW u \in Live
      PROVE  \/ \E x \in Procs : proc'[x].pc \in After /\ proc'[x].token = u
             \/ \E k \in Listeners : lsn'[k].sock = sessions[u].sock
  <2>1. CASE u = t
    BY <1>3, <2>1
  <2>2. CASE \E x \in Procs \ {w} : proc[x].pc \in After /\ proc[x].token = u
    BY <1>4, <2>2
  <2>3. CASE \E k \in Listeners : lsn[k].sock = sessions[u].sock
    BY <1>3, <2>3 DEF Live, Present
  <2>4. QED
    BY <1>p, <2>1, <2>2, <2>3 DEF Attended
<1>6. \A k \in Listeners : lsn'[k].pc = "off" => lsn'[k].sock = None
  BY <1>3 DEF Attended
<1>7. QED
  BY <1>0, <1>5, <1>6 DEF Attended, Live, Present

\* A listener ends only when no entry has its socket, or when the entry's call
\* has not written the port yet.
LEMMA ListenerAttended ==
  ASSUME TypeOK, Mapped, Origin, Attended, NEW l \in Listeners, ResponseListener(l)
  PROVE  Attended'
<1>0. UNCHANGED <<sessions, proc>>
  BY DEF ResponseListener, ResolveToken, ReadClient, SendResponse
<1>1. \A k \in Listeners \ {l} : lsn'[k] = lsn[k]
  BY DEF ResponseListener, ResolveToken, ReadClient, SendResponse, Retire, TypeOK,
     ListenerType
<1>2. lsn \in [Listeners -> ListenerState] /\ Off.pc = "off" /\ Off.sock = None
      /\ \A p : ListeningOn(p).pc = "recv" /\ ListeningOn(p).sock = p
  BY DEF TypeOK, ListenerType, Off, ListeningOn
<1>3. CASE ~Retire(l)
  <2>1. lsn'[l].sock = lsn[l].sock /\ lsn'[l].pc # "off"
    <3>1. CASE ResolveToken(l)
      BY <1>2, <1>3, <3>1 DEF ResolveToken, ListenerState
    <3>2. CASE ReadClient(l)
      BY <1>2, <1>3, <3>2 DEF ReadClient, ListenerState
    <3>3. CASE SendResponse(l)
      BY <1>2, <3>3 DEF SendResponse, ListenerState
    <3>4. QED
      BY <3>1, <3>2, <3>3 DEF ResponseListener
  <2>2. QED
    BY <1>0, <1>1, <2>1 DEF Attended, Live, Present
<1>4. CASE Retire(l)
  <2>1. lsn'[l].sock = None
    BY <1>2, <1>4 DEF Retire
  <2>2. PICK p \in Ports : p = lsn[l].sock
    BY <1>2 DEF ResponseListener, ResolveToken, ReadClient, SendResponse, TypeOK,
       ListenerType, TaskSet
  <2>3. ASSUME NEW t \in Live, sessions[t].sock = p
        PROVE  \E w \in Procs : proc[w].pc \in After /\ proc[w].token = t
    <3>0. t \in Tokens /\ Present(t)
      BY DEF Live
    <3>1. CASE ResolveToken(l)
      <4>1. lsn[l].pc = "recv"
        BY <3>1 DEF ResolveToken
      <4>2. portToken[p] = None
        <5>1. SUFFICES ASSUME portToken[p] # None
                       PROVE  FALSE
          OBVIOUS
        <5>2. lsn' = [lsn EXCEPT ![l].pc = "session", ![l].token = portToken[p]]
          BY <2>2, <3>1, <5>1 DEF ResolveToken
        <5>3. lsn'[l].pc = "session"
          BY <1>2, <5>2 DEF ListenerState
        <5>4. lsn'[l].pc = "off"
          BY <1>2, <1>4 DEF Retire
        <5>5. QED
          BY <5>3, <5>4
      <4>3. ~Entered(t, p)
        BY <3>0, <4>2, RelayAssumption DEF Mapped
      <4>4. QED
        BY <2>3, <4>3 DEF Entered, After
    <3>2. CASE ReadClient(l)
      <4>1. lsn[l].pc = "session" /\ ~Present(lsn[l].token)
        BY <1>2, <1>4, <3>2 DEF ReadClient, Retire, ListenerState
      <4>2. lsn[l].token = bound[p].token /\ bound[p].token = t
        BY <2>2, <2>3, <4>1 DEF Origin, RoutedToOwner
      <4>3. QED
        BY <3>0, <4>1, <4>2
    <3>3. CASE SendResponse(l)
      BY <1>2, <1>4, <3>3 DEF SendResponse, Retire
    <3>4. QED
      BY <3>1, <3>2, <3>3 DEF ResponseListener
  <2>4. ASSUME NEW t \in Live
        PROVE  \/ \E w \in Procs : proc[w].pc \in After /\ proc[w].token = t
               \/ \E k \in Listeners : lsn'[k].sock = sessions[t].sock
    <3>1. CASE sessions[t].sock = p
      BY <2>3, <3>1
    <3>2. CASE sessions[t].sock # p
      BY <1>1, <2>2, <3>2 DEF Attended
    <3>3. QED
      BY <3>1, <3>2
  <2>5. QED
    BY <1>0, <1>1, <2>1, <2>4 DEF Attended, Live, Present
<1>5. QED
  BY <1>3, <1>4

\* Every step keeps it.
LEMMA AttendedStep ==
  TypeOK /\ Undisturbed /\ Mapped /\ Origin /\ Attended /\ [Next]_vars => Attended'
<1> SUFFICES ASSUME TypeOK, Undisturbed, Mapped, Origin, Attended, [Next]_vars
             PROVE  Attended'
  OBVIOUS
<1> USE DEF After
<1>0. Cleaner \in Procs /\ \A w \in Workers : w \in Procs
  BY DEF Procs
<1>1. ASSUME UNCHANGED <<proc, lsn>>,
             \A t \in Tokens : sessions'[t].sock = sessions[t].sock
      PROVE  Attended'
  BY <1>1, AttendedKept
<1>2. ASSUME NEW w \in Workers,
             \/ HttpRequest(w)
             \/ CheckCapacity(w)
             \/ \E p \in Ports : Bind(w, p)
             \/ BindFails(w)
             \/ InsertPort(w)
      PROVE  Attended'
  <2>1. CASE HttpRequest(w)
    <3>1. /\ UNCHANGED <<sessions, lsn>> /\ proc[w].pc = "idle"
          /\ \A x \in Procs \ {w} : proc'[x] = proc[x]
      BY <1>0, <2>1 DEF HttpRequest, BeginRegister, BeginUnregister, TypeOK, ProcType
    <3>2. QED
      BY <1>0, <3>1, AttendedCall
  <2>2. CASE ~HttpRequest(w)
    <3>1. /\ UNCHANGED <<sessions, lsn>>
          /\ \A x \in Procs \ {w} : proc'[x] = proc[x]
          /\ \/ proc[w].pc \in {"check", "bind"}
             \/ /\ proc[w].pc = "insertPort"
                /\ proc'[w].pc = "regLen" /\ proc'[w].token = proc[w].token
      BY <1>0, <1>2, <2>2 DEF CheckCapacity, Bind, BindFails, InsertPort, Goto,
         Return, TypeOK, ProcType, ProcState
    <3>2. QED
      BY <1>0, <3>1, AttendedCall
  <2>3. QED
    BY <2>1, <2>2
<1>3. ASSUME NEW w \in Procs, RemovePort(w) \/ ReadLen(w) \/ SetGauge(w)
      PROVE  Attended'
  <2>1. /\ UNCHANGED <<sessions, lsn>>
        /\ \A x \in Procs \ {w} : proc'[x] = proc[x]
        /\ proc[w].pc \in After =>
             proc'[w].pc \in After /\ proc'[w].token = proc[w].token
    BY <1>3 DEF RemovePort, ReadLen, SetGauge, AfterUnregister, Goto, Return, TypeOK,
       ProcType, ProcState
  <2>2. QED
    BY <2>1, AttendedCall
<1>4. ASSUME NEW w \in Procs, RemoveSession(w) PROVE Attended'
  <2>0. proc[w].pc = "remove" /\ proc[w].token \in Tokens /\ UNCHANGED lsn
    BY <1>4 DEF RemoveSession, TypeOK, ProcType, LocalsSet
  <2>1. /\ \A x \in Procs \ {w} : proc'[x] = proc[x]
        /\ \A t \in Tokens : sessions'[t].sock \in {sessions[t].sock, None}
    BY <1>4, <2>0 DEF RemoveSession, AfterUnregister, Return, NoSession, TypeOK,
       ProcType, CacheType
  <2>2. QED
    BY <2>0, <2>1, AttendedCall
<1>5. ASSUME NEW t \in Tokens, RemoveNextStale(t) PROVE Attended'
  <2>1. /\ UNCHANGED <<sessions, lsn>> /\ proc[Cleaner].pc = "idle"
        /\ \A x \in Procs \ {Cleaner} : proc'[x] = proc[x]
    BY <1>0, <1>5 DEF RemoveNextStale, TypeOK, ProcType
  <2>2. QED
    BY <1>0, <2>1, AttendedCall
<1>6. CASE CollectStale \/ UNCHANGED vars
  BY <1>1, <1>6 DEF CollectStale, vars
<1>7. CASE (\E t \in Tokens : Age(t)) \/ ClientListener
  <2>1. UNCHANGED lsn
    BY <1>7 DEF Age, ClientListener, Keepalive, Control, Data, ForwardToGame,
       Receiving
  <2>2. QED
    BY <1>1, <1>7, <2>1, DatapathSockets
<1>8. ASSUME NEW w \in Workers, Register(w) PROVE Attended'
  BY <1>2, <1>8, InsertAttended, SpawnAttended DEF Register
<1>9. ASSUME NEW w \in Procs, Unregister(w) PROVE Attended'
  BY <1>3, <1>4, <1>9 DEF Unregister
<1>10. QED
  BY <1>2, <1>5, <1>6, <1>7, <1>8, <1>9, ListenerAttended DEF Next, Cleanup

\* What holds while callers do not overlap.
Orderly == Resting /\ Undisturbed /\ Mapped /\ Origin /\ Attended

\* The relay starts empty.
LEMMA OrderlyInit == Init => Orderly
<1> SUFFICES ASSUME Init PROVE Orderly
  OBVIOUS
<1>1. \A t \in Tokens : sessions[t].sock = None
  BY DEF Init, NoSession
<1>2. \A w \in Procs : proc[w].pc = "idle" /\ proc[w].op = "none" /\ proc[w].token = None
  BY DEF Init, Idle
<1>3. \A l \in Listeners : lsn[l].pc = "off" /\ lsn[l].sock = None
  BY DEF Init, Off
<1>4. \A p \in Ports : portToken[p] = None
  BY DEF Init
<1>5. Live = {}
  BY <1>1 DEF Live, Present
<1>6. Mapped
  BY <1>1, <1>2, <1>4, RelayAssumption DEF Mapped, Entered
<1>7. QED
  BY <1>2, <1>3, <1>5, <1>6 DEF Orderly, Resting, Undisturbed, Origin, RoutedToOwner,
     Attended, Holding

\* Orderly is an invariant.
LEMMA AlwaysOrderly ==
  ASSUME Serial
  PROVE  Spec => [](TypeOK /\ SocketsExclusive /\ Orderly)
<1>1. TypeOK /\ SocketsExclusive /\ Orderly /\ [Next]_vars => Orderly'
  BY RestingStep, UndisturbedStep, MappedStep, OriginStep, AttendedStep DEF Orderly
<1>2. QED
  BY <1>1, OrderlyInit, TypeCorrect, SocketsNeverShared, PTL DEF Spec

\* Theorem: while callers do not overlap calls about one token, a datagram from
\* a game server is answered under the token whose registration opened the socket
\* it came to.
THEOREM RoutedRight ==
  ASSUME Serial
  PROVE  Spec => []RoutedToOwner
<1>1. Orderly => RoutedToOwner
  BY DEF Orderly, Origin
<1>2. QED
  BY <1>1, AlwaysOrderly, PTL

\* Theorem: under the same assumption the two maps are inverse at every token
\* nobody is working on.
THEOREM MapsInverse ==
  ASSUME Serial
  PROVE  Spec => []MapsAgree
<1>1. Orderly => MapsAgree
  BY DEF Orderly, Mapped, Entered, MapsAgree, Busy
<1>2. QED
  BY <1>1, AlwaysOrderly, PTL

\* Theorem: and every session nobody is working on has a listener.
THEOREM SessionsListened ==
  ASSUME Serial
  PROVE  Spec => []SessionListened
<1>1. Orderly => SessionListened
  BY DEF Orderly, Attended, SessionListened, Busy
<1>2. QED
  BY <1>1, AlwaysOrderly, PTL
-----------------------------------------------------------------------------
\* What the table of SessionTable holds, looked up.
LEMMA Shown ==
  /\ \A t \in Tokens : Entries[t] = Entry(sessions[t])
  /\ \A t \in Tokens : /\ Entries[t].sock = sessions[t].sock
                       /\ Entries[t].ips = sessions[t].ips
                       /\ Entries[t].target = sessions[t].target
                       /\ Entries[t].client = sessions[t].client
  /\ \A t \in Tokens : Table!Has(t) <=> Present(t)
  /\ \A l \in Listeners : Answers[l] = Bringing(lsn[l])
  /\ Table!NoPacket = NoPacket /\ Entry(NoSession) = Table!NoSession
BY DEF Entries, Entry, Answers, Bringing, Table!Has, Present, NoPacket, NoSession,
   Table!NoPacket, Table!NoSession

\* A step of one entry is a step of one row of the table.
LEMMA EntryShows ==
  ASSUME TypeOK, NEW t \in Tokens, NEW e, sessions' = [sessions EXCEPT ![t] = e]
  PROVE  Entries' = [Entries EXCEPT ![t] = Entry(e)]
BY DEF Entries, TypeOK, CacheType

\* And so it is for a listener and its answer.
LEMMA AnswerShows ==
  ASSUME TypeOK, NEW l \in Listeners, NEW k, lsn' = [lsn EXCEPT ![l] = k]
  PROVE  Answers' = [Answers EXCEPT ![l] = Bringing(k)]
BY DEF Answers, TypeOK, ListenerType

\* What the calls do before and after they change the session map.
LEMMA CallHidden ==
  ASSUME TypeOK, NEW w \in Procs,
         \/ w \in Workers /\ HttpRequest(w)
         \/ CheckCapacity(w) \/ BindFails(w) \/ InsertPort(w)
         \/ RemovePort(w) \/ ReadLen(w) \/ SetGauge(w)
         \/ Cleanup
  PROVE  UNCHANGED Table!vars
<1>1. UNCHANGED <<sessions, bound, fwd, lsn>>
  BY DEF HttpRequest, BeginRegister, BeginUnregister, CheckCapacity, BindFails,
     InsertPort, RemovePort, ReadLen, SetGauge, Cleanup, CollectStale, RemoveNextStale
<1>2. QED
  BY <1>1 DEF Table!vars, Entries, Answers

\* A new listener brings nothing yet.
LEMMA SpawnHidden ==
  ASSUME TypeOK, NEW w \in Workers, SpawnListener(w)
  PROVE  UNCHANGED Table!vars
<1>1. UNCHANGED <<sessions, bound, fwd>>
  BY DEF SpawnListener
<1>2. \A l \in Listeners : lsn'[l] # lsn[l] => lsn[l].pc = "off" /\ lsn'[l].pc = "recv"
  BY DEF SpawnListener, ListeningOn, Off, TypeOK, ListenerType
<1>3. Answers' = Answers
  BY <1>2 DEF Answers, Bringing
<1>4. QED
  BY <1>1, <1>3 DEF Table!vars, Entries

\* The table has no clock.
LEMMA AgeHidden ==
  ASSUME TypeOK, NEW t \in Tokens, Age(t)
  PROVE  UNCHANGED Table!vars
<1>1. UNCHANGED <<bound, fwd, lsn>>
  BY DEF Age
<1>2. sessions' = [sessions EXCEPT ![t] = [sessions[t] EXCEPT !.fresh = FALSE]]
  BY DEF Age
<1>3. Entry([sessions[t] EXCEPT !.fresh = FALSE]) = Entry(sessions[t])
  BY DEF Entry, TypeOK, CacheType, Session
<1>4. Entries' = Entries
  BY <1>2, <1>3, EntryShows, Shown DEF Entries
<1>5. QED
  BY <1>1, <1>4 DEF Table!vars, Answers

\* The kernel gives a socket that nobody holds, so none of the table's.
LEMMA BindOpens ==
  ASSUME TypeOK, NEW w \in Workers, NEW p \in Ports, Bind(w, p)
  PROVE  Table!Open(p, proc[w].token, proc[w].ips)
<1>1. /\ \A t \in Tokens : sessions[t].sock # p
      /\ \A l \in Listeners : lsn[l].sock # p
      /\ fwd.sock # p
  BY DEF Bind, InUse
<1>2. p # None
  BY RelayAssumption
<1>3. \A l \in Listeners : Answers[l].sock # p
  BY <1>1, <1>2 DEF Answers, Bringing
<1>4. UNCHANGED <<Entries, Answers>>
  BY DEF Bind, Entries, Answers
<1>5. QED
  BY <1>1, <1>3, <1>4, Shown DEF Bind, Table!Open

\* The entry comes: nobody else works on its token, and its socket is its own.
LEMMA InsertEnters ==
  ASSUME TypeOK, Orderly, SocketsExclusive, GrantInv, NEW w \in Workers,
         InsertSession(w)
  PROVE  \E p \in Ports, t \in Tokens, g \in GameIps \cup {None} : Table!Enter(p, t, g)
<1> DEFINE t == proc[w].token
           p == proc[w].port
           g == proc[w].target
<1>1. /\ w \in Procs /\ proc[w].pc = "insert" /\ proc[w].op = "register"
      /\ t \in Tokens /\ p \in Ports /\ g \in proc[w].ips \cup {None}
      /\ g \in GameIps \cup {None}
  BY DEF InsertSession, Procs, TypeOK, ProcType, ProcState, LocalsSet, Holding,
     Registering
<1>2. ~Present(t)
  BY <1>1 DEF Orderly, Undisturbed, Calm, Before, After
<1>3. bound[p].token = t /\ bound[p].ips = proc[w].ips
  BY <1>1 DEF Orderly, Origin, Holding, GrantInv
<1>4. \A u \in Tokens : sessions[u].sock # p
  <2>1. p # None
    BY <1>1, RelayAssumption
  <2>2. QED
    BY <1>1, <2>1 DEF SocketsExclusive, Live, Present, Holding
<1>5. Entries' = [Entries EXCEPT ![t] = [sock |-> p, ips |-> bound[p].ips,
                                         target |-> g, client |-> None]]
  <2> DEFINE e == [sock |-> p, ips |-> proc[w].ips, target |-> g,
                   client |-> None, fresh |-> TRUE]
  <2>1. sessions' = [sessions EXCEPT ![t] = e]
    BY DEF InsertSession
  <2>2. Entries' = [Entries EXCEPT ![t] = Entry(e)]
    BY <1>1, <2>1, EntryShows
  <2>3. Entry(e) = [sock |-> p, ips |-> bound[p].ips, target |-> g, client |-> None]
    BY <1>3 DEF Entry
  <2>4. QED
    BY <2>2, <2>3
<1>6. UNCHANGED <<bound, fwd, Answers>>
  BY DEF InsertSession, Answers
<1>7. Table!Enter(p, t, g)
  BY <1>1, <1>2, <1>3, <1>4, <1>5, <1>6, Shown DEF Table!Enter
<1>8. QED
  BY <1>1, <1>7

\* And goes.
LEMMA RemoveLeaves ==
  ASSUME TypeOK, NEW w \in Procs, RemoveSession(w)
  PROVE  (\E t \in Tokens : Table!Leave(t)) \/ UNCHANGED Table!vars
<1> DEFINE t == proc[w].token
<1>1. t \in Tokens
  BY DEF RemoveSession, TypeOK, ProcType, LocalsSet
<1>2. UNCHANGED <<bound, fwd, lsn>>
  BY DEF RemoveSession
<1>3. CASE Present(t)
  <2>1. sessions' = [sessions EXCEPT ![t] = NoSession]
    BY <1>3 DEF RemoveSession
  <2>2. Entries' = [Entries EXCEPT ![t] = Table!NoSession]
    BY <1>1, <2>1, EntryShows, Shown
  <2>3. UNCHANGED Answers
    BY <1>2 DEF Answers
  <2>4. Table!Leave(t)
    BY <1>1, <1>2, <1>3, <2>2, <2>3, Shown DEF Table!Leave
  <2>5. QED
    BY <1>1, <2>4
<1>4. CASE ~Present(t)
  <2>1. UNCHANGED sessions
    BY <1>4 DEF RemoveSession
  <2>2. QED
    BY <1>2, <2>1 DEF Table!vars, Entries, Answers
<1>5. QED
  BY <1>3, <1>4

\* A client's packet: the relay's three kinds are the table's.
LEMMA PacketShows ==
  ASSUME TypeOK, NEW t \in Tokens, NEW c \in Clients,
         \/ Keepalive(t, c)
         \/ \E ip \in GameIps : Control(t, c, ip)
         \/ Data(t, c)
  PROVE  \/ Table!Hear(t, c) \/ Table!Take(t, c)
         \/ \E g \in GameIps : Table!Choose(t, c, g)
<1>1. Present(t) /\ fwd = NoPacket /\ UNCHANGED <<bound, lsn>>
  BY DEF Keepalive, Control, Data, Receiving
<1>2. /\ Table!Has(t) /\ UNCHANGED <<bound, Answers>>
      /\ fwd = Table!NoPacket
  BY <1>1, Shown DEF Answers
<1>3. sessions[t] \in Session /\ Entries[t] = Entry(sessions[t])
  BY Shown DEF TypeOK, CacheType
<1>4. ASSUME sessions' = [sessions EXCEPT ![t] = Touched(t, c)]
      PROVE  Entries' = [Entries EXCEPT ![t].client = c]
  <2>1. Entries' = [Entries EXCEPT ![t] = Entry(Touched(t, c))]
    BY <1>4, EntryShows
  <2>2. Entry(Touched(t, c)) = [Entry(sessions[t]) EXCEPT !.client = c]
    BY <1>3 DEF Entry, Touched, Session
  <2>3. QED
    BY <1>3, <2>1, <2>2
<1>5. CASE Keepalive(t, c)
  <2>1. Table!Hear(t, c)
    BY <1>2, <1>4, <1>5 DEF Keepalive, Table!Hear
  <2>2. QED
    BY <2>1
<1>6. ASSUME NEW ip \in GameIps, Control(t, c, ip)
      PROVE  Table!Hear(t, c) \/ Table!Choose(t, c, ip)
  <2>1. UNCHANGED fwd
    BY <1>6 DEF Control
  <2>2. CASE ip \in sessions[t].ips
    <3>1. sessions' = [sessions EXCEPT ![t] = [Touched(t, c) EXCEPT !.target = ip]]
      BY <1>6, <2>2 DEF Control
    <3>2. Entries' = [Entries EXCEPT ![t] = Entry([Touched(t, c) EXCEPT !.target = ip])]
      BY <3>1, EntryShows
    <3> DEFINE e == [Touched(t, c) EXCEPT !.target = ip]
    <3>3. Entry(e) = [Entries[t] EXCEPT !.client = c, !.target = ip]
      <4>1. /\ e.sock = sessions[t].sock /\ e.ips = sessions[t].ips
            /\ e.target = ip /\ e.client = c
        BY <1>3 DEF Touched, Session
      <4>2. Entry(e) = [sock |-> sessions[t].sock, ips |-> sessions[t].ips,
                        target |-> ip, client |-> c]
        BY <4>1 DEF Entry
      <4> DEFINE x == sessions[t]
      <4>3. Entries[t] = [sock |-> x.sock, ips |-> x.ips, target |-> x.target,
                          client |-> x.client]
        BY <1>3 DEF Entry
      <4> DEFINE y == [Entries[t] EXCEPT !.client = c]
      <4>4. y = [sock |-> x.sock, ips |-> x.ips, target |-> x.target, client |-> c]
        BY <4>3
      <4> HIDE DEF y
      <4>5. [y EXCEPT !.target = ip]
              = [sock |-> x.sock, ips |-> x.ips, target |-> ip, client |-> c]
        BY <4>4
      <4>6. QED
        BY <4>2, <4>5 DEF y
    <3>4. Entries' = [Entries EXCEPT ![t].client = c, ![t].target = ip]
      BY <3>2, <3>3 DEF Entries
    <3>5. ip \in Entries[t].ips
      BY <1>3, <2>2 DEF Entry
    <3>6. Table!Choose(t, c, ip)
      BY <1>2, <2>1, <3>4, <3>5 DEF Table!Choose
    <3>7. QED
      BY <3>6
  <2>3. CASE ip \notin sessions[t].ips
    <3>1. Table!Hear(t, c)
      BY <1>2, <1>4, <1>6, <2>1, <2>3 DEF Control, Table!Hear
    <3>2. QED
      BY <3>1
  <2>4. QED
    BY <2>2, <2>3
<1>7. CASE Data(t, c)
  <2>1. Entries' = [Entries EXCEPT ![t].client = c]
    BY <1>4, <1>7 DEF Data
  <2>2. CASE sessions[t].target = None
    <3>1. fwd' = fwd
      BY <1>1, <1>7, <2>2 DEF Data
    <3>2. Table!Hear(t, c)
      BY <1>2, <2>1, <3>1 DEF Table!Hear
    <3>3. QED
      BY <3>2
  <2>3. CASE sessions[t].target # None
    <3>1. fwd' = [sock |-> Entries[t].sock, target |-> Entries[t].target]
      BY <1>3, <1>7, <2>3 DEF Data, Entry
    <3>2. Entries[t].target # None
      BY <1>3, <2>3 DEF Entry
    <3>3. Table!Take(t, c)
      BY <1>2, <2>1, <3>1, <3>2 DEF Table!Take
    <3>4. QED
      BY <3>3
  <2>4. QED
    BY <2>2, <2>3
<1>8. QED
  BY <1>5, <1>6, <1>7

\* A listener: only the reading of the client and the sending show.
LEMMA ListenerShows ==
  ASSUME TypeOK, Orderly, NEW l \in Listeners, ResponseListener(l)
  PROVE  \/ Table!SendAnswer(l) \/ \E p \in Ports : Table!TakeAnswer(l, p)
         \/ UNCHANGED Table!vars
<1>1. UNCHANGED <<sessions, bound, fwd>> /\ UNCHANGED Entries
  BY DEF ResponseListener, ResolveToken, ReadClient, SendResponse, Entries
<1>2. lsn[l] \in ListenerState /\ TaskSet(lsn[l]) /\ lsn \in [Listeners -> ListenerState]
  BY DEF TypeOK, ListenerType
<1>3. Answers[l] = Bringing(lsn[l])
  BY Shown
<1>4. ASSUME NEW k, lsn' = [lsn EXCEPT ![l] = k], k.pc # "send", lsn[l].pc # "send"
      PROVE  UNCHANGED Table!vars
  <2>1. Answers' = Answers
    BY <1>2, <1>4 DEF Answers, Bringing
  <2>2. QED
    BY <1>1, <2>1 DEF Table!vars
<1>5. Off.pc = "off" /\ \A p : ListeningOn(p).pc = "recv"
  BY DEF Off, ListeningOn
<1>6. CASE ResolveToken(l)
  <2>1. PICK k : lsn' = [lsn EXCEPT ![l] = k] /\ k.pc # "send"
    <3>1. CASE portToken[lsn[l].sock] = None
      BY <1>5, <1>6, <3>1 DEF ResolveToken, Retire
    <3>2. CASE portToken[lsn[l].sock] # None
      <4> DEFINE k == [lsn[l] EXCEPT !.pc = "session", !.token = portToken[lsn[l].sock]]
      <4>1. lsn' = [lsn EXCEPT ![l] = k]
        BY <1>2, <1>6, <3>2 DEF ResolveToken
      <4>2. k.pc = "session"
        BY <1>2 DEF ListenerState
      <4>3. QED
        BY <4>1, <4>2
    <3>3. QED
      BY <3>1, <3>2
  <2>2. lsn[l].pc # "send"
    BY <1>6 DEF ResolveToken
  <2>3. QED
    BY <1>4, <2>1, <2>2
<1>7. CASE ReadClient(l)
  <2> DEFINE t == lsn[l].token
             p == lsn[l].sock
  <2>1. lsn[l].pc = "session" /\ t \in Tokens /\ p \in Ports
    BY <1>2, <1>7 DEF ReadClient, TaskSet
  <2>2. CASE ~Present(t)
    BY <1>4, <1>5, <1>7, <2>1, <2>2 DEF ReadClient, Retire
  <2>3. CASE Present(t) /\ sessions[t].client = None
    BY <1>4, <1>5, <1>7, <2>1, <2>3 DEF ReadClient
  <2>4. CASE Present(t) /\ sessions[t].client # None
    <3>1. bound[p].token = t
      BY <2>1 DEF Orderly, Origin, RoutedToOwner
    <3>2. lsn' = [lsn EXCEPT ![l] = [lsn[l] EXCEPT !.pc = "send",
                                                   !.client = sessions[t].client]]
      BY <1>2, <1>7, <2>4 DEF ReadClient
    <3>3. Bringing([lsn[l] EXCEPT !.pc = "send", !.client = sessions[t].client])
            = [sock |-> p, token |-> t, client |-> Entries[t].client]
      <4> DEFINE k == [lsn[l] EXCEPT !.pc = "send", !.client = sessions[t].client]
      <4>1. /\ k.pc = "send" /\ k.sock = p /\ k.token = t
            /\ k.client = sessions[t].client
        BY <1>2 DEF ListenerState
      <4>2. Entries[t].client = sessions[t].client
        BY <2>1, Shown
      <4>3. QED
        BY <4>1, <4>2 DEF Bringing
    <3>4. Answers' = [Answers EXCEPT ![l] =
                        [sock |-> p, token |-> t, client |-> Entries[t].client]]
      BY <3>2, <3>3, AnswerShows
    <3>5. Answers[l] = Table!NoAnswer
      BY <1>3, <2>1 DEF Bringing, Table!NoAnswer
    <3>6. Table!Has(t) /\ Entries[t].client # None
      BY <2>1, <2>4, Shown
    <3>7. Table!TakeAnswer(l, p)
      BY <1>1, <2>1, <3>1, <3>4, <3>5, <3>6 DEF Table!TakeAnswer
    <3>8. QED
      BY <2>1, <3>7
  <2>5. QED
    BY <2>2, <2>3, <2>4
<1>8. CASE SendResponse(l)
  <2>1. lsn[l].pc = "send" /\ lsn[l].token # None
    BY <1>2, <1>8, RelayAssumption DEF SendResponse, TaskSet
  <2>2. Answers[l] # Table!NoAnswer
    BY <1>3, <2>1 DEF Bringing, Table!NoAnswer
  <2>3. Answers' = [Answers EXCEPT ![l] = Table!NoAnswer]
    <3>1. Bringing(ListeningOn(lsn[l].sock)) = Table!NoAnswer
      BY <1>5 DEF Bringing, Table!NoAnswer
    <3>2. QED
      BY <1>8, <3>1, AnswerShows DEF SendResponse
  <2>4. Table!SendAnswer(l)
    BY <1>1, <2>2, <2>3 DEF Table!SendAnswer
  <2>5. QED
    BY <2>4
<1>9. QED
  BY <1>6, <1>7, <1>8 DEF ResponseListener

\* A packet on its way has a socket.
LEMMA SendShows ==
  ASSUME TypeOK, ForwardToGame
  PROVE  Table!Send
BY Shown DEF ForwardToGame, Answers, Entries, Table!Send

\* Every step of the relay is one of the table's, or shows nothing.
LEMMA TableStep ==
  ASSUME TypeOK, Orderly, SocketsExclusive, GrantInv, [Next]_vars
  PROVE  [Table!Next]_(Table!vars)
<1>1. CASE UNCHANGED vars
  BY <1>1 DEF vars, Table!vars, Entries, Answers
<1>2. ASSUME NEW w \in Workers, HttpRequest(w) PROVE UNCHANGED Table!vars
  BY <1>2, CallHidden DEF Procs
<1>3. ASSUME NEW w \in Workers, Register(w) PROVE [Table!Next]_(Table!vars)
  <2>1. CASE CheckCapacity(w) \/ BindFails(w) \/ InsertPort(w)
    BY <2>1, CallHidden DEF Procs
  <2>2. ASSUME NEW p \in Ports, Bind(w, p) PROVE Table!Next
    <3>1. Table!Open(p, proc[w].token, proc[w].ips)
      BY <2>2, BindOpens
    <3>2. proc[w].token \in Tokens /\ proc[w].ips \in SUBSET GameIps
      BY <2>2 DEF Bind, Procs, TypeOK, ProcType, ProcState, LocalsSet
    <3>3. QED
      BY <3>1, <3>2 DEF Table!Next
  <2>3. CASE InsertSession(w)
    BY <2>3, InsertEnters DEF Table!Next
  <2>4. CASE SpawnListener(w)
    BY <2>4, SpawnHidden
  <2>5. QED
    BY <1>3, <2>1, <2>2, <2>3, <2>4 DEF Register
<1>4. ASSUME NEW w \in Procs, Unregister(w) PROVE [Table!Next]_(Table!vars)
  <2>1. CASE RemoveSession(w)
    BY <2>1, RemoveLeaves DEF Table!Next
  <2>2. CASE RemovePort(w) \/ ReadLen(w) \/ SetGauge(w)
    BY <2>2, CallHidden
  <2>3. QED
    BY <1>4, <2>1, <2>2 DEF Unregister
<1>5. CASE Cleanup
  BY <1>5, CallHidden DEF Procs
<1>6. ASSUME NEW t \in Tokens, Age(t) PROVE UNCHANGED Table!vars
  BY <1>6, AgeHidden
<1>7. CASE ClientListener
  <2>1. ASSUME NEW t \in Tokens, NEW c \in Clients,
               \/ Keepalive(t, c)
               \/ \E ip \in GameIps : Control(t, c, ip)
               \/ Data(t, c)
        PROVE  Table!Next
    BY <2>1, PacketShows DEF Table!Next
  <2>2. CASE ForwardToGame
    BY <2>2, SendShows DEF Table!Next
  <2>3. QED
    BY <1>7, <2>1, <2>2 DEF ClientListener
<1>8. ASSUME NEW l \in Listeners, ResponseListener(l)
      PROVE  [Table!Next]_(Table!vars)
  BY <1>8, ListenerShows DEF Table!Next
<1>9. QED
  BY <1>1, <1>2, <1>3, <1>4, <1>5, <1>6, <1>7, <1>8 DEF Next

\* At start the table is empty.
LEMMA TableInit == Init => Table!Init
BY DEF Init, Table!Init, Table!NoSession, Table!NoPacket, Table!NoAnswer, Entries,
   Answers, Entry, Bringing, NoSession, NoPacket, Off

\* IsTable, for callers that do not overlap calls about one token: every session
\* the relay serves, every packet and every answer it passes on is that of one
\* table whose entries come and go at once.
THEOREM RelayIsTable ==
  ASSUME Serial
  PROVE  Spec => IsTable
<1>1. TypeOK /\ Orderly /\ SocketsExclusive /\ GrantInv /\ [Next]_vars
        => [Table!Next]_(Table!vars)
  BY TableStep
<1>2. QED
  BY <1>1, TableInit, TypeCorrect, AlwaysOrderly, SocketsNeverShared, AlwaysGranted, PTL
     DEF Spec, IsTable, Table!Spec
=============================================================================
