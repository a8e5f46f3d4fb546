----------------------------- MODULE ProxyProofs -----------------------------
(***************************************************************************)
(* Proofs about UdpProxy, for any number of game packets, any limit of the *)
(* filter and any loss, delay, reordering and repetition of datagrams: no  *)
(* answer is delivered twice, a stopped task handles one packet more at    *)
(* most, and the proxy is a tunnel (Tunnel.tla) as far as safety goes.     *)
(*                                                                         *)
(* The relay numbers every answer 0, so the filter passes one answer in    *)
(* all: that is what Once says.                                            *)
(***************************************************************************)
EXTENDS UdpProxy, FiniteSetTheorems, TLAPS

Labels == {"off", "wait", "primary", "backup", "dedup", "deliver", "ended"}

\* The types of what happened.
Happened ==
  [asked : SUBSET Asks, accepted : SUBSET Asks, dropped : SUBSET Asks,
   delivered : [Asks -> 0 .. 2], late : [Tasks -> 0 .. 2], ticks : 0 .. MaxTicks]

\* The parts of TypeOK.
TaskType == tasks \in [Tasks -> Task] /\ TaskSet
NetType ==
  /\ up \in [Paths -> SUBSET Datagram] /\ down \in [Paths -> SUBSET Datagram]
  /\ \A p \in Paths : \A m \in up[p] \cup down[p] :
       m.kind = "data" => m.ask \in Asks
RestType ==
  /\ running \in BOOLEAN /\ gameAddr \in BOOLEAN
  /\ seq \in Nat /\ seen \subseteq Nat
  /\ awaited \subseteq Nat /\ \A n \in awaited : n < seq
  /\ local \subseteq Asks /\ target \subseteq Paths
HistoryType == history \in Happened

\* TypeOK is the conjunction of its parts.
LEMMA Parts == TypeOK <=> TaskType /\ NetType /\ RestType /\ HistoryType
  BY DEF TypeOK, TaskType, NetType, RestType, HistoryType, Happened

\* The same of the next state.
LEMMA PartsNext ==
  TypeOK' <=> TaskType' /\ NetType' /\ RestType' /\ HistoryType'
  BY DEF TypeOK, TaskType, NetType, RestType, HistoryType, Happened

\* An answer has number 0, and belongs to a packet the game has sent.
Carried ==
  /\ \A p \in Paths : \A m \in down[p] :
       m.kind = "data" /\ m.seq = 0 /\ m.ask \in history.asked
  /\ \A p \in Paths : \A m \in up[p] : m.kind = "data" => m.ask \in history.asked
  /\ local \subseteq history.asked
  /\ At("game", "primary") \/ At("game", "backup") =>
       tasks["game"].ask \in history.asked
  /\ \A p \in Paths : At(p, "dedup") \/ At(p, "deliver") =>
       tasks[p].ask \in history.asked /\ tasks[p].seq = 0

\* The first answer is on its way to the game, or has reached it; no other is.
Once ==
  /\ seen \subseteq {0}
  /\ \A p \in Paths : At(p, "deliver") =>
       0 \in seen /\ \A a \in Asks : history.delivered[a] = 0
  /\ \A p, q \in Paths : At(p, "deliver") /\ At(q, "deliver") => p = q
  /\ \A a \in Asks : history.delivered[a] <= 1
  /\ seen = {} => \A a \in Asks : history.delivered[a] = 0

\* The tasks start together and end when the proxy was stopped.
Phases ==
  /\ \A t \in Tasks : At(t, "off") <=> At("game", "off")
  /\ At("game", "off") => ~running /\ awaited = {}
  /\ \A t \in Tasks : At(t, "ended") => ~running

\* A task that has handled a packet after the stop does not wait for another.
Leaving ==
  \A t \in Tasks :
    /\ history.late[t] <= 1
    /\ history.late[t] # 0 => ~running /\ ~At(t, "wait") /\ ~At(t, "off")
    /\ t = "keepalive" /\ At(t, "primary") => history.late[t] = 0
-----------------------------------------------------------------------------
\* Every step keeps what a task has in hand.
LEMMA TaskTypeStep == TypeOK /\ Carried /\ [Next]_vars => TaskType'
<1> SUFFICES ASSUME TypeOK /\ Carried, [Next]_vars PROVE TaskType' OBVIOUS
<1> USE ProxyAssumption, PathsAssumption
<1>0. TaskType /\ NetType /\ RestType /\ HistoryType
  BY Parts
<1>1. CASE Start
  BY <1>0, <1>1
     DEF Start, TaskType, TaskSet, Task, At, Goto, Again, Between, Send, Tasks,
         Carried, NetType, Datagram, RestType, proxyVars
<1>2. CASE Stop
  BY <1>0, <1>2
     DEF Stop, TaskType, TaskSet, Task, At, Goto, Again, Between, Send, Tasks,
         Carried, NetType, Datagram, RestType, proxyVars
<1>3. ASSUME NEW t \in Tasks, Elapse(t) PROVE TaskType'
  BY <1>0, <1>3
     DEF Elapse, TaskType, TaskSet, Task, At, Goto, Again, Between, Send,
         Tasks, Carried, NetType, Datagram, RestType, proxyVars
<1>4. ASSUME NEW a \in Asks, TakeAsk(a) PROVE TaskType'
  BY <1>0, <1>4
     DEF TakeAsk, TaskType, TaskSet, Task, At, Goto, Again, Between, Send,
         Tasks, Carried, NetType, Datagram, RestType, proxyVars
<1>5. ASSUME NEW p \in Paths, SendAsk(p) PROVE TaskType'
  BY <1>0, <1>5
     DEF SendAsk, TaskType, TaskSet, Task, At, Goto, Again, Between, Send,
         Tasks, Carried, NetType, Datagram, RestType, proxyVars
<1>6. ASSUME NEW p \in Paths, NEW m \in down[p], Receive(p, m) PROVE TaskType'
  BY SMTT(30), <1>0, <1>6
     DEF Receive, TaskType, TaskSet, Task, At, Goto, Again, Between, Send,
         Tasks, Carried, NetType, Datagram, RestType, proxyVars
<1>7. ASSUME NEW p \in Paths, Dedup(p) PROVE TaskType'
  <2>1. At(p, "dedup") /\ (Again(p) \/ Goto(p, "deliver"))
    BY <1>7 DEF Dedup
  <2>2. p \in Tasks /\ p # "game" /\ p # "keepalive" /\ tasks[p].ask \in Asks
    BY <1>0, <2>1 DEF TaskType, TaskSet, Tasks
  <2>3. CASE Again(p)
    BY <1>0, <2>2, <2>3 DEF TaskType, TaskSet, Task, Tasks, At, Again, Between
  <2>4. CASE Goto(p, "deliver")
    BY <1>0, <2>2, <2>4 DEF TaskType, TaskSet, Task, Tasks, At, Goto
  <2>. QED BY <2>1, <2>3, <2>4
<1>8. ASSUME NEW p \in Paths, Deliver(p) PROVE TaskType'
  BY <1>0, <1>8
     DEF Deliver, TaskType, TaskSet, Task, At, Goto, Again, Between, Send,
         Tasks, Carried, NetType, Datagram, RestType, proxyVars
<1>9. CASE Tick
  BY <1>0, <1>9
     DEF Tick, TaskType, TaskSet, Task, At, Goto, Again, Between, Send, Tasks,
         Carried, NetType, Datagram, RestType, proxyVars
<1>10. CASE SendPrimaryKeepalive
  BY <1>0, <1>10
     DEF SendPrimaryKeepalive, TaskType, TaskSet, Task, At, Goto, Again,
         Between, Send, Tasks, Carried, NetType, Datagram, RestType, proxyVars
<1>11. CASE SendBackupKeepalive
  BY <1>0, <1>11
     DEF SendBackupKeepalive, TaskType, TaskSet, Task, At, Goto, Again,
         Between, Send, Tasks, Carried, NetType, Datagram, RestType, proxyVars
<1>12. ASSUME NEW a \in Asks, GameSends(a) PROVE TaskType'
  BY <1>0, <1>12
     DEF GameSends, TaskType, TaskSet, Task, At, Goto, Again, Between, Send,
         Tasks, Carried, NetType, Datagram, RestType, proxyVars
<1>13. ASSUME NEW p \in Paths, NEW m \in up[p], RelayHears(p, m) PROVE TaskType'
  BY <1>0, <1>13
     DEF RelayHears, TaskType, TaskSet, Task, At, Goto, Again, Between, Send,
         Tasks, Carried, NetType, Datagram, RestType, proxyVars
<1>14. CASE UNCHANGED vars
  BY <1>0, <1>14 DEF vars, TaskType, TaskSet, At
<1>. QED
  BY <1>1, <1>2, <1>3, <1>4, <1>5, <1>6, <1>7, <1>8,
     <1>9, <1>10, <1>11, <1>12, <1>13, <1>14
     DEF Next, GameTask, PathTask, KeepaliveTask, Tasks

\* Every step keeps the datagrams' types.
LEMMA NetTypeStep == TypeOK /\ [Next]_vars => NetType'
<1> SUFFICES ASSUME TypeOK, [Next]_vars PROVE NetType' OBVIOUS
<1> USE ProxyAssumption, PathsAssumption
<1>0. TaskType /\ NetType /\ RestType /\ HistoryType
  BY Parts
<1>1. CASE Start
  BY <1>0, <1>1
     DEF Start, NetType, Send, TaskType, TaskSet, Datagram, Kinds, RestType,
         At, Task, proxyVars
<1>2. CASE Stop
  BY <1>0, <1>2
     DEF Stop, NetType, Send, TaskType, TaskSet, Datagram, Kinds, RestType, At,
         Task, proxyVars
<1>3. ASSUME NEW t \in Tasks, Elapse(t) PROVE NetType'
  BY <1>0, <1>3
     DEF Elapse, NetType, Send, TaskType, TaskSet, Datagram, Kinds, RestType,
         At, Task, proxyVars
<1>4. ASSUME NEW a \in Asks, TakeAsk(a) PROVE NetType'
  BY <1>0, <1>4
     DEF TakeAsk, NetType, Send, TaskType, TaskSet, Datagram, Kinds, RestType,
         At, Task, proxyVars
<1>5. ASSUME NEW p \in Paths, SendAsk(p) PROVE NetType'
  <2> DEFINE m == [kind |-> "data", seq |-> tasks["game"].seq, ask |-> tasks["game"].ask]
  <2>1. m \in Datagram /\ (m.kind = "data" => m.ask \in Asks) /\ p \in Paths
    <3>1. "game" \in Tasks /\ "keepalive" \in Tasks
      BY DEF Tasks
    <3>. QED BY <1>0, <1>5, <3>1
                DEF SendAsk, Datagram, Kinds, TaskType, TaskSet, Task, At
  <2>2. up' = [up EXCEPT ![p] = @ \cup {m}] /\ down' = down
    BY <1>5 DEF SendAsk, Send
  <2> HIDE DEF m
  <2>. QED BY <1>0, <2>1, <2>2 DEF NetType
<1>6. ASSUME NEW p \in Paths, NEW m \in down[p], Receive(p, m) PROVE NetType'
  BY <1>0, <1>6
     DEF Receive, NetType, Send, TaskType, TaskSet, Datagram, Kinds, RestType,
         At, Task, proxyVars
<1>7. ASSUME NEW p \in Paths, Dedup(p) PROVE NetType'
  BY <1>0, <1>7
     DEF Dedup, NetType, Send, TaskType, TaskSet, Datagram, Kinds, RestType,
         At, Task, proxyVars
<1>8. ASSUME NEW p \in Paths, Deliver(p) PROVE NetType'
  BY <1>0, <1>8
     DEF Deliver, NetType, Send, TaskType, TaskSet, Datagram, Kinds, RestType,
         At, Task, proxyVars
<1>9. CASE Tick
  BY <1>0, <1>9
     DEF Tick, NetType, Send, TaskType, TaskSet, Datagram, Kinds, RestType, At,
         Task, proxyVars
<1>10. CASE SendPrimaryKeepalive
  <2> DEFINE m == [kind |-> "keepalive", seq |-> tasks["keepalive"].seq, ask |-> None]
  <2>1. m \in Datagram /\ (m.kind = "data" => m.ask \in Asks) /\ Primary \in Paths
    <3>1. "game" \in Tasks /\ "keepalive" \in Tasks
      BY DEF Tasks
    <3>. QED BY <1>0, <1>10, <3>1
                DEF SendPrimaryKeepalive, Datagram, Kinds, TaskType, TaskSet,
                    Task, At
  <2>2. up' = [up EXCEPT ![Primary] = @ \cup {m}] /\ down' = down
    BY <1>10 DEF SendPrimaryKeepalive, Send
  <2> HIDE DEF m
  <2>. QED BY <1>0, <2>1, <2>2 DEF NetType
<1>11. CASE SendBackupKeepalive
  BY <1>0, <1>11
     DEF SendBackupKeepalive, NetType, Send, TaskType, TaskSet, Datagram,
         Kinds, RestType, At, Task, proxyVars
<1>12. ASSUME NEW a \in Asks, GameSends(a) PROVE NetType'
  BY <1>0, <1>12
     DEF GameSends, NetType, Send, TaskType, TaskSet, Datagram, Kinds,
         RestType, At, Task, proxyVars
<1>13. ASSUME NEW p \in Paths, NEW m \in up[p], RelayHears(p, m) PROVE NetType'
  BY <1>0, <1>13
     DEF RelayHears, NetType, Send, TaskType, TaskSet, Datagram, Kinds,
         RestType, At, Task, proxyVars
<1>14. CASE UNCHANGED vars
  BY <1>0, <1>14 DEF vars, NetType
<1>. QED
  BY <1>1, <1>2, <1>3, <1>4, <1>5, <1>6, <1>7, <1>8,
     <1>9, <1>10, <1>11, <1>12, <1>13, <1>14
     DEF Next, GameTask, PathTask, KeepaliveTask, Tasks

\* Every step keeps the other types.
LEMMA RestTypeStep == TypeOK /\ Carried /\ Phases /\ [Next]_vars => RestType'
<1> SUFFICES ASSUME TypeOK /\ Carried /\ Phases, [Next]_vars
             PROVE RestType'
  OBVIOUS
<1> USE ProxyAssumption, PathsAssumption
<1>0. TaskType /\ NetType /\ RestType /\ HistoryType
  BY Parts
<1>1. CASE Start
  <2>1. awaited = {} /\ Cardinality(Paths) \in Nat
    BY <1>1 DEF Start, Phases
  <2>. QED BY <1>0, <1>1, <2>1 DEF Start, RestType
<1>2. CASE Stop
  BY <1>0, <1>2
     DEF Stop, RestType, NetType, TaskType, Task, Carried, Datagram, proxyVars
<1>3. ASSUME NEW t \in Tasks, Elapse(t) PROVE RestType'
  BY <1>0, <1>3
     DEF Elapse, RestType, NetType, TaskType, Task, Carried, Datagram, proxyVars
<1>4. ASSUME NEW a \in Asks, TakeAsk(a) PROVE RestType'
  BY <1>0, <1>4
     DEF TakeAsk, RestType, NetType, TaskType, Task, Carried, Datagram,
         proxyVars
<1>5. ASSUME NEW p \in Paths, SendAsk(p) PROVE RestType'
  BY <1>0, <1>5
     DEF SendAsk, RestType, NetType, TaskType, Task, Carried, Datagram,
         proxyVars
<1>6. ASSUME NEW p \in Paths, NEW m \in down[p], Receive(p, m) PROVE RestType'
  BY <1>0, <1>6
     DEF Receive, RestType, NetType, TaskType, Task, Carried, Datagram,
         proxyVars
<1>7. ASSUME NEW p \in Paths, Dedup(p) PROVE RestType'
  <2>1. tasks[p].seq \in Nat
    BY <1>0 DEF TaskType, Task, Tasks
  <2>. QED BY <1>0, <1>7, <2>1 DEF Dedup, SeenAs, RestType
<1>8. ASSUME NEW p \in Paths, Deliver(p) PROVE RestType'
  BY <1>0, <1>8
     DEF Deliver, RestType, NetType, TaskType, Task, Carried, Datagram,
         proxyVars
<1>9. CASE Tick
  BY <1>0, <1>9
     DEF Tick, RestType, NetType, TaskType, Task, Carried, Datagram, proxyVars
<1>10. CASE SendPrimaryKeepalive
  BY <1>0, <1>10
     DEF SendPrimaryKeepalive, RestType, NetType, TaskType, Task, Carried,
         Datagram, proxyVars
<1>11. CASE SendBackupKeepalive
  <2>1. seq' \in Nat /\ seq' >= seq /\ awaited' \subseteq awaited
    BY <1>0, <1>11 DEF SendBackupKeepalive, RestType
  <2>2. \A n \in awaited' : n < seq'
    BY <1>0, <2>1 DEF RestType
  <2>. QED BY <1>0, <1>11, <2>1, <2>2 DEF SendBackupKeepalive, RestType
<1>12. ASSUME NEW a \in Asks, GameSends(a) PROVE RestType'
  BY <1>0, <1>12
     DEF GameSends, RestType, NetType, TaskType, Task, Carried, Datagram,
         proxyVars
<1>13. ASSUME NEW p \in Paths, NEW m \in up[p], RelayHears(p, m) PROVE RestType'
  BY <1>0, <1>13
     DEF RelayHears, RestType, NetType, TaskType, Task, Carried, Datagram,
         proxyVars
<1>14. CASE UNCHANGED vars
  BY <1>0, <1>14 DEF vars, RestType
<1>. QED
  BY <1>1, <1>2, <1>3, <1>4, <1>5, <1>6, <1>7, <1>8,
     <1>9, <1>10, <1>11, <1>12, <1>13, <1>14
     DEF Next, GameTask, PathTask, KeepaliveTask, Tasks

\* Every step keeps the history's types.
LEMMA HistoryTypeStep == TypeOK /\ [Next]_vars => HistoryType'
<1> SUFFICES ASSUME TypeOK, [Next]_vars PROVE HistoryType' OBVIOUS
<1> USE ProxyAssumption, PathsAssumption
<1>0. TaskType /\ NetType /\ RestType /\ HistoryType
  BY Parts
<1>1. CASE Start
  BY <1>0, <1>1
     DEF Start, HistoryType, Happened, Late, Incr, TaskType, TaskSet, Task, At,
         Tasks, proxyVars
<1>2. CASE Stop
  BY <1>0, <1>2
     DEF Stop, HistoryType, Happened, Late, Incr, TaskType, TaskSet, Task, At,
         Tasks, proxyVars
<1>3. ASSUME NEW t \in Tasks, Elapse(t) PROVE HistoryType'
  BY <1>0, <1>3
     DEF Elapse, HistoryType, Happened, Late, Incr, TaskType, TaskSet, Task,
         At, Tasks, proxyVars
<1>4. ASSUME NEW a \in Asks, TakeAsk(a) PROVE HistoryType'
  BY <1>0, <1>4
     DEF TakeAsk, HistoryType, Happened, Late, Incr, TaskType, TaskSet, Task,
         At, Tasks, proxyVars
<1>5. ASSUME NEW p \in Paths, SendAsk(p) PROVE HistoryType'
  BY <1>0, <1>5
     DEF SendAsk, HistoryType, Happened, Late, Incr, TaskType, TaskSet, Task,
         At, Tasks, proxyVars
<1>6. ASSUME NEW p \in Paths, NEW m \in down[p], Receive(p, m)
      PROVE  HistoryType'
  BY <1>0, <1>6
     DEF Receive, HistoryType, Happened, Late, Incr, TaskType, TaskSet, Task,
         At, Tasks, proxyVars
<1>7. ASSUME NEW p \in Paths, Dedup(p) PROVE HistoryType'
  BY <1>0, <1>7
     DEF Dedup, HistoryType, Happened, Late, Incr, TaskType, TaskSet, Task, At,
         Tasks, proxyVars
<1>8. ASSUME NEW p \in Paths, Deliver(p) PROVE HistoryType'
  BY <1>0, <1>8
     DEF Deliver, HistoryType, Happened, Late, Incr, TaskType, TaskSet, Task,
         At, Tasks, proxyVars
<1>9. CASE Tick
  BY <1>0, <1>9
     DEF Tick, HistoryType, Happened, Late, Incr, TaskType, TaskSet, Task, At,
         Tasks, proxyVars
<1>10. CASE SendPrimaryKeepalive
  BY <1>0, <1>10
     DEF SendPrimaryKeepalive, HistoryType, Happened, Late, Incr, TaskType,
         TaskSet, Task, At, Tasks, proxyVars
<1>11. CASE SendBackupKeepalive
  BY <1>0, <1>11
     DEF SendBackupKeepalive, HistoryType, Happened, Late, Incr, TaskType,
         TaskSet, Task, At, Tasks, proxyVars
<1>12. ASSUME NEW a \in Asks, GameSends(a) PROVE HistoryType'
  BY <1>0, <1>12
     DEF GameSends, HistoryType, Happened, Late, Incr, TaskType, TaskSet, Task,
         At, Tasks, proxyVars
<1>13. ASSUME NEW p \in Paths, NEW m \in up[p], RelayHears(p, m)
       PROVE  HistoryType'
  BY <1>0, <1>13
     DEF RelayHears, HistoryType, Happened, Late, Incr, TaskType, TaskSet,
         Task, At, Tasks, proxyVars
<1>14. CASE UNCHANGED vars
  BY <1>0, <1>14 DEF vars, HistoryType
<1>. QED
  BY <1>1, <1>2, <1>3, <1>4, <1>5, <1>6, <1>7, <1>8,
     <1>9, <1>10, <1>11, <1>12, <1>13, <1>14
     DEF Next, GameTask, PathTask, KeepaliveTask, Tasks

\* Every step keeps the answers numbered 0 and the game's.
LEMMA CarriedStep == TypeOK /\ Carried /\ [Next]_vars => Carried'
<1> SUFFICES ASSUME TypeOK /\ Carried, [Next]_vars PROVE Carried' OBVIOUS
<1> USE ProxyAssumption, PathsAssumption
<1>0. TaskType /\ NetType /\ RestType /\ HistoryType
  BY Parts
<1>1. CASE Start
  BY <1>0, <1>1
     DEF Start, Carried, At, Goto, Again, Between, Send, Tasks, Late, TaskType,
         Task, NetType, HistoryType, Happened, proxyVars
<1>2. CASE Stop
  BY <1>0, <1>2
     DEF Stop, Carried, At, Goto, Again, Between, Send, Tasks, Late, TaskType,
         Task, NetType, HistoryType, Happened, proxyVars
<1>3. ASSUME NEW t \in Tasks, Elapse(t) PROVE Carried'
  BY <1>0, <1>3
     DEF Elapse, Carried, At, Goto, Again, Between, Send, Tasks, Late,
         TaskType, Task, NetType, HistoryType, Happened, proxyVars
<1>4. ASSUME NEW a \in Asks, TakeAsk(a) PROVE Carried'
  BY <1>0, <1>4
     DEF TakeAsk, Carried, At, Goto, Again, Between, Send, Tasks, Late,
         TaskType, Task, NetType, HistoryType, Happened, proxyVars
<1>5. ASSUME NEW p \in Paths, SendAsk(p) PROVE Carried'
  BY <1>0, <1>5
     DEF SendAsk, Carried, At, Goto, Again, Between, Send, Tasks, Late,
         TaskType, Task, NetType, HistoryType, Happened, proxyVars
<1>6. ASSUME NEW p \in Paths, NEW m \in down[p], Receive(p, m) PROVE Carried'
  BY <1>0, <1>6
     DEF Receive, Carried, At, Goto, Again, Between, Send, Tasks, Late,
         TaskType, Task, NetType, HistoryType, Happened, proxyVars
<1>7. ASSUME NEW p \in Paths, Dedup(p) PROVE Carried'
  BY SMTT(30), <1>0, <1>7
     DEF Dedup, Carried, At, Goto, Again, Between, Send, Tasks, Late, TaskType,
         Task, NetType, HistoryType, Happened, proxyVars
<1>8. ASSUME NEW p \in Paths, Deliver(p) PROVE Carried'
  BY <1>0, <1>8
     DEF Deliver, Carried, At, Goto, Again, Between, Send, Tasks, Late,
         TaskType, Task, NetType, HistoryType, Happened, proxyVars
<1>9. CASE Tick
  BY <1>0, <1>9
     DEF Tick, Carried, At, Goto, Again, Between, Send, Tasks, Late, TaskType,
         Task, NetType, HistoryType, Happened, proxyVars
<1>10. CASE SendPrimaryKeepalive
  BY <1>0, <1>10
     DEF SendPrimaryKeepalive, Carried, At, Goto, Again, Between, Send, Tasks,
         Late, TaskType, Task, NetType, HistoryType, Happened, proxyVars
<1>11. CASE SendBackupKeepalive
  BY <1>0, <1>11
     DEF SendBackupKeepalive, Carried, At, Goto, Again, Between, Send, Tasks,
         Late, TaskType, Task, NetType, HistoryType, Happened, proxyVars
<1>12. ASSUME NEW a \in Asks, GameSends(a) PROVE Carried'
  BY <1>0, <1>12
     DEF GameSends, Carried, At, Goto, Again, Between, Send, Tasks, Late,
         TaskType, Task, NetType, HistoryType, Happened, proxyVars
<1>13. ASSUME NEW p \in Paths, NEW m \in up[p], RelayHears(p, m) PROVE Carried'
  BY <1>0, <1>13
     DEF RelayHears, Carried, At, Goto, Again, Between, Send, Tasks, Late,
         TaskType, Task, NetType, HistoryType, Happened, proxyVars
<1>14. CASE UNCHANGED vars
  BY <1>0, <1>14 DEF vars, Carried, At
<1>. QED
  BY <1>1, <1>2, <1>3, <1>4, <1>5, <1>6, <1>7, <1>8,
     <1>9, <1>10, <1>11, <1>12, <1>13, <1>14
     DEF Next, GameTask, PathTask, KeepaliveTask, Tasks

\* Every step keeps the answer single.
LEMMA OnceStep == TypeOK /\ Carried /\ Once /\ [Next]_vars => Once'
<1> SUFFICES ASSUME TypeOK /\ Carried /\ Once, [Next]_vars PROVE Once' OBVIOUS
<1> USE ProxyAssumption, PathsAssumption
<1>0. TaskType /\ NetType /\ RestType /\ HistoryType
  BY Parts
<1>1. CASE Start
  BY <1>0, <1>1
     DEF Start, Once, At, Goto, Again, Between, Send, Tasks, Late, Incr,
         TaskType, Task, HistoryType, Happened, proxyVars
<1>2. CASE Stop
  BY <1>0, <1>2
     DEF Stop, Once, At, Goto, Again, Between, Send, Tasks, Late, Incr,
         TaskType, Task, HistoryType, Happened, proxyVars
<1>3. ASSUME NEW t \in Tasks, Elapse(t) PROVE Once'
  BY <1>0, <1>3
     DEF Elapse, Once, At, Goto, Again, Between, Send, Tasks, Late, Incr,
         TaskType, Task, HistoryType, Happened, proxyVars
<1>4. ASSUME NEW a \in Asks, TakeAsk(a) PROVE Once'
  BY <1>0, <1>4
     DEF TakeAsk, Once, At, Goto, Again, Between, Send, Tasks, Late, Incr,
         TaskType, Task, HistoryType, Happened, proxyVars
<1>5. ASSUME NEW p \in Paths, SendAsk(p) PROVE Once'
  BY <1>0, <1>5
     DEF SendAsk, Once, At, Goto, Again, Between, Send, Tasks, Late, Incr,
         TaskType, Task, HistoryType, Happened, proxyVars
<1>6. ASSUME NEW p \in Paths, NEW m \in down[p], Receive(p, m) PROVE Once'
  BY <1>0, <1>6
     DEF Receive, Once, At, Goto, Again, Between, Send, Tasks, Late, Incr,
         TaskType, Task, HistoryType, Happened, proxyVars
<1>7. ASSUME NEW p \in Paths, Dedup(p) PROVE Once'
  <2>1. /\ At(p, "dedup") /\ p \in Tasks
        /\ history'.delivered = history.delivered
    BY <1>0, <1>7 DEF Dedup, HistoryType, Happened, Tasks
  <2>2. SeenAs(p) = 0
    BY <2>1 DEF Carried, SeenAs
  <2>3. CASE 0 \in seen
    <3>1. seen' = seen /\ Again(p)
      BY <1>7, <2>2, <2>3 DEF Dedup
    <3>. QED BY <1>0, <2>1, <2>3, <3>1
                DEF Once, Again, Between, At, TaskType, Task
  <2>4. CASE 0 \notin seen
    <3>1. seen = {} /\ Goto(p, "deliver")
      BY <1>7, <2>2, <2>4 DEF Dedup, Once
    <3>2. Cardinality({0}) = 1 /\ ~(1 > SeenLimit)
      <4>1. Cardinality({0}) = 1
        BY FS_Singleton, Zenon
      <4>2. ~(1 > SeenLimit)
        BY ProxyAssumption
      <4>. QED BY <4>1, <4>2
    <3>3. seen' = {0}
      BY <1>7, <2>2, <2>4, <3>1, <3>2 DEF Dedup
    <3>4. \A q \in Paths : ~At(q, "deliver")
      BY <2>4 DEF Once
    <3>5. \A q \in Paths : At(q, "deliver")' => q = p
      BY <1>0, <3>1, <3>4 DEF Goto, At, TaskType, Task, Tasks
    <3>6. \A a \in Asks : history'.delivered[a] = 0
      BY <2>1, <3>1 DEF Once
    <3>. QED BY <3>3, <3>5, <3>6 DEF Once
  <2>. QED BY <2>3, <2>4
<1>8. ASSUME NEW p \in Paths, Deliver(p) PROVE Once'
  BY <1>0, <1>8
     DEF Deliver, Once, At, Goto, Again, Between, Send, Tasks, Late, Incr,
         TaskType, Task, HistoryType, Happened, proxyVars
<1>9. CASE Tick
  BY <1>0, <1>9
     DEF Tick, Once, At, Goto, Again, Between, Send, Tasks, Late, Incr,
         TaskType, Task, HistoryType, Happened, proxyVars
<1>10. CASE SendPrimaryKeepalive
  BY <1>0, <1>10
     DEF SendPrimaryKeepalive, Once, At, Goto, Again, Between, Send, Tasks,
         Late, Incr, TaskType, Task, HistoryType, Happened, proxyVars
<1>11. CASE SendBackupKeepalive
  BY <1>0, <1>11
     DEF SendBackupKeepalive, Once, At, Goto, Again, Between, Send, Tasks,
         Late, Incr, TaskType, Task, HistoryType, Happened, proxyVars
<1>12. ASSUME NEW a \in Asks, GameSends(a) PROVE Once'
  BY <1>0, <1>12
     DEF GameSends, Once, At, Goto, Again, Between, Send, Tasks, Late, Incr,
         TaskType, Task, HistoryType, Happened, proxyVars
<1>13. ASSUME NEW p \in Paths, NEW m \in up[p], RelayHears(p, m) PROVE Once'
  BY <1>0, <1>13
     DEF RelayHears, Once, At, Goto, Again, Between, Send, Tasks, Late, Incr,
         TaskType, Task, HistoryType, Happened, proxyVars
<1>14. CASE UNCHANGED vars
  BY <1>0, <1>14 DEF vars, Once, At
<1>. QED
  BY <1>1, <1>2, <1>3, <1>4, <1>5, <1>6, <1>7, <1>8,
     <1>9, <1>10, <1>11, <1>12, <1>13, <1>14
     DEF Next, GameTask, PathTask, KeepaliveTask, Tasks

\* Every step keeps the tasks together.
LEMMA PhasesStep == TypeOK /\ Phases /\ [Next]_vars => Phases'
<1> SUFFICES ASSUME TypeOK /\ Phases, [Next]_vars PROVE Phases' OBVIOUS
<1> USE ProxyAssumption, PathsAssumption
<1>0. TaskType /\ NetType /\ RestType /\ HistoryType
  BY Parts
<1>1. CASE Start
  BY <1>0, <1>1
     DEF Start, Phases, At, Goto, Again, Between, Send, Tasks, TaskType, Task,
         proxyVars
<1>2. CASE Stop
  BY <1>0, <1>2
     DEF Stop, Phases, At, Goto, Again, Between, Send, Tasks, TaskType, Task,
         proxyVars
<1>3. ASSUME NEW t \in Tasks, Elapse(t) PROVE Phases'
  BY <1>0, <1>3
     DEF Elapse, Phases, At, Goto, Again, Between, Send, Tasks, TaskType, Task,
         proxyVars
<1>4. ASSUME NEW a \in Asks, TakeAsk(a) PROVE Phases'
  BY <1>0, <1>4
     DEF TakeAsk, Phases, At, Goto, Again, Between, Send, Tasks, TaskType,
         Task, proxyVars
<1>5. ASSUME NEW p \in Paths, SendAsk(p) PROVE Phases'
  BY <1>0, <1>5
     DEF SendAsk, Phases, At, Goto, Again, Between, Send, Tasks, TaskType,
         Task, proxyVars
<1>6. ASSUME NEW p \in Paths, NEW m \in down[p], Receive(p, m) PROVE Phases'
  BY <1>0, <1>6
     DEF Receive, Phases, At, Goto, Again, Between, Send, Tasks, TaskType,
         Task, proxyVars
<1>7. ASSUME NEW p \in Paths, Dedup(p) PROVE Phases'
  BY <1>0, <1>7
     DEF Dedup, Phases, At, Goto, Again, Between, Send, Tasks, TaskType, Task,
         proxyVars
<1>8. ASSUME NEW p \in Paths, Deliver(p) PROVE Phases'
  BY <1>0, <1>8
     DEF Deliver, Phases, At, Goto, Again, Between, Send, Tasks, TaskType,
         Task, proxyVars
<1>9. CASE Tick
  BY <1>0, <1>9
     DEF Tick, Phases, At, Goto, Again, Between, Send, Tasks, TaskType, Task,
         proxyVars
<1>10. CASE SendPrimaryKeepalive
  BY <1>0, <1>10
     DEF SendPrimaryKeepalive, Phases, At, Goto, Again, Between, Send, Tasks,
         TaskType, Task, proxyVars
<1>11. CASE SendBackupKeepalive
  BY <1>0, <1>11
     DEF SendBackupKeepalive, Phases, At, Goto, Again, Between, Send, Tasks,
         TaskType, Task, proxyVars
<1>12. ASSUME NEW a \in Asks, GameSends(a) PROVE Phases'
  BY <1>0, <1>12
     DEF GameSends, Phases, At, Goto, Again, Between, Send, Tasks, TaskType,
         Task, proxyVars
<1>13. ASSUME NEW p \in Paths, NEW m \in up[p], RelayHears(p, m) PROVE Phases'
  BY <1>0, <1>13
     DEF RelayHears, Phases, At, Goto, Again, Between, Send, Tasks, TaskType,
         Task, proxyVars
<1>14. CASE UNCHANGED vars
  BY <1>0, <1>14 DEF vars, Phases, At
<1>. QED
  BY <1>1, <1>2, <1>3, <1>4, <1>5, <1>6, <1>7, <1>8,
     <1>9, <1>10, <1>11, <1>12, <1>13, <1>14
     DEF Next, GameTask, PathTask, KeepaliveTask, Tasks

\* Every step keeps a stopped task from waiting.
LEMMA LeavingStep == TypeOK /\ Phases /\ Leaving /\ [Next]_vars => Leaving'
<1> SUFFICES ASSUME TypeOK /\ Phases /\ Leaving, [Next]_vars
             PROVE Leaving'
  OBVIOUS
<1> USE ProxyAssumption, PathsAssumption
<1>0. TaskType /\ NetType /\ RestType /\ HistoryType
  BY Parts
<1>1. CASE Start
  BY <1>0, <1>1
     DEF Start, Phases, Leaving, At, Goto, Again, Between, Send, Tasks, Late,
         Incr, TaskType, TaskSet, Task, HistoryType, Happened, proxyVars
<1>2. CASE Stop
  BY <1>0, <1>2
     DEF Stop, Phases, Leaving, At, Goto, Again, Between, Send, Tasks, Late,
         Incr, TaskType, TaskSet, Task, HistoryType, Happened, proxyVars
<1>3. ASSUME NEW t \in Tasks, Elapse(t) PROVE Leaving'
  BY <1>0, <1>3
     DEF Elapse, Phases, Leaving, At, Goto, Again, Between, Send, Tasks, Late,
         Incr, TaskType, TaskSet, Task, HistoryType, Happened, proxyVars
<1>4. ASSUME NEW a \in Asks, TakeAsk(a) PROVE Leaving'
  BY <1>0, <1>4
     DEF TakeAsk, Phases, Leaving, At, Goto, Again, Between, Send, Tasks, Late,
         Incr, TaskType, TaskSet, Task, HistoryType, Happened, proxyVars
<1>5. ASSUME NEW p \in Paths, SendAsk(p) PROVE Leaving'
  BY <1>0, <1>5
     DEF SendAsk, Phases, Leaving, At, Goto, Again, Between, Send, Tasks, Late,
         Incr, TaskType, TaskSet, Task, HistoryType, Happened, proxyVars
<1>6. ASSUME NEW p \in Paths, NEW m \in down[p], Receive(p, m) PROVE Leaving'
  BY <1>0, <1>6
     DEF Receive, Phases, Leaving, At, Goto, Again, Between, Send, Tasks, Late,
         Incr, TaskType, TaskSet, Task, HistoryType, Happened, proxyVars
<1>7. ASSUME NEW p \in Paths, Dedup(p) PROVE Leaving'
  BY <1>0, <1>7
     DEF Dedup, Phases, Leaving, At, Goto, Again, Between, Send, Tasks, Late,
         Incr, TaskType, TaskSet, Task, HistoryType, Happened, proxyVars
<1>8. ASSUME NEW p \in Paths, Deliver(p) PROVE Leaving'
  BY <1>0, <1>8
     DEF Deliver, Phases, Leaving, At, Goto, Again, Between, Send, Tasks, Late,
         Incr, TaskType, TaskSet, Task, HistoryType, Happened, proxyVars
<1>9. CASE Tick
  BY <1>0, <1>9
     DEF Tick, Phases, Leaving, At, Goto, Again, Between, Send, Tasks, Late,
         Incr, TaskType, TaskSet, Task, HistoryType, Happened, proxyVars
<1>10. CASE SendPrimaryKeepalive
  BY <1>0, <1>10
     DEF SendPrimaryKeepalive, Phases, Leaving, At, Goto, Again, Between, Send,
         Tasks, Late, Incr, TaskType, TaskSet, Task, HistoryType, Happened,
         proxyVars
<1>11. CASE SendBackupKeepalive
  BY <1>0, <1>11
     DEF SendBackupKeepalive, Phases, Leaving, At, Goto, Again, Between, Send,
         Tasks, Late, Incr, TaskType, TaskSet, Task, HistoryType, Happened,
         proxyVars
<1>12. ASSUME NEW a \in Asks, GameSends(a) PROVE Leaving'
  BY <1>0, <1>12
     DEF GameSends, Phases, Leaving, At, Goto, Again, Between, Send, Tasks,
         Late, Incr, TaskType, TaskSet, Task, HistoryType, Happened, proxyVars
<1>13. ASSUME NEW p \in Paths, NEW m \in up[p], RelayHears(p, m) PROVE Leaving'
  BY <1>0, <1>13
     DEF RelayHears, Phases, Leaving, At, Goto, Again, Between, Send, Tasks,
         Late, Incr, TaskType, TaskSet, Task, HistoryType, Happened, proxyVars
<1>14. CASE UNCHANGED vars
  BY <1>0, <1>14 DEF vars, Leaving, At
<1>. QED
  BY <1>1, <1>2, <1>3, <1>4, <1>5, <1>6, <1>7, <1>8,
     <1>9, <1>10, <1>11, <1>12, <1>13, <1>14
     DEF Next, GameTask, PathTask, KeepaliveTask, Tasks

-----------------------------------------------------------------------------
\* What holds in every state.
Sound == TypeOK /\ Carried /\ Once /\ Phases /\ Leaving

\* At the start there is nothing.
LEMMA AtStart == Init => Sound
<1> SUFFICES ASSUME Init PROVE Sound OBVIOUS
<1> USE ProxyAssumption, PathsAssumption DEF Init
<1>1. TaskType /\ NetType /\ RestType
  BY DEF TaskType, TaskSet, Task, Between, At, Tasks, NetType, RestType
<1>2. HistoryType
  BY DEF NoHistory, HistoryType, Happened
<1>3. Carried /\ Phases
  BY DEF Carried, Phases, Between, At, Tasks
<1>4. Once /\ Leaving
  BY DEF Once, Leaving, NoHistory, Between, At, Tasks
<1>. QED BY <1>1, <1>2, <1>3, <1>4, Parts DEF Sound

\* Every step keeps it.
LEMMA SoundStep == Sound /\ [Next]_vars => Sound'
<1> SUFFICES ASSUME Sound, [Next]_vars PROVE Sound' OBVIOUS
<1>1. TypeOK'
  BY TaskTypeStep, NetTypeStep, RestTypeStep, HistoryTypeStep, PartsNext
     DEF Sound
<1>. QED BY <1>1, CarriedStep, OnceStep, PhasesStep, LeavingStep DEF Sound

\* So it holds in every state.
LEMMA AlwaysSound == Spec => []Sound
  BY AtStart, SoundStep, PTL DEF Spec

\* Type correctness of the proxy, its sockets and the relays' knowledge.
THEOREM ProxyTyped == Spec => []TypeOK
<1>1. Sound => TypeOK
  BY DEF Sound
<1>. QED BY <1>1, AlwaysSound, PTL

\* The game never gets an answer twice, however many paths bring it and however
\* often the network repeats it (udp_proxy.rs:227, :316).
THEOREM DeliveredOnce == Spec => []NoAnswerTwice
<1>1. Sound => NoAnswerTwice
  BY DEF Sound, Once, NoAnswerTwice
<1>. QED BY <1>1, AlwaysSound, PTL

\* After stop() a task handles one packet more at most (udp_proxy.rs:149, :375).
THEOREM OneMore == Spec => []OneMoreAtMost
<1>1. Sound => OneMoreAtMost
  BY DEF Sound, Leaving, OneMoreAtMost
<1>. QED BY <1>1, AlwaysSound, PTL
-----------------------------------------------------------------------------
(* The proxy as a tunnel.                                                  *)

Left == {p \in Paths : ~At(p, "ended")}

\* A step by which the tunnel goes from one state to the next, or stutters.
Mapped == [P!Next]_(P!vars)

\* The tunnel's view of a state is these four things.
LEMMA Stutter ==
  ASSUME ProxyPhase' = ProxyPhase, history'.asked = history.asked,
         history'.delivered = history.delivered, Left' = Left
  PROVE  Mapped
  BY DEF Mapped, P!vars, Left

\* A task of a running proxy goes on: one path may leave.
LEMMA OneMoves ==
  ASSUME Sound, Sound', NEW t \in Tasks, ~At(t, "off"), ~At(t, "ended"),
         \A s \in Tasks \ {t} : tasks'[s] = tasks[s],
         running' = running, history'.asked = history.asked,
         history'.delivered = history.delivered
  PROVE  Mapped
<1>1. ~At("game", "off") /\ Phases /\ Phases'
  BY DEF Sound, Phases
<1>2. ~At("game", "off")'
  <2>1. PICK s \in Tasks : TRUE
    OBVIOUS
  <2>2. CASE t = "game"
    <3>1. Primary \in Tasks /\ Primary # "game" /\ ~At(Primary, "off")
      BY <1>1, PathsAssumption DEF Phases, Tasks
    <3>2. ~At(Primary, "off")'
      BY <2>2, <3>1 DEF At
    <3>. QED BY <1>1, <3>1, <3>2 DEF Phases
  <2>3. CASE t # "game"
    BY <1>1, <2>3 DEF At, Tasks
  <2>. QED BY <2>2, <2>3
<1>3. ProxyPhase' = ProxyPhase
  BY <1>1, <1>2 DEF ProxyPhase
<1>4. CASE t \in Paths /\ At(t, "ended")'
  <2>1. Left' = Left \ {t} /\ t \in Left
    BY <1>4 DEF Left, At, Tasks
  <2>2. ProxyPhase # "new"
    BY <1>1 DEF ProxyPhase
  <2>. QED BY <1>3, <1>4, <2>1, <2>2 DEF Mapped, P!Next, P!Leave, Left
<1>5. CASE ~(t \in Paths /\ At(t, "ended")')
  <2>1. Left' = Left
    BY <1>5 DEF Left, At, Tasks
  <2>. QED BY <1>3, <2>1, Stutter
<1>. QED BY <1>4, <1>5

\* Every step of the proxy is a step of the tunnel, or none.
LEMMA MappedStep == Sound /\ Sound' /\ [Next]_vars => Mapped
<1> SUFFICES ASSUME Sound /\ Sound', [Next]_vars PROVE Mapped OBVIOUS
<1>0. TaskType /\ HistoryType
  BY Parts DEF Sound
<1>1. CASE Start
  <2>1. /\ At("game", "off") /\ ~At("game", "off")' /\ running'
        /\ history' = history /\ \A p \in Paths : ~At(p, "ended")'
    BY <1>0, <1>1 DEF Start, At, Between, Tasks
  <2>2. ProxyPhase = "new" /\ ProxyPhase' = "open"
    BY <2>1 DEF ProxyPhase
  <2>3. Left' = Left
    <3>1. \A p \in Paths : At(p, "off")
      BY <2>1 DEF Sound, Phases, Tasks
    <3>. QED BY <2>1, <3>1 DEF Left, At
  <2>. QED BY <2>1, <2>2, <2>3 DEF Mapped, P!Next, P!Open, Left
<1>2. CASE Stop
  <2>1. running /\ ~running' /\ tasks' = tasks /\ history' = history
    BY <1>2 DEF Stop
  <2>2. ProxyPhase = "open" /\ ProxyPhase' = "closed" /\ Left' = Left
    BY <2>1 DEF ProxyPhase, Sound, Phases, At, Left
  <2>. QED BY <2>1, <2>2 DEF Mapped, P!Next, P!Close, Left
<1>3. ASSUME NEW t \in Tasks, Elapse(t) PROVE Mapped
  <2>1. /\ t \in Tasks /\ ~At(t, "off") /\ ~At(t, "ended")
        /\ \A s \in Tasks \ {t} : tasks'[s] = tasks[s]
        /\ running' = running /\ history'.asked = history.asked
        /\ history'.delivered = history.delivered
    BY <1>0, <1>3
       DEF Elapse, TaskType, At, Goto, Again, Late, Tasks, HistoryType, Happened
  <2>. QED BY <2>1, OneMoves
<1>4. ASSUME NEW a \in Asks, TakeAsk(a) PROVE Mapped
  <2>1. /\ "game" \in Tasks /\ ~At("game", "off") /\ ~At("game", "ended")
        /\ \A s \in Tasks \ {"game"} : tasks'[s] = tasks[s]
        /\ running' = running /\ history'.asked = history.asked
        /\ history'.delivered = history.delivered
    BY <1>0, <1>4
       DEF TakeAsk, TaskType, At, Goto, Again, Late, Tasks, HistoryType,
           Happened
  <2>. QED BY <2>1, OneMoves
<1>5. ASSUME NEW p \in Paths, SendAsk(p) PROVE Mapped
  <2>1. /\ "game" \in Tasks /\ ~At("game", "off") /\ ~At("game", "ended")
        /\ \A s \in Tasks \ {"game"} : tasks'[s] = tasks[s]
        /\ running' = running /\ history'.asked = history.asked
        /\ history'.delivered = history.delivered
    BY <1>0, <1>5
       DEF SendAsk, TaskType, At, Goto, Again, Late, Tasks, HistoryType,
           Happened
  <2>. QED BY <2>1, OneMoves
<1>6. ASSUME NEW p \in Paths, NEW m \in down[p], Receive(p, m) PROVE Mapped
  <2>1. /\ p \in Tasks /\ ~At(p, "off") /\ ~At(p, "ended")
        /\ \A s \in Tasks \ {p} : tasks'[s] = tasks[s]
        /\ running' = running /\ history'.asked = history.asked
        /\ history'.delivered = history.delivered
    BY <1>0, <1>6
       DEF Receive, TaskType, At, Goto, Again, Late, Tasks, HistoryType,
           Happened
  <2>. QED BY <2>1, OneMoves
<1>7. ASSUME NEW p \in Paths, Dedup(p) PROVE Mapped
  <2>1. /\ p \in Tasks /\ ~At(p, "off") /\ ~At(p, "ended")
        /\ \A s \in Tasks \ {p} : tasks'[s] = tasks[s]
        /\ running' = running /\ history'.asked = history.asked
        /\ history'.delivered = history.delivered
    BY <1>0, <1>7
       DEF Dedup, TaskType, At, Goto, Again, Late, Tasks, HistoryType, Happened
  <2>. QED BY <2>1, OneMoves
<1>8. ASSUME NEW p \in Paths, Deliver(p) PROVE Mapped
  <2> DEFINE a == tasks[p].ask
  <2>1. /\ p \in Tasks /\ At(p, "deliver") /\ a \in Asks
        /\ running' = running /\ Again(p)
        /\ \A s \in Tasks \ {p} : tasks'[s] = tasks[s]
    BY <1>0, <1>8 DEF Deliver, Again, TaskType, TaskSet, Tasks
  <2>2. CASE ~gameAddr
    <3>1. history' = history /\ ~At(p, "off") /\ ~At(p, "ended")
      BY <1>8, <2>1, <2>2 DEF Deliver, At
    <3>. QED BY <2>1, <3>1, OneMoves
  <2>3. CASE gameAddr
    <3>1. history.delivered[a] = 0 /\ a \in history.asked
      BY <2>1 DEF Sound, Once, Carried
    <3>2. /\ history'.asked = history.asked
          /\ history'.delivered = [history.delivered EXCEPT ![a] = @ + 1]
      BY <1>0, <1>8, <2>1, <2>3, <3>1 DEF Deliver, Incr, HistoryType, Happened
    <3>3. /\ ~At("game", "off")
          /\ tasks'[p].pc = IF running THEN "wait" ELSE "ended"
      BY <1>0, <2>1 DEF Sound, Phases, At, Again, Between, TaskType, Task
    <3>4. ~At("game", "off")'
      BY <2>1, <3>3, PathsAssumption DEF At, Tasks
    <3>5. ProxyPhase # "new" /\ ProxyPhase' = ProxyPhase
          /\ (ProxyPhase = "open" <=> running)
      BY <2>1, <3>3, <3>4 DEF ProxyPhase
    <3>6. p \in Left /\ Left' = IF running THEN Left ELSE Left \ {p}
      <4>1. \A s \in Paths \ {p} : At(s, "ended")' = At(s, "ended")
        BY <2>1 DEF At, Tasks
      <4>2. ~At(p, "ended") /\ (At(p, "ended")' <=> ~running)
        BY <2>1, <3>3 DEF At
      <4>. QED BY <4>1, <4>2 DEF Left
    <3> HIDE DEF a
    <3>. QED BY <2>1, <3>1, <3>2, <3>5, <3>6 DEF Mapped, P!Next, P!Answer, Left
  <2>. QED BY <2>2, <2>3
<1>9. CASE Tick
  <2>1. /\ "keepalive" \in Tasks /\ ~At("keepalive", "off") /\ ~At("keepalive", "ended")
        /\ \A s \in Tasks \ {"keepalive"} : tasks'[s] = tasks[s]
        /\ running' = running /\ history'.asked = history.asked
        /\ history'.delivered = history.delivered
    BY <1>0, <1>9
       DEF Tick, TaskType, At, Goto, Again, Late, Tasks, HistoryType, Happened
  <2>. QED BY <2>1, OneMoves
<1>10. CASE SendPrimaryKeepalive
  <2>1. /\ "keepalive" \in Tasks /\ ~At("keepalive", "off") /\ ~At("keepalive", "ended")
        /\ \A s \in Tasks \ {"keepalive"} : tasks'[s] = tasks[s]
        /\ running' = running /\ history'.asked = history.asked
        /\ history'.delivered = history.delivered
    BY <1>0, <1>10
       DEF SendPrimaryKeepalive, TaskType, At, Goto, Again, Late, Tasks,
           HistoryType, Happened
  <2>. QED BY <2>1, OneMoves
<1>11. CASE SendBackupKeepalive
  <2>1. /\ "keepalive" \in Tasks /\ ~At("keepalive", "off") /\ ~At("keepalive", "ended")
        /\ \A s \in Tasks \ {"keepalive"} : tasks'[s] = tasks[s]
        /\ running' = running /\ history'.asked = history.asked
        /\ history'.delivered = history.delivered
    BY <1>0, <1>11
       DEF SendBackupKeepalive, TaskType, At, Goto, Again, Late, Tasks,
           HistoryType, Happened
  <2>. QED BY <2>1, OneMoves
<1>12. ASSUME NEW a \in Asks, GameSends(a) PROVE Mapped
  <2>1. /\ a \notin history.asked /\ ~At("game", "off")
        /\ history'.asked = history.asked \cup {a}
        /\ history'.delivered = history.delivered
        /\ tasks' = tasks /\ running' = running
    BY <1>0, <1>12 DEF GameSends, HistoryType, Happened, proxyVars
  <2>2. ProxyPhase # "new" /\ ProxyPhase' = ProxyPhase /\ Left' = Left
    BY <2>1 DEF ProxyPhase, At, Left
  <2>. QED BY <2>1, <2>2 DEF Mapped, P!Next, P!Ask, Left
<1>13. ASSUME NEW p \in Paths, NEW m \in up[p], RelayHears(p, m) PROVE Mapped
  <2>1. tasks' = tasks /\ running' = running /\ history' = history
    BY <1>13 DEF RelayHears, proxyVars
  <2>2. ProxyPhase' = ProxyPhase /\ Left' = Left
    BY <2>1 DEF ProxyPhase, At, Left
  <2>. QED BY <2>1, <2>2, Stutter
<1>14. CASE UNCHANGED vars
  BY <1>14, Stutter DEF vars, ProxyPhase, Left, At
<1>. QED
  BY <1>1, <1>2, <1>3, <1>4, <1>5, <1>6, <1>7, <1>8,
     <1>9, <1>10, <1>11, <1>12, <1>13, <1>14
     DEF Next, GameTask, PathTask, KeepaliveTask, Tasks

\* As far as safety goes, the proxy is a tunnel that brings every answer once.
\* (ProxyTunnel of the runs adds that a closed tunnel's paths leave.)
THEOREM ProxyIsTunnel == Spec => P!Spec
<1>1. Init => P!Init
  BY DEF Init, P!Init, ProxyPhase, Between, At, Tasks, NoHistory
<1>2. Sound /\ Sound' /\ [Next]_vars => [P!Next]_(P!vars)
  BY MappedStep DEF Mapped
<1>. QED BY <1>1, <1>2, AlwaysSound, PTL DEF Spec, P!Spec
=============================================================================
