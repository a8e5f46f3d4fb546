------------------------------ MODULE UdpProxy ------------------------------
(***************************************************************************)
(* The client's localhost proxy (client/src-tauri/src/udp_proxy.rs) and    *)
(* the relays it talks to, as the proxy sees them (relay/src/forwarder.rs).*)
(*                                                                         *)
(* Four kinds of tasks share the proxy's state: one carries the game's     *)
(* packets to every path, one per path carries the answers back, and one   *)
(* sends keepalives.  Each loops: it tests `running`, waits for a packet   *)
(* or 100 ms, and handles the packet.  Every lock and every send is a step *)
(* of its own; the test belongs to the step before it, as no await lies    *)
(* between them.                                                           *)
(*                                                                         *)
(* Datagrams are lost, delayed, reordered and duplicated: a datagram stays *)
(* on its way and is taken any number of times, or never.  A payload is    *)
(* the game packet it carries or answers; only the relay's sequence number *)
(* decides what the proxy does with it.                                    *)
(*                                                                         *)
(* Tunnel.tla is the abstract specification.                               *)
(***************************************************************************)
EXTENDS Paths

CONSTANTS
  Asks,       \* game packets
  SeenLimit,  \* size at which the set of seen sequence numbers is cleared
  MaxTicks    \* bound: keepalives sent

ASSUME ProxyAssumption ==
  /\ None \notin Asks
  /\ SeenLimit \in Nat \ {0} /\ MaxTicks \in Nat

VARIABLES
  running,   \* the flag stop() clears
  tasks,     \* the local state of each task
  seq,       \* seq_counter
  gameAddr,  \* TRUE when the game's address is known
  seen,      \* seen_seqs, shared by the paths
  awaited,   \* keepalive_sent: keepalives without an answer
  local,     \* packets of the game on the local socket
  up, down,  \* datagrams between the proxy and the relay of each path
  target,    \* paths whose relay knows the game server
  history    \* what happened so far: see NoHistory

proxyVars == <<running, tasks, seq, gameAddr, seen, awaited>>
vars == <<running, tasks, seq, gameAddr, seen, awaited, local, up, down,
          target, history>>

Tasks == Paths \cup {"game", "keepalive"}
Task == [pc : {"off", "wait", "primary", "backup", "dedup", "deliver", "ended"},
         seq : Nat, ask : Asks \cup {None}]
Between(label) == [pc |-> label, seq |-> 0, ask |-> None]

Datagram == [kind : Kinds, seq : Nat, ask : Asks \cup {None}]

NoHistory ==
  [asked |-> {},                        \* sent by the game
   accepted |-> {},                     \* answers that passed the filter
   dropped |-> {},                      \* answers that did not
   delivered |-> [a \in Asks |-> 0],    \* answers handed to the game (to 2)
   late |-> [t \in Tasks |-> 0],        \* packets handled after stop (to 2)
   ticks |-> 0]                         \* keepalives sent

Late(h, t) == IF running THEN h ELSE [h EXCEPT !.late[t] = Incr(@)]

At(t, label) == tasks[t].pc = label
Goto(t, label) == tasks' = [tasks EXCEPT ![t].pc = label]

\* Back to the top of the loop.
Again(t) ==
  tasks' = [tasks EXCEPT ![t] = Between(IF running THEN "wait" ELSE "ended")]

Send(p, kind, n, a) ==
  up' = [up EXCEPT ![p] = @ \cup {[kind |-> kind, seq |-> n, ask |-> a]}]
-----------------------------------------------------------------------------
(* start and stop.                                                         *)

\* Both sockets are bound and the control packets sent; a failure returns
\* before any task is spawned.
Start ==
  /\ At("game", "off")
  /\ running' = TRUE
  /\ seq' = Cardinality(Paths)
  /\ up' = [p \in Paths |->
              {[kind |-> "control", seq |-> IF p = Primary THEN 0 ELSE 1,
                ask |-> None]}]
  /\ tasks' = [t \in Tasks |-> Between("wait")]
  /\ UNCHANGED <<gameAddr, seen, awaited, local, down, target, history>>

Stop ==
  /\ running
  /\ running' = FALSE
  /\ UNCHANGED <<tasks, seq, gameAddr, seen, awaited, local, up, down,
                 target, history>>
-----------------------------------------------------------------------------
(* Every task.                                                             *)

\* A fault: the task of the game's packets waits without a timeout.
ElapseOnPaths(t) ==
  /\ t \in Paths /\ At(t, "wait")
  /\ ~running
  /\ Again(t)
  /\ UNCHANGED <<running, seq, gameAddr, seen, awaited, local, up, down,
                 target, history>>

\* 100 ms, or the thirty seconds to the next tick, pass: a stopped task ends.
Elapse(t) ==
  /\ At(t, "wait")
  /\ ~running
  /\ Again(t)
  /\ UNCHANGED <<running, seq, gameAddr, seen, awaited, local, up, down,
                 target, history>>
-----------------------------------------------------------------------------
(* Task 1: from the game to every path.                                    *)

TakeAsk(a) ==
  /\ At("game", "wait") /\ a \in local
  /\ local' = local \ {a}
  /\ gameAddr' = TRUE
  /\ seq' = seq + 1
  /\ tasks' = [tasks EXCEPT !["game"] =
                 [pc |-> "primary", seq |-> seq, ask |-> a]]
  /\ history' = Late(history, "game")
  /\ UNCHANGED <<running, seen, awaited, up, down, target>>

\* One copy per path, the primary's first, with the same number.
SendAsk(p) ==
  /\ At("game", IF p = Primary THEN "primary" ELSE "backup")
  /\ Send(p, "data", tasks["game"].seq, tasks["game"].ask)
  /\ IF p = Primary /\ Paths # {Primary} THEN Goto("game", "backup")
                                         ELSE Again("game")
  /\ UNCHANGED <<running, seq, gameAddr, seen, awaited, local, down,
                 target, history>>
-----------------------------------------------------------------------------
(* Tasks 2 and 2b: from a path to the game.                                *)

\* The answer to a keepalive is handled at once: on the primary path its sequence
\* number gives the round-trip time.
Receive(p, m) ==
  /\ At(p, "wait") /\ m \in down[p]
  /\ history' = Late(history, p)
  /\ IF m.kind = "keepalive"
     THEN /\ awaited' = IF p = Primary THEN awaited \ {m.seq} ELSE awaited
          /\ Again(p)
     ELSE /\ tasks' = [tasks EXCEPT ![p] =
                         [pc |-> "dedup", seq |-> m.seq, ask |-> m.ask]]
          /\ UNCHANGED awaited
  /\ UNCHANGED <<running, seq, gameAddr, seen, local, up, down, target>>

\* A fault: each path remembers its own sequence numbers (even and odd keys).
SeenPerPath(p) == IF p = Primary THEN 2 * tasks[p].seq ELSE 2 * tasks[p].seq + 1

\* What a path's answer is remembered by: the set is shared by the paths.
SeenAs(p) == tasks[p].seq

\* The lock on seen_seqs is held for the whole step.
Dedup(p) ==
  LET key == SeenAs(p)
      more == seen \cup {key} IN
  /\ At(p, "dedup")
  /\ IF key \in seen
     THEN /\ Again(p)
          /\ history' = [history EXCEPT !.dropped = @ \cup {tasks[p].ask}]
          /\ UNCHANGED seen
     ELSE /\ Goto(p, "deliver")
          /\ history' = [history EXCEPT !.accepted = @ \cup {tasks[p].ask}]
          /\ seen' = IF Cardinality(more) > SeenLimit THEN {} ELSE more
  /\ UNCHANGED <<running, seq, gameAddr, awaited, local, up, down, target>>

Deliver(p) ==
  /\ At(p, "deliver")
  /\ history' = IF gameAddr
                THEN [history EXCEPT !.delivered[tasks[p].ask] = Incr(@)]
                ELSE history
  /\ Again(p)
  /\ UNCHANGED <<running, seq, gameAddr, seen, awaited, local, up, down,
                 target>>
-----------------------------------------------------------------------------
(* Task 3: keepalives.  An entry without an answer is forgotten after      *)
(* sixty seconds, two ticks.                                               *)

\* A fault: the counter is read and not advanced.
TickReadingSeq ==
  /\ At("keepalive", "wait") /\ running
  /\ history.ticks < MaxTicks
  /\ awaited' = awaited \cup {seq}
  /\ tasks' = [tasks EXCEPT !["keepalive"] =
                 [pc |-> "primary", seq |-> seq, ask |-> None]]
  /\ history' = [history EXCEPT !.ticks = @ + 1]
  /\ UNCHANGED <<running, seq, gameAddr, seen, local, up, down, target>>

Tick ==
  /\ At("keepalive", "wait") /\ running
  /\ history.ticks < MaxTicks
  /\ awaited' = awaited \cup {seq}
  /\ seq' = seq + 1
  /\ tasks' = [tasks EXCEPT !["keepalive"] =
                 [pc |-> "primary", seq |-> seq, ask |-> None]]
  /\ history' = [history EXCEPT !.ticks = @ + 1]
  /\ UNCHANGED <<running, gameAddr, seen, local, up, down, target>>

SendPrimaryKeepalive ==
  /\ At("keepalive", "primary")
  /\ Send(Primary, "keepalive", tasks["keepalive"].seq, None)
  /\ Goto("keepalive", "backup")
  /\ history' = Late(history, "keepalive")
  /\ UNCHANGED <<running, seq, gameAddr, seen, awaited, local, down, target>>

\* The backup's keepalive has a number of its own, which nobody awaits.
SendBackupKeepalive ==
  LET newer(n) == {k \in awaited : k > n} IN
  /\ At("keepalive", "backup")
  /\ IF Paths = {Primary}
     THEN UNCHANGED <<up, seq>>
     ELSE /\ \E p \in Paths \ {Primary} : Send(p, "keepalive", seq, None)
          /\ seq' = seq + 1
  /\ awaited' = {n \in awaited : Cardinality(newer(n)) < 2}
  /\ Again("keepalive")
  /\ UNCHANGED <<running, gameAddr, seen, local, down, target, history>>
-----------------------------------------------------------------------------
(* The game, the network and the relays.                                   *)

GameSends(a) ==
  /\ a \notin history.asked /\ ~At("game", "off")
  /\ local' = local \cup {a}
  /\ history' = [history EXCEPT !.asked = @ \cup {a}]
  /\ UNCHANGED <<proxyVars, up, down, target>>

\* client_listener: a control packet names the game server, if it is granted;
\* a data packet goes to the server, if it is known; a keepalive is noted.  The
\* answer carries sequence number 0.
RelayHears(p, m) ==
  /\ m \in up[p]
  /\ target' \in IF m.kind = "control" THEN {target, target \cup {p}} ELSE {target}
  /\ down' \in IF m.kind = "data" /\ p \in target
               THEN {down, [down EXCEPT ![p] =
                              @ \cup {[kind |-> "data", seq |-> 0, ask |-> m.ask]}]}
               ELSE {down}
  /\ UNCHANGED <<proxyVars, local, up, history>>
-----------------------------------------------------------------------------
Init ==
  /\ running = FALSE
  /\ tasks = [t \in Tasks |-> Between("off")]
  /\ seq = 0 /\ gameAddr = FALSE /\ seen = {} /\ awaited = {}
  /\ local = {}
  /\ up = [p \in Paths |-> {}] /\ down = [p \in Paths |-> {}]
  /\ target \in SUBSET Paths  \* the session's default target, if it has one
  /\ history = NoHistory

GameTask ==
  \/ Elapse("game")
  \/ \E a \in Asks : TakeAsk(a)
  \/ \E p \in Paths : SendAsk(p)

PathTask(p) ==
  \/ Elapse(p)
  \/ \E m \in down[p] : Receive(p, m)
  \/ Dedup(p) \/ Deliver(p)

KeepaliveTask ==
  \/ Elapse("keepalive") \/ Tick
  \/ SendPrimaryKeepalive \/ SendBackupKeepalive

Next ==
  \/ Start \/ Stop
  \/ GameTask \/ KeepaliveTask
  \/ \E p \in Paths : PathTask(p)
  \/ \E a \in Asks : GameSends(a)
  \/ \E p \in Paths : \E m \in up[p] : RelayHears(p, m)

Spec == Init /\ [][Next]_vars

(***************************************************************************)
(* Fairness: the runtime polls every task whose timer has fired or whose   *)
(* socket is readable.  Nothing is assumed of the network and the game.    *)
(***************************************************************************)
FairSpec ==
  /\ Spec
  /\ WF_vars(GameTask) /\ WF_vars(KeepaliveTask)
  /\ \A p \in Paths : WF_vars(PathTask(p))
-----------------------------------------------------------------------------
\* What a task at a program point has in hand.
TaskSet ==
  /\ tasks["game"].pc \in {"off", "wait", "primary", "backup", "ended"}
  /\ tasks["keepalive"].pc \in {"off", "wait", "primary", "backup", "ended"}
  /\ At("game", "primary") \/ At("game", "backup") => tasks["game"].ask \in Asks
  /\ \A p \in Paths : tasks[p].pc \in {"off", "wait", "dedup", "deliver", "ended"}
  /\ \A p \in Paths : At(p, "dedup") \/ At(p, "deliver") => tasks[p].ask \in Asks

\* Shape of the state; a sequence number that was given out is below the counter.
TypeOK ==
  /\ running \in BOOLEAN /\ gameAddr \in BOOLEAN
  /\ tasks \in [Tasks -> Task] /\ TaskSet
  /\ seq \in Nat /\ seen \subseteq Nat
  /\ awaited \subseteq Nat /\ \A n \in awaited : n < seq
  /\ local \subseteq Asks /\ target \subseteq Paths
  /\ up \in [Paths -> SUBSET Datagram] /\ down \in [Paths -> SUBSET Datagram]
  /\ \A p \in Paths : \A m \in up[p] \cup down[p] :
       m.kind = "data" => m.ask \in Asks
  /\ history \in [asked : SUBSET Asks, accepted : SUBSET Asks,
                  dropped : SUBSET Asks, delivered : [Asks -> 0 .. 2],
                  late : [Tasks -> 0 .. 2], ticks : 0 .. MaxTicks]

\* "The first answer is accepted, the duplicate discarded"
\* (02-enhanced-specification.md:61): the game never gets an answer twice, by
\* whichever paths its copies come and however the network repeats them.
NoAnswerTwice == \A a \in Asks : history.delivered[a] <= 1

\* The other half of that sentence: what the filter discards is a duplicate of
\* an answer it has accepted.
DropsOnlyDuplicates == history.dropped \subseteq history.accepted

\* After stop() (udp_proxy.rs:375) a task handles at most the packet it has or
\* takes in its last wait.
OneMoreAtMost == \A t \in Tasks : history.late[t] <= 1

\* stop() only clears a flag; every task ends all the same
\* (udp_proxy.rs:149-152).
TasksEnd ==
  (~running /\ ~At("game", "off")) ~> \A t \in Tasks : At(t, "ended")

\* The proxy is a tunnel that brings every answer once: the filter is shared by
\* the paths (udp_proxy.rs:227).
ProxyPhase ==
  IF At("game", "off") THEN "new" ELSE IF running THEN "open" ELSE "closed"

P == INSTANCE Tunnel
       WITH Carriers <- Paths, copies <- 1, phase <- ProxyPhase,
            asked <- history.asked, answered <- history.delivered,
            carriers <- {p \in Paths : ~At(p, "ended")}

ProxyTunnel == P!FairSpec
=============================================================================
