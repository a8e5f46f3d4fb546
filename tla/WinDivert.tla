----------------------------- MODULE WinDivert -----------------------------
(***************************************************************************)
(* The client's transparent tunnel (client/src-tauri/src/windivert.rs) and *)
(* the relays it talks to, as the tunnel sees them.                        *)
(*                                                                         *)
(* A capture thread takes the game's packets out of the network stack and  *)
(* sends them to every path; a receive thread per path injects the answers *)
(* as if they came from the game server; a task sends keepalives.  The     *)
(* threads share the flag, the counter of sequence numbers and the reverse *)
(* map.  Each of these accesses is atomic and a step of its own, with what *)
(* the thread does by itself up to the next one.                           *)
(*                                                                         *)
(* A flow <<k, v>> is a socket k of the game and the server v it talks to. *)
(* Datagrams between client and relays are lost, delayed, reordered and    *)
(* repeated, as in UdpProxy.tla.  Tunnel.tla is the abstract specification.*)
(***************************************************************************)
EXTENDS Paths, Sequences

CONSTANTS
  Packets,   \* packets of the game that the filter matches
  Sockets,   \* local sockets of the game
  Servers,   \* game servers of the profile
  Limit,     \* size at which a set of seen sequence numbers is cleared
  MaxCopies, \* bound: datagrams that carry the game's packets
  MaxBeats   \* bound: rounds of keepalives

ASSUME DivertAssumption ==
  /\ None \notin Packets /\ None \notin Servers /\ None \notin Sockets
  /\ Limit \in Nat \ {0} /\ MaxCopies \in Nat /\ MaxBeats \in Nat

Flows == Sockets \X Servers

VARIABLES
  multipath,   \* actual_multipath: there is a backup relay and it is to be used
  diverting,   \* running, the flag stop() clears
  threads,     \* the local state of each thread
  counter,     \* seq_counter
  named,       \* control_sent
  routes,      \* reverse_map: the socket that used each server last
  numbers,     \* seen_seqs, one set per receive thread
  queue,       \* captured packets that the capture thread has not taken
  sent,        \* datagrams from the client to each relay
  back,        \* datagrams from each relay to the client
  server,      \* the game server each relay knows
  record       \* what happened so far: see NoRecord

shared == <<diverting, counter, named, routes>>
network == <<queue, sent, back, server>>
divertVars == <<multipath, shared, threads, numbers, network, record>>

Threads == Paths \cup {"capture", "keepalive"}
Thread == [pc : {"off", "open", "wait", "name", "name backup", "data",
                 "data backup", "route", "backup", "ended"},
           seq : Nat, packet : Packets \cup {None}]
Here(label) == [pc |-> label, seq |-> 0, packet |-> None]

\* A control datagram carries a server, a data datagram a packet.
Message == [kind : Kinds, seq : Nat, packet : Packets \cup {None},
            names : Servers \cup {None}]

NoRecord ==
  [flow |-> [a \in Packets |-> <<>>],   \* flow of each captured packet
   injected |-> [a \in Packets |-> 0],  \* answers to it injected (to 3)
   astray |-> FALSE,                    \* one was injected into another flow
   late |-> [t \in Threads |-> 0],      \* packets handled after stop (to 2)
   beats |-> 0]                         \* rounds of keepalives

Captured == {a \in Packets : record.flow[a] # <<>>}
Noted(r, t) == IF diverting THEN r ELSE [r EXCEPT !.late[t] = Incr(@)]

\* Counted to three: one more than there are paths.
Tally(n) == IF n < 3 THEN n + 1 ELSE n

On(t, label) == threads[t].pc = label
Step(t, label) == threads' = [threads EXCEPT ![t].pc = label]

\* A fault: the loop goes on without testing the flag.
LoopUnchecked(t) == threads' = [threads EXCEPT ![t] = Here("wait")]

\* Back to the top of the loop, where the flag is tested.
Loop(t) ==
  threads' = [threads EXCEPT ![t] = Here(IF diverting THEN "wait" ELSE "ended")]

Post(p, kind, n, a, v) ==
  sent' = [sent EXCEPT ![p] = @ \cup
             {[kind |-> kind, seq |-> n, packet |-> a, names |-> v]}]

Used == IF multipath THEN Paths ELSE {Primary}
Backups == Used \ {Primary}
-----------------------------------------------------------------------------
(* start, stop and the opening of the driver's handles.                    *)

\* The filter is built and the sockets are bound; a failure returns before any
\* thread is spawned.
StartDivert ==
  /\ On("capture", "off")
  /\ diverting' = TRUE
  /\ threads' = [t \in Threads |-> CASE t = "keepalive" -> Here("wait")
                                   [] t \in Paths \ Used -> Here("off")
                                   [] OTHER -> Here("open")]
  /\ UNCHANGED <<multipath, counter, named, routes, numbers, network, record>>

StopDivert ==
  /\ diverting
  /\ diverting' = FALSE
  /\ UNCHANGED <<multipath, threads, counter, named, routes, numbers, network, record>>

\* A thread that cannot open its handle ends, and nobody is told.
OpenHandle(t) ==
  /\ On(t, "open")
  /\ Loop(t) \/ Step(t, "ended")
  /\ UNCHANGED <<multipath, shared, numbers, network, record>>

\* The sockets time out after 100 ms, the ticker after thirty seconds.  The
\* capture thread has no timeout.
TimeOut(t) ==
  /\ t # "capture" /\ On(t, "wait") /\ ~diverting
  /\ Loop(t)
  /\ UNCHANGED <<multipath, shared, numbers, network, record>>
-----------------------------------------------------------------------------
(* The capture thread.                                                     *)

\* The packet is consumed; it is not given back to the stack.  The first one
\* names the game server to the relays.
Capture ==
  /\ On("capture", "wait") /\ queue # <<>>
  /\ LET a == Head(queue)
         flow == record.flow[a] IN
       /\ routes' = [routes EXCEPT ![flow[2]] = flow[1]]
       /\ threads' = [threads EXCEPT !["capture"] =
                        [pc |-> IF named THEN "data" ELSE "name",
                         seq |-> 0, packet |-> a]]
  /\ named' = TRUE
  /\ queue' = Tail(queue)
  /\ record' = Noted(record, "capture")
  /\ UNCHANGED <<multipath, diverting, counter, numbers, sent, back, server>>

\* A fault: only the primary relay learns the server.
NamePrimaryOnly(p) ==
  /\ p = Primary /\ On("capture", "name")
  /\ Post(p, "control", counter, None, record.flow[threads["capture"].packet][2])
  /\ counter' = counter + 1
  /\ Step("capture", "data")
  /\ UNCHANGED <<multipath, diverting, named, routes, numbers, queue, back, server, record>>

\* A control datagram per path, each with a number of its own.
NameServer(p) ==
  /\ On("capture", IF p = Primary THEN "name" ELSE "name backup")
  /\ Post(p, "control", counter, None, record.flow[threads["capture"].packet][2])
  /\ counter' = counter + 1
  /\ Step("capture", IF p = Primary /\ Backups # {} THEN "name backup" ELSE "data")
  /\ UNCHANGED <<multipath, diverting, named, routes, numbers, queue, back, server, record>>

\* The same number on both paths.
SendData ==
  /\ On("capture", "data")
  /\ Post(Primary, "data", counter, threads["capture"].packet, None)
  /\ counter' = counter + 1
  /\ IF Backups = {}
     THEN Loop("capture")
     ELSE threads' = [threads EXCEPT !["capture"].pc = "data backup",
                                     !["capture"].seq = counter]
  /\ UNCHANGED <<multipath, diverting, named, routes, numbers, queue, back, server, record>>

SendCopy(p) ==
  /\ p \in Backups /\ On("capture", "data backup")
  /\ Post(p, "data", threads["capture"].seq, threads["capture"].packet, None)
  /\ Loop("capture")
  /\ UNCHANGED <<multipath, shared, numbers, queue, back, server, record>>
-----------------------------------------------------------------------------
(* The receive threads.                                                    *)

\* A fault: the numbers are not remembered.
FreshAlways(p, n) == numbers' = numbers

\* Insert a number, and clear a set that has grown too large.
Fresh(p, n) ==
  LET more == numbers[p] \cup {n} IN
  /\ n \notin numbers[p]
  /\ numbers' = [numbers EXCEPT ![p] = IF Cardinality(more) > Limit THEN {} ELSE more]

Accept(p, m) ==
  /\ On(p, "wait") /\ m \in back[p]
  /\ Fresh(p, m.seq)
  /\ threads' = [threads EXCEPT ![p] =
                   [pc |-> "route", seq |-> m.seq, packet |-> m.packet]]
  /\ record' = Noted(record, p)
  /\ UNCHANGED <<multipath, shared, network>>

Discard(p, m) ==
  /\ On(p, "wait") /\ m \in back[p]
  /\ m.seq \in numbers[p]
  /\ Loop(p)
  /\ record' = Noted(record, p)
  /\ UNCHANGED <<multipath, shared, numbers, network>>

\* A fault: the source is any server of the profile.
InjectFromProfile(p, v) ==
  LET a == threads[p].packet IN
  /\ On(p, "route")
  /\ \E w \in Servers :
       /\ routes[w] # None
       /\ record' = [record EXCEPT
                       !.injected[a] = Tally(@),
                       !.astray = @ \/ record.flow[a] # <<routes[w], v>>]
  /\ Loop(p)
  /\ UNCHANGED <<multipath, shared, numbers, network>>

\* The entry that hash order puts first; it is also the packet's source and
\* destination.
Inject(p, v) ==
  LET a == threads[p].packet IN
  /\ On(p, "route") /\ routes[v] # None
  /\ record' = [record EXCEPT
                  !.injected[a] = Tally(@),
                  !.astray = @ \/ record.flow[a] # <<routes[v], v>>]
  /\ Loop(p)
  /\ UNCHANGED <<multipath, shared, numbers, network>>

NoRoute(p) ==
  /\ On(p, "route") /\ \A v \in Servers : routes[v] = None
  /\ Loop(p)
  /\ UNCHANGED <<multipath, shared, numbers, network, record>>
-----------------------------------------------------------------------------
(* The keepalive task.  The times it notes are read by nobody.             *)

\* The flag is tested again after the tick.
Beat ==
  /\ On("keepalive", "wait") /\ diverting /\ record.beats < MaxBeats
  /\ Post(Primary, "keepalive", counter, None, None)
  /\ counter' = counter + 1
  /\ Step("keepalive", "backup")
  /\ record' = [record EXCEPT !.beats = @ + 1]
  /\ UNCHANGED <<multipath, diverting, named, routes, numbers, queue, back, server>>

BeatBackup ==
  /\ On("keepalive", "backup")
  /\ IF Backups = {}
     THEN UNCHANGED <<sent, counter>>
     ELSE /\ \E p \in Backups : Post(p, "keepalive", counter, None, None)
          /\ counter' = counter + 1
  /\ Loop("keepalive")
  /\ UNCHANGED <<multipath, diverting, named, routes, numbers, queue, back, server, record>>
-----------------------------------------------------------------------------
(* The game, the driver and the relays.                                    *)

\* While the capture handle is open the driver takes what the filter matches.
DriverTakes(a, f) ==
  /\ ~On("capture", "off") /\ ~On("capture", "open") /\ ~On("capture", "ended")
  /\ a \notin Captured
  /\ (Cardinality(Captured) + 1) * Cardinality(Used) <= MaxCopies
  /\ record' = [record EXCEPT !.flow[a] = f]
  /\ queue' = Append(queue, a)
  /\ UNCHANGED <<multipath, shared, threads, numbers, sent, back, server>>

\* client_listener: a control datagram names the server, if it is granted; a
\* data datagram goes to the server the relay knows, and the answer has number 0.
RelayTakes(p, m) ==
  /\ m \in sent[p]
  /\ \/ m.kind = "control" /\ server' = [server EXCEPT ![p] = m.names]
        /\ UNCHANGED back
     \/ m.kind = "data" /\ server[p] # None
        /\ back' = [back EXCEPT ![p] = @ \cup
                      {[kind |-> "data", seq |-> 0, packet |-> m.packet,
                        names |-> None]}]
        /\ UNCHANGED server
  /\ UNCHANGED <<multipath, shared, threads, numbers, queue, sent, record>>
-----------------------------------------------------------------------------
DivertInit ==
  /\ multipath \in {FALSE, Paths # {Primary}}
  /\ diverting = FALSE
  /\ threads = [t \in Threads |-> Here("off")]
  /\ counter = 0 /\ named = FALSE
  /\ routes = [v \in Servers |-> None]
  /\ numbers = [p \in Paths |-> {}]
  /\ queue = <<>>
  /\ sent = [p \in Paths |-> {}] /\ back = [p \in Paths |-> {}]
  /\ server = [p \in Paths |-> None]  \* no default target: nothing comes sooner
  /\ record = NoRecord

CaptureThread ==
  \/ OpenHandle("capture") \/ Capture \/ SendData
  \/ \E p \in Paths : NameServer(p) \/ SendCopy(p)

ReceiveThread(p) ==
  \/ OpenHandle(p) \/ TimeOut(p)
  \/ \E m \in back[p] : Accept(p, m) \/ Discard(p, m)
  \/ \E v \in Servers : Inject(p, v)
  \/ NoRoute(p)

BeatTask == TimeOut("keepalive") \/ Beat \/ BeatBackup

DivertNext ==
  \/ StartDivert \/ StopDivert
  \/ CaptureThread \/ BeatTask
  \/ \E p \in Paths : ReceiveThread(p)
  \/ \E a \in Packets, f \in Flows : DriverTakes(a, f)
  \/ \E p \in Paths : \E m \in sent[p] : RelayTakes(p, m)

DivertSpec == DivertInit /\ [][DivertNext]_divertVars
-----------------------------------------------------------------------------
\* What a thread at a program point has in hand.
ThreadSet ==
  /\ threads["capture"].pc \in {"off", "open", "wait", "name", "name backup",
                                "data", "data backup", "ended"}
  /\ threads["keepalive"].pc \in {"off", "wait", "backup", "ended"}
  /\ \A p \in Paths :
       /\ threads[p].pc \in {"off", "open", "wait", "route", "ended"}
       /\ On(p, "route") => threads[p].packet \in Packets
  /\ threads["capture"].pc \in {"name", "name backup", "data", "data backup"}
       => threads["capture"].packet \in Packets

\* Shape of the state; a number that was given out is below the counter.
DivertTypeOK ==
  /\ multipath \in BOOLEAN /\ diverting \in BOOLEAN /\ named \in BOOLEAN
  /\ threads \in [Threads -> Thread] /\ ThreadSet
  /\ counter \in Nat
  /\ routes \in [Servers -> Sockets \cup {None}]
  /\ numbers \in [Paths -> SUBSET Nat]
  /\ queue \in Seq(Packets)
  /\ sent \in [Paths -> SUBSET Message] /\ back \in [Paths -> SUBSET Message]
  /\ \A p \in Paths : \A m \in sent[p] :
       m.seq < counter /\ (m.kind = "data" => m.packet \in Packets)
  /\ \A p \in Paths : \A m \in back[p] : m.kind = "data" /\ m.packet \in Packets
  /\ server \in [Paths -> Servers \cup {None}]
  /\ record \in [flow : [Packets -> Flows \cup {<<>>}],
                 injected : [Packets -> 0 .. 3], astray : BOOLEAN,
                 late : [Threads -> 0 .. 2], beats : 0 .. MaxBeats]

\* "First intercepted destination is sent as control" (windivert.rs:92): no path
\* carries the game's data before the datagram that names the server, and all of
\* these name the same one.
ServerNamedFirst ==
  LET controls(p) == {m \in sent[p] : m.kind = "control"} IN
  /\ \A p \in Paths : \A m \in sent[p] : m.kind = "data" => controls(p) # {}
  /\ \A m1, m2 \in UNION {controls(p) : p \in Paths} : m1.names = m2.names

\* "Works well for single-game-server scenarios" (windivert.rs:344): an answer
\* goes into the flow of the packet it answers unless the game used another flow.
AstrayNeedsFlows == record.astray => Cardinality({record.flow[a] : a \in Captured}) > 1

\* After stop() (windivert.rs:517) a thread handles at most one more packet;
\* the capture thread takes that one away from the game.
OneMorePerThread == \A t \in Threads : record.late[t] <= 1

\* stop() only clears the flag: the threads with a timeout end, the capture
\* thread once there is a packet for it.
ThreadsEnd ==
  /\ (~diverting /\ ~On("capture", "off"))
       ~> \A t \in Used \cup {"keepalive"} : On(t, "ended")
  /\ (~diverting /\ queue # <<>>) ~> On("capture", "ended")

DivertPhase ==
  IF On("capture", "off") THEN "new" ELSE IF diverting THEN "open" ELSE "closed"

D == INSTANCE Tunnel
       WITH Asks <- Packets, Carriers <- Paths, copies <- Cardinality(Used),
            phase <- DivertPhase,
            asked <- Captured,
            answered <- record.injected,
            carriers <- {p \in Used : ~On(p, "ended")}

\* What the filters do achieve, each path with one of its own (windivert.rs:294,
\* :403): a path injects an answer once, however often the network repeats it, so
\* the tunnel brings an answer as often as it has paths.
DivertPerPath == D!FairSpec

Design == INSTANCE Tunnel
          WITH Asks <- Packets, Carriers <- Paths, copies <- 1,
               phase <- DivertPhase,
               asked <- Captured,
               answered <- record.injected,
               carriers <- {p \in Used : ~On(p, "ended")}

\* What the design says of both tunnels: of the answers by two paths the first is
\* accepted and its duplicate discarded (02-enhanced-specification.md:61,
\* 03-roadmap.md:124).
DivertTunnel == Design!FairSpec
=============================================================================
