----------------------------- MODULE DivertProofs ----------------------------
(***************************************************************************)
(* Proofs about WinDivert, for any number of packets, sockets and servers, *)
(* any limit of the filters and any loss, delay, reordering and repetition *)
(* of datagrams: the relays learn the game server before its packets come, *)
(* an answer goes astray only when the game has used two flows, a stopped  *)
(* thread handles one packet more at most, and the transparent tunnel is a *)
(* tunnel (Tunnel.tla) that brings an answer once per path, as far as      *)
(* safety goes.                                                            *)
(*                                                                         *)
(* The last section is about ActiveBoost, which runs one of the two: what  *)
(* is proved of the proxy in ProxyProofs and of the transparent tunnel     *)
(* here holds of it.                                                       *)
(***************************************************************************)
EXTENDS ActiveBoost, ProxyProofs

\* The types of what happened.
DivertHappened ==
  [flow : [Packets -> Flows \cup {<<>>}], injected : [Packets -> 0 .. 3],
   astray : BOOLEAN, late : [Threads -> 0 .. 2], beats : 0 .. MaxBeats]

\* The parts of DivertTypeOK.
ThreadType == threads \in [Threads -> Thread] /\ ThreadSet
SentType ==
  /\ sent \in [Paths -> SUBSET Message]
  /\ \A p \in Paths : \A m \in sent[p] :
       m.seq < counter /\ (m.kind = "data" => m.packet \in Packets)
BackType ==
  /\ back \in [Paths -> SUBSET Message]
  /\ \A p \in Paths : \A m \in back[p] : m.kind = "data" /\ m.packet \in Packets
DivertRestType ==
  /\ multipath \in BOOLEAN /\ diverting \in BOOLEAN /\ named \in BOOLEAN
  /\ counter \in Nat
  /\ routes \in [Servers -> Sockets \cup {None}]
  /\ numbers \in [Paths -> SUBSET Nat]
  /\ queue \in Seq(Packets)
  /\ server \in [Paths -> Servers \cup {None}]
RecordType == record \in DivertHappened

\* DivertTypeOK is the conjunction of its parts.
LEMMA DivertParts ==
  DivertTypeOK <=> ThreadType /\ SentType /\ BackType /\ DivertRestType /\ RecordType
  BY DEF DivertTypeOK, ThreadType, SentType, BackType, DivertRestType, RecordType,
         DivertHappened

\* The same of the next state.
LEMMA DivertPartsNext ==
  DivertTypeOK' <=>
    ThreadType' /\ SentType' /\ BackType' /\ DivertRestType' /\ RecordType'
  BY DEF DivertTypeOK, ThreadType, SentType, BackType, DivertRestType, RecordType,
         DivertHappened

\* The flows the game has used.
Seen == {record.flow[a] : a \in Captured}

\* What a thread or the queue holds is a captured packet.
Held ==
  /\ \A i \in DOMAIN queue : queue[i] \in Captured
  /\ threads["capture"].pc \in {"name", "name backup", "data", "data backup"}
       => threads["capture"].packet \in Captured
  /\ On("capture", "data backup") => threads["capture"].seq < counter
  /\ \A p \in Paths : On(p, "route") => threads[p].packet \in Captured

\* So is what a datagram carries; an answer has number 0.
Told ==
  /\ \A p \in Paths : \A m \in sent[p] : m.kind = "data" => m.packet \in Captured
  /\ \A p \in Paths : \A m \in back[p] : m.packet \in Captured /\ m.seq = 0

\* A route is a flow the game has used.
Routed == \A v \in Servers : routes[v] # None => <<routes[v], v>> \in Seen

DivertCarried == Held /\ Told /\ Routed

\* An answer that went astray had two flows to choose from.
Astray ==
  /\ IsFiniteSet(Seen)
  /\ record.astray => Cardinality(Seen) > 1

\* Everything starts at once; a path that is not used does nothing.
DivertPhases ==
  /\ On("capture", "off") => ~diverting /\ \A t \in Threads : On(t, "off")
  /\ \A p \in Paths \ Used : On(p, "off")

\* The paths that have handled the one answer their filter lets through.
Passed == {p \in Used : 0 \in numbers[p] /\ ~On(p, "route")}

\* Each of them has injected one packet at most.
DivertOnce ==
  /\ \A p \in Paths : numbers[p] \subseteq {0}
  /\ \A p \in Paths : On(p, "route") => 0 \in numbers[p]
  /\ \A a \in Packets : record.injected[a] <= Cardinality(Passed)

\* A thread that has handled a packet after the stop does not wait for another.
DivertLeaving ==
  \A t \in Threads :
    /\ record.late[t] <= 1
    /\ record.late[t] # 0 =>
         ~diverting /\ ~On(t, "wait") /\ ~On(t, "off") /\ ~On(t, "open")

\* The datagrams on a path that name the server, and those with the game's data.
Controls(p) == {m \in sent[p] : m.kind = "control"}
Data(p) == {m \in sent[p] : m.kind = "data"}
Silent(p) == Controls(p) = {} /\ Data(p) = {}

\* The server is named on one path, then on the other, and then data follows.
Naming ==
  /\ named => ~On("capture", "off") /\ ~On("capture", "open")
  /\ ~named \/ On("capture", "name") => \A p \in Paths : Silent(p)
  /\ ~named => threads["capture"].pc \in {"off", "open", "wait", "ended"}
  /\ On("capture", "name backup") =>
       /\ Controls(Primary) # {} /\ Data(Primary) = {} /\ Backups # {}
       /\ \A p \in Paths \ {Primary} : Silent(p)
       /\ \A m \in Controls(Primary) :
            m.names = record.flow[threads["capture"].packet][2]
  /\ named /\ ~On("capture", "name") /\ ~On("capture", "name backup") =>
       \A p \in Used : Controls(p) # {}
  /\ \A p, q \in Paths : \A m \in Controls(p), n \in Controls(q) : m.names = n.names
  /\ \A p \in Paths : Data(p) # {} => Controls(p) # {}
-----------------------------------------------------------------------------
\* The head and the tail of a queue hold what the queue holds.
LEMMA HeadTail ==
  ASSUME NEW S, NEW q \in Seq(Packets),
         q # << >>, \A i \in DOMAIN q : q[i] \in S
  PROVE  /\ Head(q) \in S /\ Tail(q) \in Seq(Packets)
         /\ \A i \in DOMAIN Tail(q) : Tail(q)[i] \in S
  OBVIOUS

\* A packet more.
LEMMA OneMoreQueued ==
  ASSUME NEW S, NEW q \in Seq(Packets), NEW a \in Packets, a \in S,
         \A i \in DOMAIN q : q[i] \in S
  PROVE  \A i \in DOMAIN Append(q, a) : Append(q, a)[i] \in S
  OBVIOUS

\* What a thread may have in hand when it goes on.
Fits(t, r) ==
  /\ r \in Thread
  /\ t = "capture" =>
       /\ r.pc \in {"off", "open", "wait", "name", "name backup", "data",
                   "data backup", "ended"}
       /\ r.pc \in {"name", "name backup", "data", "data backup"} => r.packet \in Packets
  /\ t = "keepalive" => r.pc \in {"off", "wait", "backup", "ended"}
  /\ t \in Paths =>
       /\ r.pc \in {"off", "open", "wait", "route", "ended"}
       /\ r.pc = "route" => r.packet \in Packets

\* One thread goes on.
LEMMA GoesOn ==
  ASSUME ThreadType, NEW t \in Threads, NEW r, Fits(t, r),
         threads' = [threads EXCEPT ![t] = r]
  PROVE  ThreadType'
<1>1. threads' \in [Threads -> Thread]
  BY DEF ThreadType, Fits
<1>2. \A s \in Threads : threads'[s] = IF s = t THEN r ELSE threads[s]
  BY DEF ThreadType
<1>3. "capture" \in Threads /\ "keepalive" \in Threads /\ Paths \subseteq Threads
  BY DEF Threads
<1>. QED BY <1>1, <1>2, <1>3 DEF ThreadType, ThreadSet, Fits, On

\* It waits, or has ended.
LEMMA MayRest ==
  ASSUME NEW t \in Threads, NEW label \in {"wait", "ended"}
  PROVE  Fits(t, Here(label))
  BY DEF Fits, Here, Thread

\* A thread that goes back to the top of its loop.
LEMMA Loops ==
  ASSUME ThreadType, NEW t \in Threads, Loop(t)
  PROVE  ThreadType'
  BY GoesOn, MayRest DEF Loop

\* A thread that goes to another program point with what it has.
LEMMA Steps ==
  ASSUME ThreadType, NEW t \in Threads, NEW label, Step(t, label),
         Fits(t, [threads[t] EXCEPT !.pc = label])
  PROVE  ThreadType'
<1>1. threads' = [threads EXCEPT ![t] = [threads[t] EXCEPT !.pc = label]]
  BY DEF Step
<1>. QED BY <1>1, GoesOn

\* Every step keeps what a thread has in hand.
LEMMA ThreadTypeStep == DivertTypeOK /\ [DivertNext]_divertVars => ThreadType'
<1> SUFFICES ASSUME DivertTypeOK, [DivertNext]_divertVars
             PROVE ThreadType'
  OBVIOUS
<1> USE DivertAssumption, PathsAssumption
<1>0. ThreadType /\ SentType /\ BackType /\ DivertRestType /\ RecordType
  BY DivertParts
<1>1. CASE StartDivert
  BY <1>0, <1>1
     DEF StartDivert, ThreadType, ThreadSet, Thread, On, Step, Loop, Here,
         Threads, shared, network
<1>2. CASE StopDivert
  BY <1>0, <1>2
     DEF StopDivert, ThreadType, ThreadSet, Thread, On, Step, Loop, Here,
         Threads, shared, network
<1>3. ASSUME NEW t \in Threads, OpenHandle(t) PROVE ThreadType'
  <2>1. CASE Loop(t)
    BY <1>0, <2>1, Loops
  <2>2. CASE Step(t, "ended")
    <3>1. threads[t] \in Thread
      BY <1>0 DEF ThreadType
    <3>2. Fits(t, [threads[t] EXCEPT !.pc = "ended"])
      BY <3>1 DEF Fits, Thread
    <3>. QED BY <1>0, <2>2, <3>2, Steps
  <2>. QED BY <1>3, <2>1, <2>2 DEF OpenHandle
<1>4. ASSUME NEW t \in Threads, TimeOut(t) PROVE ThreadType'
  <2>1. t \in Threads /\ Loop(t)
    BY <1>4 DEF TimeOut, Threads
  <2>. QED BY <1>0, <2>1, Loops
<1>5. CASE Capture
  <2> DEFINE r == [pc |-> IF named THEN "data" ELSE "name", seq |-> 0, packet |-> Head(queue)]
  <2>1. threads' = [threads EXCEPT !["capture"] = r] /\ "capture" \in Threads
    BY <1>5 DEF Capture, Threads
  <2>2. Head(queue) \in Packets
    BY <1>0, <1>5 DEF Capture, DivertRestType
  <2>3. Fits("capture", r)
    BY <2>2 DEF Fits, Thread
  <2> HIDE DEF r
  <2>. QED BY <1>0, <2>1, <2>3, GoesOn
<1>6. ASSUME NEW p \in Paths, NameServer(p) PROVE ThreadType'
  <2>1. PICK label \in {"name backup", "data"} : Step("capture", label)
    BY <1>6 DEF NameServer
  <2>2. /\ "capture" \in Threads /\ threads["capture"] \in Thread
        /\ threads["capture"].packet \in Packets
    BY <1>0, <1>6 DEF NameServer, ThreadType, ThreadSet, Threads, On
  <2>3. Fits("capture", [threads["capture"] EXCEPT !.pc = label])
    BY <2>2 DEF Fits, Thread
  <2>. QED BY <1>0, <2>1, <2>2, <2>3, Steps
<1>7. CASE SendData
  <2>1. CASE Backups = {}
    <3>1. Loop("capture") /\ "capture" \in Threads
      BY <1>7, <2>1 DEF SendData, Threads
    <3>. QED BY <1>0, <3>1, Loops
  <2>2. CASE Backups # {}
    <3> DEFINE r == [threads["capture"] EXCEPT !.pc = "data backup", !.seq = counter]
    <3>1. /\ "capture" \in Threads /\ threads["capture"] \in Thread
          /\ threads["capture"].packet \in Packets /\ counter \in Nat
      BY <1>0, <1>7 DEF SendData, ThreadType, ThreadSet, Threads, On, DivertRestType
    <3>2. threads' = [threads EXCEPT !["capture"] = r]
      BY <1>0, <1>7, <2>2, <3>1 DEF SendData, ThreadType
    <3>3. Fits("capture", r)
      BY <3>1 DEF Fits, Thread
    <3> HIDE DEF r
    <3>. QED BY <1>0, <3>1, <3>2, <3>3, GoesOn
  <2>. QED BY <2>1, <2>2
<1>8. ASSUME NEW p \in Paths, SendCopy(p) PROVE ThreadType'
  <2>1. "capture" \in Threads /\ Loop("capture")
    BY <1>8 DEF SendCopy, Threads
  <2>. QED BY <1>0, <2>1, Loops
<1>9. ASSUME NEW p \in Paths, NEW m \in back[p], Accept(p, m) PROVE ThreadType'
  <2> DEFINE r == [pc |-> "route", seq |-> m.seq, packet |-> m.packet]
  <2>1. threads' = [threads EXCEPT ![p] = r] /\ p \in Threads
    BY <1>9 DEF Accept, Threads
  <2>2. m.seq \in Nat /\ m.packet \in Packets
    BY <1>0, <1>9 DEF Accept, BackType, Message
  <2>3. Fits(p, r)
    BY <2>2 DEF Fits, Thread
  <2> HIDE DEF r
  <2>. QED BY <1>0, <2>1, <2>3, GoesOn
<1>10. ASSUME NEW p \in Paths, NEW m \in back[p], Discard(p, m)
       PROVE  ThreadType'
  <2>1. p \in Threads /\ Loop(p)
    BY <1>10 DEF Discard, Threads
  <2>. QED BY <1>0, <2>1, Loops
<1>11. ASSUME NEW p \in Paths, NEW v \in Servers, Inject(p, v) PROVE ThreadType'
  <2>1. p \in Threads /\ Loop(p)
    BY <1>11 DEF Inject, Threads
  <2>. QED BY <1>0, <2>1, Loops
<1>12. ASSUME NEW p \in Paths, NoRoute(p) PROVE ThreadType'
  <2>1. p \in Threads /\ Loop(p)
    BY <1>12 DEF NoRoute, Threads
  <2>. QED BY <1>0, <2>1, Loops
<1>13. CASE Beat
  <2>1. "keepalive" \in Threads /\ Step("keepalive", "backup")
    BY <1>13 DEF Beat, Threads
  <2>2. threads["keepalive"] \in Thread
    BY <1>0, <2>1 DEF ThreadType
  <2>3. Fits("keepalive", [threads["keepalive"] EXCEPT !.pc = "backup"])
    BY <2>2 DEF Fits, Thread
  <2>. QED BY <1>0, <2>1, <2>3, Steps
<1>14. CASE BeatBackup
  <2>1. "keepalive" \in Threads /\ Loop("keepalive")
    BY <1>14 DEF BeatBackup, Threads
  <2>. QED BY <1>0, <2>1, Loops
<1>15. ASSUME NEW a \in Packets, NEW f \in Flows, DriverTakes(a, f)
       PROVE  ThreadType'
  BY <1>0, <1>15
     DEF DriverTakes, ThreadType, ThreadSet, Thread, On, Step, Loop, Here,
         Threads, shared, network
<1>16. ASSUME NEW p \in Paths, NEW m \in sent[p], RelayTakes(p, m)
       PROVE  ThreadType'
  BY <1>0, <1>16
     DEF RelayTakes, ThreadType, ThreadSet, Thread, On, Step, Loop, Here,
         Threads, shared, network
<1>17. CASE UNCHANGED divertVars
  BY <1>0, <1>17 DEF divertVars, shared, network, ThreadType, ThreadSet, On
<1>. QED
  BY <1>1, <1>2, <1>3, <1>4, <1>5, <1>6, <1>7, <1>8,
     <1>9, <1>10, <1>11, <1>12, <1>13, <1>14, <1>15, <1>16,
     <1>17
     DEF DivertNext, CaptureThread, ReceiveThread, BeatTask, Threads

\* A datagram more keeps the types of what is sent.
LEMMA Posting ==
  ASSUME SentType, counter \in Nat, counter' \in Nat, counter' >= counter,
         NEW p \in Paths, NEW m \in Message, m.seq < counter',
         m.kind = "data" => m.packet \in Packets,
         sent' = [sent EXCEPT ![p] = @ \cup {m}]
  PROVE  SentType'
<1>1. \A q \in Paths : \A n \in sent[q] : n.seq \in Nat
  BY DEF SentType, Message
<1>. QED BY <1>1 DEF SentType

\* Every step keeps the types of what is sent.
LEMMA SentTypeStep ==
  DivertTypeOK /\ DivertCarried /\ [DivertNext]_divertVars => SentType'
<1> SUFFICES ASSUME DivertTypeOK /\ DivertCarried, [DivertNext]_divertVars
             PROVE SentType'
  OBVIOUS
<1> USE DivertAssumption, PathsAssumption
<1>0. ThreadType /\ SentType /\ BackType /\ DivertRestType /\ RecordType
  BY DivertParts
<1>1. CASE StartDivert
  BY <1>0, <1>1 DEF StartDivert, SentType, shared, network
<1>2. CASE StopDivert
  BY <1>0, <1>2 DEF StopDivert, SentType, shared, network
<1>3. ASSUME NEW t \in Threads, OpenHandle(t) PROVE SentType'
  BY <1>0, <1>3 DEF OpenHandle, SentType, shared, network
<1>4. ASSUME NEW t \in Threads, TimeOut(t) PROVE SentType'
  BY <1>0, <1>4 DEF TimeOut, SentType, shared, network
<1>5. CASE Capture
  BY <1>0, <1>5 DEF Capture, SentType, shared, network
<1>6. ASSUME NEW p \in Paths, NameServer(p) PROVE SentType'
  <2>0. /\ threads["capture"].packet \in Captured
        /\ record.flow[threads["capture"].packet][2] \in Servers
    <3>1. threads["capture"].packet \in Captured
      BY <1>6 DEF NameServer, On, DivertCarried, Held
    <3>. QED BY <1>0, <3>1 DEF Captured, RecordType, DivertHappened, Flows
  <2> DEFINE m == [kind |-> "control", seq |-> counter, packet |-> None,
                    names |-> record.flow[threads["capture"].packet][2]]
  <2>a. /\ counter' = counter + 1 /\ Post(p, m.kind, m.seq, m.packet, m.names)
        /\ counter \in Nat /\ p \in Paths
    BY <1>0, <1>6 DEF NameServer, DivertRestType, shared, Backups, Used
  <2>1. /\ counter \in Nat /\ counter' \in Nat /\ counter' >= counter
        /\ sent' = [sent EXCEPT ![p] = @ \cup {m}] /\ p \in Paths
    BY <2>a DEF Post
  <2>2. m \in Message /\ m.seq < counter' /\ (m.kind = "data" => m.packet \in Packets)
    BY <2>a, <2>0 DEF Message, Kinds
  <2> HIDE DEF m
  <2>. QED BY <1>0, <2>1, <2>2, Posting
<1>7. CASE SendData
  <2>0. threads["capture"].packet \in Packets
    BY <1>0, <1>7 DEF SendData, ThreadType, ThreadSet, On
  <2> DEFINE m == [kind |-> "data", seq |-> counter, packet |-> threads["capture"].packet,
                    names |-> None]
  <2>a. /\ counter' = counter + 1 /\ Post(Primary, m.kind, m.seq, m.packet, m.names)
        /\ counter \in Nat /\ Primary \in Paths
    BY <1>0, <1>7 DEF SendData, DivertRestType, shared, Backups, Used
  <2>1. /\ counter \in Nat /\ counter' \in Nat /\ counter' >= counter
        /\ sent' = [sent EXCEPT ![Primary] = @ \cup {m}] /\ Primary \in Paths
    BY <2>a DEF Post
  <2>2. m \in Message /\ m.seq < counter' /\ (m.kind = "data" => m.packet \in Packets)
    BY <2>a, <2>0 DEF Message, Kinds
  <2> HIDE DEF m
  <2>. QED BY <1>0, <2>1, <2>2, Posting
<1>8. ASSUME NEW p \in Paths, SendCopy(p) PROVE SentType'
  <2>0. threads["capture"].packet \in Packets /\ threads["capture"].seq \in Nat
        /\ threads["capture"].seq < counter
    BY <1>0, <1>8
       DEF SendCopy, ThreadType, ThreadSet, On, Thread, Threads, DivertCarried, Held
  <2> DEFINE m == [kind |-> "data", seq |-> threads["capture"].seq,
                    packet |-> threads["capture"].packet, names |-> None]
  <2>a. /\ counter' = counter /\ Post(p, m.kind, m.seq, m.packet, m.names)
        /\ counter \in Nat /\ p \in Paths
    BY <1>0, <1>8 DEF SendCopy, DivertRestType, shared, Backups, Used
  <2>1. /\ counter \in Nat /\ counter' \in Nat /\ counter' >= counter
        /\ sent' = [sent EXCEPT ![p] = @ \cup {m}] /\ p \in Paths
    BY <2>a DEF Post
  <2>2. m \in Message /\ m.seq < counter' /\ (m.kind = "data" => m.packet \in Packets)
    BY <2>a, <2>0 DEF Message, Kinds
  <2> HIDE DEF m
  <2>. QED BY <1>0, <2>1, <2>2, Posting
<1>9. ASSUME NEW p \in Paths, NEW m \in back[p], Accept(p, m) PROVE SentType'
  BY <1>0, <1>9 DEF Accept, SentType, shared, network
<1>10. ASSUME NEW p \in Paths, NEW m \in back[p], Discard(p, m) PROVE SentType'
  BY <1>0, <1>10 DEF Discard, SentType, shared, network
<1>11. ASSUME NEW p \in Paths, NEW v \in Servers, Inject(p, v) PROVE SentType'
  BY <1>0, <1>11 DEF Inject, SentType, shared, network
<1>12. ASSUME NEW p \in Paths, NoRoute(p) PROVE SentType'
  BY <1>0, <1>12 DEF NoRoute, SentType, shared, network
<1>13. CASE Beat
  <2> DEFINE m == [kind |-> "keepalive", seq |-> counter, packet |-> None, names |-> None]
  <2>a. /\ counter' = counter + 1 /\ Post(Primary, m.kind, m.seq, m.packet, m.names)
        /\ counter \in Nat /\ Primary \in Paths
    BY <1>0, <1>13 DEF Beat, DivertRestType, shared, Backups, Used
  <2>1. /\ counter \in Nat /\ counter' \in Nat /\ counter' >= counter
        /\ sent' = [sent EXCEPT ![Primary] = @ \cup {m}] /\ Primary \in Paths
    BY <2>a DEF Post
  <2>2. m \in Message /\ m.seq < counter' /\ (m.kind = "data" => m.packet \in Packets)
    BY <2>a DEF Message, Kinds
  <2> HIDE DEF m
  <2>. QED BY <1>0, <2>1, <2>2, Posting
<1>14. CASE BeatBackup
  <2>1. CASE Backups = {}
    BY <1>0, <1>14, <2>1 DEF BeatBackup, SentType
  <2>2. CASE Backups # {}
    <3> DEFINE m == [kind |-> "keepalive", seq |-> counter, packet |-> None, names |-> None]
    <3>1. PICK p \in Backups : Post(p, "keepalive", counter, None, None)
      BY <1>14, <2>2 DEF BeatBackup
    <3>2. /\ counter \in Nat /\ counter' = counter + 1 /\ p \in Paths
          /\ sent' = [sent EXCEPT ![p] = @ \cup {m}]
      BY <1>0, <1>14, <2>2, <3>1 DEF BeatBackup, DivertRestType, Post, Backups, Used
    <3>3. m \in Message /\ m.seq < counter' /\ m.kind # "data"
      BY <3>2 DEF Message, Kinds
    <3> HIDE DEF m
    <3>4. counter' \in Nat /\ counter' >= counter
      BY <3>2
    <3>. QED BY <1>0, <3>2, <3>3, <3>4, Posting
  <2>. QED BY <2>1, <2>2
<1>15. ASSUME NEW a \in Packets, NEW f \in Flows, DriverTakes(a, f)
       PROVE  SentType'
  BY <1>0, <1>15 DEF DriverTakes, SentType, shared, network
<1>16. ASSUME NEW p \in Paths, NEW m \in sent[p], RelayTakes(p, m)
       PROVE  SentType'
  BY <1>0, <1>16 DEF RelayTakes, SentType, shared, network
<1>17. CASE UNCHANGED divertVars
  BY <1>0, <1>17 DEF divertVars, shared, network, SentType
<1>. QED
  BY <1>1, <1>2, <1>3, <1>4, <1>5, <1>6, <1>7, <1>8,
     <1>9, <1>10, <1>11, <1>12, <1>13, <1>14, <1>15, <1>16,
     <1>17
     DEF DivertNext, CaptureThread, ReceiveThread, BeatTask, Threads

\* Every step keeps the types of the answers.
LEMMA BackTypeStep == DivertTypeOK /\ [DivertNext]_divertVars => BackType'
<1> SUFFICES ASSUME DivertTypeOK, [DivertNext]_divertVars
             PROVE BackType'
  OBVIOUS
<1> USE DivertAssumption, PathsAssumption
<1>0. ThreadType /\ SentType /\ BackType /\ DivertRestType /\ RecordType
  BY DivertParts
<1>1. CASE StartDivert
  BY <1>0, <1>1
     DEF StartDivert, BackType, SentType, Message, Kinds, On, Step, Loop, Here,
         Threads, shared, network
<1>2. CASE StopDivert
  BY <1>0, <1>2
     DEF StopDivert, BackType, SentType, Message, Kinds, On, Step, Loop, Here,
         Threads, shared, network
<1>3. ASSUME NEW t \in Threads, OpenHandle(t) PROVE BackType'
  BY <1>0, <1>3
     DEF OpenHandle, BackType, SentType, Message, Kinds, On, Step, Loop, Here,
         Threads, shared, network
<1>4. ASSUME NEW t \in Threads, TimeOut(t) PROVE BackType'
  BY <1>0, <1>4
     DEF TimeOut, BackType, SentType, Message, Kinds, On, Step, Loop, Here,
         Threads, shared, network
<1>5. CASE Capture
  BY <1>0, <1>5
     DEF Capture, BackType, SentType, Message, Kinds, On, Step, Loop, Here,
         Threads, shared, network
<1>6. ASSUME NEW p \in Paths, NameServer(p) PROVE BackType'
  BY <1>0, <1>6
     DEF NameServer, BackType, SentType, Message, Kinds, On, Step, Loop, Here,
         Threads, shared, network
<1>7. CASE SendData
  BY <1>0, <1>7
     DEF SendData, BackType, SentType, Message, Kinds, On, Step, Loop, Here,
         Threads, shared, network
<1>8. ASSUME NEW p \in Paths, SendCopy(p) PROVE BackType'
  BY <1>0, <1>8
     DEF SendCopy, BackType, SentType, Message, Kinds, On, Step, Loop, Here,
         Threads, shared, network
<1>9. ASSUME NEW p \in Paths, NEW m \in back[p], Accept(p, m) PROVE BackType'
  BY <1>0, <1>9
     DEF Accept, BackType, SentType, Message, Kinds, On, Step, Loop, Here,
         Threads, shared, network
<1>10. ASSUME NEW p \in Paths, NEW m \in back[p], Discard(p, m) PROVE BackType'
  BY <1>0, <1>10
     DEF Discard, BackType, SentType, Message, Kinds, On, Step, Loop, Here,
         Threads, shared, network
<1>11. ASSUME NEW p \in Paths, NEW v \in Servers, Inject(p, v) PROVE BackType'
  BY <1>0, <1>11
     DEF Inject, BackType, SentType, Message, Kinds, On, Step, Loop, Here,
         Threads, shared, network
<1>12. ASSUME NEW p \in Paths, NoRoute(p) PROVE BackType'
  BY <1>0, <1>12
     DEF NoRoute, BackType, SentType, Message, Kinds, On, Step, Loop, Here,
         Threads, shared, network
<1>13. CASE Beat
  BY <1>0, <1>13
     DEF Beat, BackType, SentType, Message, Kinds, On, Step, Loop, Here,
         Threads, shared, network
<1>14. CASE BeatBackup
  BY <1>0, <1>14
     DEF BeatBackup, BackType, SentType, Message, Kinds, On, Step, Loop, Here,
         Threads, shared, network
<1>15. ASSUME NEW a \in Packets, NEW f \in Flows, DriverTakes(a, f)
       PROVE  BackType'
  BY <1>0, <1>15
     DEF DriverTakes, BackType, SentType, Message, Kinds, On, Step, Loop, Here,
         Threads, shared, network
<1>16. ASSUME NEW p \in Paths, NEW m \in sent[p], RelayTakes(p, m)
       PROVE  BackType'
  BY <1>0, <1>16
     DEF RelayTakes, BackType, SentType, Message, Kinds, On, Step, Loop, Here,
         Threads, shared, network
<1>17. CASE UNCHANGED divertVars
  BY <1>0, <1>17 DEF divertVars, shared, network, BackType
<1>. QED
  BY <1>1, <1>2, <1>3, <1>4, <1>5, <1>6, <1>7, <1>8,
     <1>9, <1>10, <1>11, <1>12, <1>13, <1>14, <1>15, <1>16,
     <1>17
     DEF DivertNext, CaptureThread, ReceiveThread, BeatTask, Threads

\* Every step keeps the other types.
LEMMA DivertRestTypeStep ==
  DivertTypeOK /\ DivertCarried /\ [DivertNext]_divertVars => DivertRestType'
<1> SUFFICES ASSUME DivertTypeOK /\ DivertCarried, [DivertNext]_divertVars
             PROVE DivertRestType'
  OBVIOUS
<1> USE DivertAssumption, PathsAssumption
<1>0. ThreadType /\ SentType /\ BackType /\ DivertRestType /\ RecordType
  BY DivertParts
<1>1. CASE StartDivert
  BY <1>0, <1>1 DEF StartDivert, DivertRestType, shared, network
<1>2. CASE StopDivert
  BY <1>0, <1>2 DEF StopDivert, DivertRestType, shared, network
<1>3. ASSUME NEW t \in Threads, OpenHandle(t) PROVE DivertRestType'
  BY <1>0, <1>3 DEF OpenHandle, DivertRestType, shared, network
<1>4. ASSUME NEW t \in Threads, TimeOut(t) PROVE DivertRestType'
  BY <1>0, <1>4 DEF TimeOut, DivertRestType, shared, network
<1>5. CASE Capture
  <2>0. queue # << >> /\ queue \in Seq(Packets) /\ \A i \in DOMAIN queue : queue[i] \in Captured
    BY <1>0, <1>5 DEF Capture, DivertRestType, DivertCarried, Held
  <2>1. Head(queue) \in Captured /\ Tail(queue) \in Seq(Packets)
    BY <2>0, HeadTail
  <2>2. record.flow[Head(queue)] \in Flows
    BY <1>0, <2>1 DEF Captured, RecordType, DivertHappened
  <2>. QED BY <1>0, <1>5, <2>1, <2>2 DEF Capture, DivertRestType, Flows
<1>6. ASSUME NEW p \in Paths, NameServer(p) PROVE DivertRestType'
  <2>1. /\ counter' = counter + 1
        /\ UNCHANGED <<multipath, diverting, named, routes, numbers, queue, server>>
    BY <1>6 DEF NameServer
  <2>. QED BY <1>0, <2>1 DEF DivertRestType
<1>7. CASE SendData
  <2>1. /\ counter' = counter + 1
        /\ UNCHANGED <<multipath, diverting, named, routes, numbers, queue, server>>
    BY <1>7 DEF SendData
  <2>. QED BY <1>0, <2>1 DEF DivertRestType
<1>8. ASSUME NEW p \in Paths, SendCopy(p) PROVE DivertRestType'
  BY <1>0, <1>8 DEF SendCopy, DivertRestType, shared, network
<1>9. ASSUME NEW p \in Paths, NEW m \in back[p], Accept(p, m) PROVE DivertRestType'
  <2>1. m.seq \in Nat
    BY <1>0, <1>9 DEF Accept, BackType, Message
  <2>. QED BY <1>0, <1>9, <2>1 DEF Accept, Fresh, DivertRestType, shared, network
<1>10. ASSUME NEW p \in Paths, NEW m \in back[p], Discard(p, m) PROVE DivertRestType'
  BY <1>0, <1>10 DEF Discard, DivertRestType, shared, network
<1>11. ASSUME NEW p \in Paths, NEW v \in Servers, Inject(p, v) PROVE DivertRestType'
  BY <1>0, <1>11 DEF Inject, DivertRestType, shared, network
<1>12. ASSUME NEW p \in Paths, NoRoute(p) PROVE DivertRestType'
  BY <1>0, <1>12 DEF NoRoute, DivertRestType, shared, network
<1>13. CASE Beat
  BY <1>0, <1>13 DEF Beat, DivertRestType, shared, network
<1>14. CASE BeatBackup
  <2>1. counter' \in Nat
    BY <1>0, <1>14 DEF BeatBackup, DivertRestType
  <2>. QED BY <1>0, <1>14, <2>1 DEF BeatBackup, DivertRestType
<1>15. ASSUME NEW a \in Packets, NEW f \in Flows, DriverTakes(a, f)
       PROVE  DivertRestType'
  BY <1>0, <1>15 DEF DriverTakes, DivertRestType, shared, network
<1>16. ASSUME NEW p \in Paths, NEW m \in sent[p], RelayTakes(p, m)
       PROVE  DivertRestType'
  <2>1. m.names \in Servers \cup {None}
    BY <1>0, <1>16 DEF RelayTakes, SentType, Message
  <2>. QED BY <1>0, <1>16, <2>1 DEF RelayTakes, DivertRestType, shared
<1>17. CASE UNCHANGED divertVars
  BY <1>0, <1>17 DEF divertVars, shared, network, DivertRestType
<1>. QED
  BY <1>1, <1>2, <1>3, <1>4, <1>5, <1>6, <1>7, <1>8,
     <1>9, <1>10, <1>11, <1>12, <1>13, <1>14, <1>15, <1>16,
     <1>17
     DEF DivertNext, CaptureThread, ReceiveThread, BeatTask, Threads

\* A late packet more keeps the record's type.
LEMMA NotedType ==
  ASSUME RecordType, NEW t \in Threads
  PROVE  Noted(record, t) \in DivertHappened
<1>1. record.late[t] \in 0 .. 2 /\ Incr(record.late[t]) \in 0 .. 2
  BY DEF RecordType, DivertHappened, Incr
<1>2. [record.late EXCEPT ![t] = Incr(@)] \in [Threads -> 0 .. 2]
  BY <1>1 DEF RecordType, DivertHappened
<1>3. [record EXCEPT !.late = [record.late EXCEPT ![t] = Incr(@)]] \in DivertHappened
  BY <1>2 DEF RecordType, DivertHappened
<1>. QED BY <1>3 DEF Noted, RecordType

\* Every step keeps the record's types.
LEMMA RecordTypeStep == DivertTypeOK /\ [DivertNext]_divertVars => RecordType'
<1> SUFFICES ASSUME DivertTypeOK, [DivertNext]_divertVars
             PROVE RecordType'
  OBVIOUS
<1> USE DivertAssumption, PathsAssumption
<1>0. ThreadType /\ SentType /\ BackType /\ DivertRestType /\ RecordType
  BY DivertParts
<1>1. CASE StartDivert
  BY <1>0, <1>1 DEF StartDivert, RecordType, DivertHappened, shared, network
<1>2. CASE StopDivert
  BY <1>0, <1>2 DEF StopDivert, RecordType, DivertHappened, shared, network
<1>3. ASSUME NEW t \in Threads, OpenHandle(t) PROVE RecordType'
  BY <1>0, <1>3 DEF OpenHandle, RecordType, DivertHappened, shared, network
<1>4. ASSUME NEW t \in Threads, TimeOut(t) PROVE RecordType'
  BY <1>0, <1>4 DEF TimeOut, RecordType, DivertHappened, shared, network
<1>5. CASE Capture
  <2>1. record' = Noted(record, "capture") /\ "capture" \in Threads
    BY <1>5 DEF Capture, Threads
  <2>. QED BY <1>0, <2>1, NotedType DEF RecordType
<1>6. ASSUME NEW p \in Paths, NameServer(p) PROVE RecordType'
  BY <1>0, <1>6 DEF NameServer, RecordType, DivertHappened, shared, network
<1>7. CASE SendData
  BY <1>0, <1>7 DEF SendData, RecordType, DivertHappened, shared, network
<1>8. ASSUME NEW p \in Paths, SendCopy(p) PROVE RecordType'
  BY <1>0, <1>8 DEF SendCopy, RecordType, DivertHappened, shared, network
<1>9. ASSUME NEW p \in Paths, NEW m \in back[p], Accept(p, m) PROVE RecordType'
  <2>1. record' = Noted(record, p) /\ p \in Threads
    BY <1>9 DEF Accept, Threads
  <2>. QED BY <1>0, <2>1, NotedType DEF RecordType
<1>10. ASSUME NEW p \in Paths, NEW m \in back[p], Discard(p, m)
       PROVE  RecordType'
  <2>1. record' = Noted(record, p) /\ p \in Threads
    BY <1>10 DEF Discard, Threads
  <2>. QED BY <1>0, <2>1, NotedType DEF RecordType
<1>11. ASSUME NEW p \in Paths, NEW v \in Servers, Inject(p, v) PROVE RecordType'
  <2> DEFINE a == threads[p].packet
             astray == record.flow[a] # <<routes[v], v>>
  <2>1. a \in Packets
    BY <1>0, <1>11 DEF Inject, ThreadType, ThreadSet
  <2>2. record' = [record EXCEPT !.injected = [record.injected EXCEPT ![a] = Tally(@)],
                                 !.astray = record.astray \/ astray]
    BY <1>0, <1>11, <2>1 DEF Inject, RecordType, DivertHappened
  <2>3. [record.injected EXCEPT ![a] = Tally(@)] \in [Packets -> 0 .. 3]
    BY <1>0, <2>1 DEF RecordType, DivertHappened, Tally
  <2>4. (record.astray \/ astray) \in BOOLEAN
    OBVIOUS
  <2> HIDE DEF a, astray
  <2>. QED BY <1>0, <2>2, <2>3, <2>4 DEF RecordType, DivertHappened
<1>12. ASSUME NEW p \in Paths, NoRoute(p) PROVE RecordType'
  BY <1>0, <1>12 DEF NoRoute, RecordType, DivertHappened, shared, network
<1>13. CASE Beat
  <2>1. record' = [record EXCEPT !.beats = record.beats + 1] /\ record.beats + 1 \in 0 .. MaxBeats
    BY <1>0, <1>13 DEF Beat, RecordType, DivertHappened
  <2>. QED BY <1>0, <2>1 DEF RecordType, DivertHappened
<1>14. CASE BeatBackup
  BY <1>0, <1>14 DEF BeatBackup, RecordType, DivertHappened, shared, network
<1>15. ASSUME NEW a \in Packets, NEW f \in Flows, DriverTakes(a, f)
       PROVE  RecordType'
  BY <1>0, <1>15 DEF DriverTakes, RecordType, DivertHappened, shared, network
<1>16. ASSUME NEW p \in Paths, NEW m \in sent[p], RelayTakes(p, m)
       PROVE  RecordType'
  BY <1>0, <1>16 DEF RelayTakes, RecordType, DivertHappened, shared, network
<1>17. CASE UNCHANGED divertVars
  BY <1>0, <1>17 DEF divertVars, shared, network, RecordType
<1>. QED
  BY <1>1, <1>2, <1>3, <1>4, <1>5, <1>6, <1>7, <1>8,
     <1>9, <1>10, <1>11, <1>12, <1>13, <1>14, <1>15, <1>16,
     <1>17
     DEF DivertNext, CaptureThread, ReceiveThread, BeatTask, Threads

-----------------------------------------------------------------------------
(* What the steps do to the threads and to the record.                     *)

\* Thread t has r in hand now; the others have what they had.
Moved(t, r) ==
  t \in Threads /\ \A s \in Threads : threads'[s] = IF s = t THEN r ELSE threads[s]

Top == Here(IF diverting THEN "wait" ELSE "ended")

\* The threads.
LEMMA Who ==
  /\ "capture" \in Threads /\ "keepalive" \in Threads
  /\ \A p \in Paths : p \in Threads /\ p # "capture" /\ p # "keepalive"
  BY PathsAssumption DEF Threads

\* Back to the top of the loop.
LEMMA LoopMoves ==
  ASSUME ThreadType, NEW t \in Threads, Loop(t)
  PROVE  Moved(t, Top)
  BY DEF ThreadType, Loop, Moved, Top

\* To another program point.
LEMMA StepMoves ==
  ASSUME ThreadType, NEW t \in Threads, NEW label, Step(t, label)
  PROVE  Moved(t, [threads[t] EXCEPT !.pc = label])
  BY DEF ThreadType, Step, Moved

\* A thread is handed a packet.
LEMMA SetMoves ==
  ASSUME ThreadType, NEW t \in Threads, NEW r,
         threads' = [threads EXCEPT ![t] = r]
  PROVE  Moved(t, r)
  BY DEF ThreadType, Moved

\* The capture thread keeps the packet's number for the copy.
LEMMA CopyMoves ==
  ASSUME ThreadType, SendData, Backups # {}
  PROVE  Moved("capture", [threads["capture"] EXCEPT !.pc = "data backup", !.seq = counter])
<1>1. "capture" \in Threads /\ threads["capture"] \in Thread
  BY Who DEF ThreadType
<1>2. threads' = [threads EXCEPT !["capture"] =
                    [threads["capture"] EXCEPT !.pc = "data backup", !.seq = counter]]
  BY <1>1 DEF SendData, ThreadType
<1>. QED BY <1>1, <1>2, SetMoves

\* A packet handled late is counted; nothing else of the record changes.
LEMMA NotedLate ==
  ASSUME RecordType, NEW t \in Threads, record' = Noted(record, t)
  PROVE  /\ record'.flow = record.flow /\ record'.injected = record.injected
         /\ record'.astray = record.astray
         /\ \A s \in Threads :
              record'.late[s] = IF s = t /\ ~diverting THEN Incr(record.late[s])
                                                       ELSE record.late[s]
  BY DEF RecordType, DivertHappened, Noted

\* What was captured changes only when the driver takes a packet.
LEMMA SameFlows ==
  ASSUME record'.flow = record.flow
  PROVE  Captured' = Captured /\ Seen' = Seen
  BY DEF Captured, Seen

\* The driver takes a packet of a flow.
LEMMA OneMoreFlow ==
  ASSUME RecordType, NEW a \in Packets, NEW f \in Flows, DriverTakes(a, f)
  PROVE  /\ record'.flow = [record.flow EXCEPT ![a] = f]
         /\ a \notin Captured /\ Captured' = Captured \cup {a}
         /\ Seen' = Seen \cup {f}
         /\ record'.injected = record.injected /\ record'.astray = record.astray
         /\ record'.late = record.late
<1>1. /\ record' = [record EXCEPT !.flow = [record.flow EXCEPT ![a] = f]]
      /\ a \notin Captured
  BY DEF DriverTakes, RecordType, DivertHappened
<1>2. f # << >>
  <2>1. PICK k \in Sockets, v \in Servers : f = <<k, v>>
    BY DEF Flows
  <2>. QED BY <2>1
<1>3. record'.flow = [record.flow EXCEPT ![a] = f]
  BY <1>1 DEF RecordType, DivertHappened
<1>4. \A b \in Packets : record'.flow[b] = IF b = a THEN f ELSE record.flow[b]
  BY <1>3 DEF RecordType, DivertHappened
<1>5. Captured' = Captured \cup {a}
  BY <1>2, <1>4 DEF Captured
<1>6. Seen' = Seen \cup {f}
  BY <1>1, <1>4, <1>5 DEF Seen, Captured
<1>. QED BY <1>1, <1>3, <1>5, <1>6 DEF RecordType, DivertHappened
-----------------------------------------------------------------------------
\* A finite set with two elements has more than one.
LEMMA TwoElements ==
  ASSUME NEW S, IsFiniteSet(S), NEW x \in S, NEW y \in S, x # y
  PROVE  Cardinality(S) > 1
<1>1. IsFiniteSet(S \ {x}) /\ Cardinality(S \ {x}) = Cardinality(S) - 1
  BY FS_RemoveElement
<1>2. Cardinality(S \ {x}) \in Nat
  BY <1>1, FS_CardinalityType
<1>a. Cardinality(S \ {x}) # 0
  <2>1. y \in S \ {x}
    OBVIOUS
  <2>. QED BY <1>1, <2>1, FS_EmptySet
<1>3. Cardinality(S) \in Nat
  BY FS_CardinalityType
<1>. QED BY <1>1, <1>2, <1>a, <1>3

\* Every step keeps the reason why an answer went astray.
LEMMA AstrayStep ==
  DivertTypeOK /\ DivertCarried /\ Astray /\ [DivertNext]_divertVars => Astray'
<1> SUFFICES ASSUME DivertTypeOK /\ DivertCarried /\ Astray, [DivertNext]_divertVars
             PROVE Astray'
  OBVIOUS
<1> USE DivertAssumption, PathsAssumption
<1>0. ThreadType /\ SentType /\ BackType /\ DivertRestType /\ RecordType
  BY DivertParts
<1>1. CASE StartDivert
  <2>1. record'.flow = record.flow /\ record'.astray = record.astray
    BY <1>0, <1>1 DEF StartDivert, RecordType, DivertHappened, shared, network
  <2>. QED BY <2>1, SameFlows DEF Astray
<1>2. CASE StopDivert
  <2>1. record'.flow = record.flow /\ record'.astray = record.astray
    BY <1>0, <1>2 DEF StopDivert, RecordType, DivertHappened, shared, network
  <2>. QED BY <2>1, SameFlows DEF Astray
<1>3. ASSUME NEW t \in Threads, OpenHandle(t) PROVE Astray'
  <2>1. record'.flow = record.flow /\ record'.astray = record.astray
    BY <1>0, <1>3 DEF OpenHandle, RecordType, DivertHappened, shared, network
  <2>. QED BY <2>1, SameFlows DEF Astray
<1>4. ASSUME NEW t \in Threads, TimeOut(t) PROVE Astray'
  <2>1. record'.flow = record.flow /\ record'.astray = record.astray
    BY <1>0, <1>4 DEF TimeOut, RecordType, DivertHappened, shared, network
  <2>. QED BY <2>1, SameFlows DEF Astray
<1>5. CASE Capture
  <2>1. record' = Noted(record, "capture") /\ "capture" \in Threads
    BY <1>5, Who DEF Capture
  <2>. QED BY <1>0, <2>1, NotedLate, SameFlows DEF Astray
<1>6. ASSUME NEW p \in Paths, NameServer(p) PROVE Astray'
  <2>1. record'.flow = record.flow /\ record'.astray = record.astray
    BY <1>0, <1>6 DEF NameServer, RecordType, DivertHappened, shared, network
  <2>. QED BY <2>1, SameFlows DEF Astray
<1>7. CASE SendData
  <2>1. record'.flow = record.flow /\ record'.astray = record.astray
    BY <1>0, <1>7 DEF SendData, RecordType, DivertHappened, shared, network
  <2>. QED BY <2>1, SameFlows DEF Astray
<1>8. ASSUME NEW p \in Paths, SendCopy(p) PROVE Astray'
  <2>1. record'.flow = record.flow /\ record'.astray = record.astray
    BY <1>0, <1>8 DEF SendCopy, RecordType, DivertHappened, shared, network
  <2>. QED BY <2>1, SameFlows DEF Astray
<1>9. ASSUME NEW p \in Paths, NEW m \in back[p], Accept(p, m) PROVE Astray'
  <2>1. record' = Noted(record, p) /\ p \in Threads
    BY <1>9, Who DEF Accept
  <2>. QED BY <1>0, <2>1, NotedLate, SameFlows DEF Astray
<1>10. ASSUME NEW p \in Paths, NEW m \in back[p], Discard(p, m) PROVE Astray'
  <2>1. record' = Noted(record, p) /\ p \in Threads
    BY <1>10, Who DEF Discard
  <2>. QED BY <1>0, <2>1, NotedLate, SameFlows DEF Astray
<1>11. ASSUME NEW p \in Paths, NEW v \in Servers, Inject(p, v) PROVE Astray'
  <2> DEFINE a == threads[p].packet
             f == record.flow[a]
             g == <<routes[v], v>>
  <2>1. a \in Captured /\ f \in Seen /\ g \in Seen
    BY <1>0, <1>11 DEF Inject, DivertCarried, Held, Routed, Seen
  <2>2. record'.flow = record.flow /\ record'.astray = (record.astray \/ f # g)
    BY <1>0, <1>11 DEF Inject, RecordType, DivertHappened
  <2>3. f # g => Cardinality(Seen) > 1
    BY <2>1, TwoElements DEF Astray
  <2>4. Seen' = Seen
    BY <2>2, SameFlows
  <2> HIDE DEF a, f, g
  <2>. QED BY <2>2, <2>3, <2>4 DEF Astray
<1>12. ASSUME NEW p \in Paths, NoRoute(p) PROVE Astray'
  <2>1. record'.flow = record.flow /\ record'.astray = record.astray
    BY <1>0, <1>12 DEF NoRoute, RecordType, DivertHappened, shared, network
  <2>. QED BY <2>1, SameFlows DEF Astray
<1>13. CASE Beat
  <2>1. record'.flow = record.flow /\ record'.astray = record.astray
    BY <1>0, <1>13 DEF Beat, RecordType, DivertHappened, shared, network
  <2>. QED BY <2>1, SameFlows DEF Astray
<1>14. CASE BeatBackup
  <2>1. record'.flow = record.flow /\ record'.astray = record.astray
    BY <1>0, <1>14 DEF BeatBackup, RecordType, DivertHappened, shared, network
  <2>. QED BY <2>1, SameFlows DEF Astray
<1>15. ASSUME NEW a \in Packets, NEW f \in Flows, DriverTakes(a, f)
       PROVE  Astray'
  <2>1. Seen' = Seen \cup {f} /\ record'.astray = record.astray
    BY <1>0, <1>15, OneMoreFlow
  <2>2. IsFiniteSet(Seen) /\ Cardinality(Seen) \in Nat
    BY FS_CardinalityType DEF Astray
  <2>3. /\ IsFiniteSet(Seen \cup {f})
        /\ Cardinality(Seen \cup {f}) = Cardinality(Seen)
             \/ Cardinality(Seen \cup {f}) = Cardinality(Seen) + 1
    BY <2>2, FS_AddElement
  <2>. QED BY <2>1, <2>2, <2>3 DEF Astray
<1>16. ASSUME NEW p \in Paths, NEW m \in sent[p], RelayTakes(p, m) PROVE Astray'
  <2>1. record'.flow = record.flow /\ record'.astray = record.astray
    BY <1>0, <1>16 DEF RelayTakes, RecordType, DivertHappened, shared, network
  <2>. QED BY <2>1, SameFlows DEF Astray
<1>17. CASE UNCHANGED divertVars
  BY <1>0, <1>17 DEF divertVars, shared, network, Astray, Captured, Seen
<1>. QED
  BY <1>1, <1>2, <1>3, <1>4, <1>5, <1>6, <1>7, <1>8,
     <1>9, <1>10, <1>11, <1>12, <1>13, <1>14, <1>15, <1>16,
     <1>17
     DEF DivertNext, CaptureThread, ReceiveThread, BeatTask, Threads

\* The thread that OpenHandle moves, and where to.
LEMMA OpenHandleMoves ==
  ASSUME ThreadType, NEW t \in Threads, OpenHandle(t)
  PROVE  /\ \A s \in Threads \ {t} : threads'[s] = threads[s]
         /\ threads'[t].pc \in {Top.pc, "ended"} /\ t \in Threads
<1>1. \/ Moved(t, Top)
      \/ Moved(t, [threads[t] EXCEPT !.pc = "ended"])
  BY LoopMoves, StepMoves DEF OpenHandle
<1>a. [threads[t] EXCEPT !.pc = "ended"].pc = "ended"
  BY Who DEF ThreadType, Thread
<1>2. /\ \A s \in Threads \ {t} : threads'[s] = threads[s]
      /\ threads'[t].pc \in {Top.pc, "ended"} /\ t \in Threads
  BY <1>1, <1>a, Who DEF Moved
<1>. QED BY <1>1, <1>2

\* The thread that TimeOut moves, and where to.
LEMMA TimeOutMoves ==
  ASSUME ThreadType, NEW t \in Threads, TimeOut(t)
  PROVE  /\ \A s \in Threads \ {t} : threads'[s] = threads[s]
         /\ threads'[t].pc = Top.pc /\ t \in Threads
<1>1. Moved(t, Top)
  BY LoopMoves DEF TimeOut
<1>2. /\ \A s \in Threads \ {t} : threads'[s] = threads[s]
      /\ threads'[t].pc = Top.pc /\ t \in Threads
  BY <1>1, Who DEF Moved
<1>. QED BY <1>1, <1>2

\* The thread that Capture moves, and where to.
LEMMA CaptureMoves ==
  ASSUME ThreadType, Capture
  PROVE  /\ Moved("capture", [pc |-> IF named THEN "data" ELSE "name", seq |-> 0,
                              packet |-> Head(queue)])
         /\ \A s \in Threads \ {"capture"} : threads'[s] = threads[s]
         /\ threads'["capture"].pc \in {"data", "name"} /\ "capture" \in Threads
<1>1. Moved("capture", [pc |-> IF named THEN "data" ELSE "name", seq |-> 0,
                        packet |-> Head(queue)])
  BY SetMoves, Who DEF Capture
<1>2. /\ \A s \in Threads \ {"capture"} : threads'[s] = threads[s]
      /\ threads'["capture"].pc \in {"data", "name"} /\ "capture" \in Threads
  BY <1>1, Who DEF Moved
<1>. QED BY <1>1, <1>2

\* The thread that NameServer moves, and where to.
LEMMA NameServerMoves ==
  ASSUME ThreadType, NEW p \in Paths, NameServer(p)
  PROVE  /\ Moved("capture", [threads["capture"] EXCEPT !.pc =
              IF p = Primary /\ Backups # {} THEN "name backup" ELSE "data"])
         /\ \A s \in Threads \ {"capture"} : threads'[s] = threads[s]
         /\ threads'["capture"].pc \in {"data", "name backup"} /\ "capture" \in Threads
<1>1. Moved("capture", [threads["capture"] EXCEPT !.pc =
        IF p = Primary /\ Backups # {} THEN "name backup" ELSE "data"])
  BY StepMoves, Who DEF NameServer
<1>a. /\ [threads["capture"] EXCEPT !.pc = "data"].pc = "data"
      /\ [threads["capture"] EXCEPT !.pc = "name backup"].pc = "name backup"
  BY Who DEF ThreadType, Thread
<1>2. /\ \A s \in Threads \ {"capture"} : threads'[s] = threads[s]
      /\ threads'["capture"].pc \in {"data", "name backup"} /\ "capture" \in Threads
  BY <1>1, <1>a, Who DEF Moved
<1>. QED BY <1>1, <1>2

\* The thread that SendData moves, and where to.
LEMMA SendDataMoves ==
  ASSUME ThreadType, SendData
  PROVE  /\ (IF Backups = {} THEN Moved("capture", Top)
            ELSE Moved("capture", [threads["capture"] EXCEPT !.pc = "data backup",
                                                             !.seq = counter]))
         /\ \A s \in Threads \ {"capture"} : threads'[s] = threads[s]
         /\ threads'["capture"].pc \in {"data backup", Top.pc} /\ "capture" \in Threads
<1>1. IF Backups = {} THEN Moved("capture", Top)
      ELSE Moved("capture", [threads["capture"] EXCEPT !.pc = "data backup",
                                                       !.seq = counter])
  BY LoopMoves, CopyMoves, Who DEF SendData
<1>a. [threads["capture"] EXCEPT !.pc = "data backup", !.seq = counter].pc = "data backup"
  BY Who DEF ThreadType, Thread
<1>2. /\ \A s \in Threads \ {"capture"} : threads'[s] = threads[s]
      /\ threads'["capture"].pc \in {"data backup", Top.pc} /\ "capture" \in Threads
  BY <1>1, <1>a, Who DEF Moved
<1>. QED BY <1>1, <1>2

\* The thread that SendCopy moves, and where to.
LEMMA SendCopyMoves ==
  ASSUME ThreadType, NEW p \in Paths, SendCopy(p)
  PROVE  /\ \A s \in Threads \ {"capture"} : threads'[s] = threads[s]
         /\ threads'["capture"].pc = Top.pc /\ "capture" \in Threads
<1>1. Moved("capture", Top)
  BY LoopMoves, Who DEF SendCopy
<1>2. /\ \A s \in Threads \ {"capture"} : threads'[s] = threads[s]
      /\ threads'["capture"].pc = Top.pc /\ "capture" \in Threads
  BY <1>1, Who DEF Moved
<1>. QED BY <1>1, <1>2

\* The thread that Accept moves, and where to.
LEMMA AcceptMoves ==
  ASSUME ThreadType, NEW p \in Paths, NEW m \in back[p], Accept(p, m)
  PROVE  /\ Moved(p, [pc |-> "route", seq |-> m.seq, packet |-> m.packet])
         /\ \A s \in Threads \ {p} : threads'[s] = threads[s]
         /\ threads'[p].pc = "route" /\ p \in Threads
<1>1. Moved(p, [pc |-> "route", seq |-> m.seq, packet |-> m.packet])
  BY SetMoves, Who DEF Accept
<1>2. /\ \A s \in Threads \ {p} : threads'[s] = threads[s]
      /\ threads'[p].pc = "route" /\ p \in Threads
  BY <1>1, Who DEF Moved
<1>. QED BY <1>1, <1>2

\* The thread that Discard moves, and where to.
LEMMA DiscardMoves ==
  ASSUME ThreadType, NEW p \in Paths, NEW m \in back[p], Discard(p, m)
  PROVE  /\ \A s \in Threads \ {p} : threads'[s] = threads[s]
         /\ threads'[p].pc = Top.pc /\ p \in Threads
<1>1. Moved(p, Top)
  BY LoopMoves, Who DEF Discard
<1>2. /\ \A s \in Threads \ {p} : threads'[s] = threads[s]
      /\ threads'[p].pc = Top.pc /\ p \in Threads
  BY <1>1, Who DEF Moved
<1>. QED BY <1>1, <1>2

\* The thread that Inject moves, and where to.
LEMMA InjectMoves ==
  ASSUME ThreadType, NEW p \in Paths, NEW v \in Servers, Inject(p, v)
  PROVE  /\ \A s \in Threads \ {p} : threads'[s] = threads[s]
         /\ threads'[p].pc = Top.pc /\ p \in Threads
<1>1. Moved(p, Top)
  BY LoopMoves, Who DEF Inject
<1>2. /\ \A s \in Threads \ {p} : threads'[s] = threads[s]
      /\ threads'[p].pc = Top.pc /\ p \in Threads
  BY <1>1, Who DEF Moved
<1>. QED BY <1>1, <1>2

\* The thread that NoRoute moves, and where to.
LEMMA NoRouteMoves ==
  ASSUME ThreadType, NEW p \in Paths, NoRoute(p)
  PROVE  /\ \A s \in Threads \ {p} : threads'[s] = threads[s]
         /\ threads'[p].pc = Top.pc /\ p \in Threads
<1>1. Moved(p, Top)
  BY LoopMoves, Who DEF NoRoute
<1>2. /\ \A s \in Threads \ {p} : threads'[s] = threads[s]
      /\ threads'[p].pc = Top.pc /\ p \in Threads
  BY <1>1, Who DEF Moved
<1>. QED BY <1>1, <1>2

\* The thread that Beat moves, and where to.
LEMMA BeatMoves ==
  ASSUME ThreadType, Beat
  PROVE  /\ \A s \in Threads \ {"keepalive"} : threads'[s] = threads[s]
         /\ threads'["keepalive"].pc = "backup" /\ "keepalive" \in Threads
<1>1. Moved("keepalive", [threads["keepalive"] EXCEPT !.pc = "backup"])
  BY StepMoves, Who DEF Beat
<1>a. [threads["keepalive"] EXCEPT !.pc = "backup"].pc = "backup"
  BY Who DEF ThreadType, Thread
<1>2. /\ \A s \in Threads \ {"keepalive"} : threads'[s] = threads[s]
      /\ threads'["keepalive"].pc = "backup" /\ "keepalive" \in Threads
  BY <1>1, <1>a, Who DEF Moved
<1>. QED BY <1>1, <1>2

\* The thread that BeatBackup moves, and where to.
LEMMA BeatBackupMoves ==
  ASSUME ThreadType, BeatBackup
  PROVE  /\ \A s \in Threads \ {"keepalive"} : threads'[s] = threads[s]
         /\ threads'["keepalive"].pc = Top.pc /\ "keepalive" \in Threads
<1>1. Moved("keepalive", Top)
  BY LoopMoves, Who DEF BeatBackup
<1>2. /\ \A s \in Threads \ {"keepalive"} : threads'[s] = threads[s]
      /\ threads'["keepalive"].pc = Top.pc /\ "keepalive" \in Threads
  BY <1>1, Who DEF Moved
<1>. QED BY <1>1, <1>2

\* Every step keeps the phases.
LEMMA DivertPhasesStep ==
  DivertTypeOK /\ DivertPhases /\ [DivertNext]_divertVars => DivertPhases'
<1> SUFFICES ASSUME DivertTypeOK /\ DivertPhases, [DivertNext]_divertVars
             PROVE DivertPhases'
  OBVIOUS
<1> USE DivertAssumption, PathsAssumption
<1>0. ThreadType /\ SentType /\ BackType /\ DivertRestType /\ RecordType
  BY DivertParts
<1>1. CASE StartDivert
  BY <1>0, <1>1, Who
     DEF StartDivert, DivertPhases, ThreadType, Used, On, Here, shared, network
<1>2. CASE StopDivert
  BY <1>0, <1>2, Who
     DEF StopDivert, DivertPhases, ThreadType, Used, On, Here, shared, network
<1>3. ASSUME NEW t \in Threads, OpenHandle(t) PROVE DivertPhases'
  <2>2. /\ \A s \in Threads \ {t} : threads'[s] = threads[s]
        /\ threads'[t].pc \in {Top.pc, "ended"} /\ t \in Threads
    BY <1>0, <1>3, OpenHandleMoves
  <2>3. multipath' = multipath /\ diverting' = diverting /\ ~On(t, "off")
    BY <1>3, Who DEF OpenHandle, shared, On
  <2>. QED BY <2>2, <2>3, Who DEF DivertPhases, Top, Here, Used, On
<1>4. ASSUME NEW t \in Threads, TimeOut(t) PROVE DivertPhases'
  <2>2. /\ \A s \in Threads \ {t} : threads'[s] = threads[s]
        /\ threads'[t].pc = Top.pc /\ t \in Threads
    BY <1>0, <1>4, TimeOutMoves
  <2>3. multipath' = multipath /\ diverting' = diverting /\ ~On(t, "off")
    BY <1>4, Who DEF TimeOut, shared, On
  <2>. QED BY <2>2, <2>3, Who DEF DivertPhases, Top, Here, Used, On
<1>5. CASE Capture
  <2>2. /\ \A s \in Threads \ {"capture"} : threads'[s] = threads[s]
        /\ threads'["capture"].pc \in {"data", "name"} /\ "capture" \in Threads
    BY <1>0, <1>5, CaptureMoves
  <2>3. multipath' = multipath /\ diverting' = diverting /\ ~On("capture", "off")
    BY <1>5, Who DEF Capture, shared, On
  <2>. QED BY <2>2, <2>3, Who DEF DivertPhases, Top, Here, Used, On
<1>6. ASSUME NEW p \in Paths, NameServer(p) PROVE DivertPhases'
  <2>2. /\ \A s \in Threads \ {"capture"} : threads'[s] = threads[s]
        /\ threads'["capture"].pc \in {"data", "name backup"} /\ "capture" \in Threads
    BY <1>0, <1>6, NameServerMoves
  <2>3. multipath' = multipath /\ diverting' = diverting /\ ~On("capture", "off")
    BY <1>6, Who DEF NameServer, shared, On
  <2>. QED BY <2>2, <2>3, Who DEF DivertPhases, Top, Here, Used, On
<1>7. CASE SendData
  <2>2. /\ \A s \in Threads \ {"capture"} : threads'[s] = threads[s]
        /\ threads'["capture"].pc \in {"data backup", Top.pc} /\ "capture" \in Threads
    BY <1>0, <1>7, SendDataMoves
  <2>3. multipath' = multipath /\ diverting' = diverting /\ ~On("capture", "off")
    BY <1>7, Who DEF SendData, shared, On
  <2>. QED BY <2>2, <2>3, Who DEF DivertPhases, Top, Here, Used, On
<1>8. ASSUME NEW p \in Paths, SendCopy(p) PROVE DivertPhases'
  <2>2. /\ \A s \in Threads \ {"capture"} : threads'[s] = threads[s]
        /\ threads'["capture"].pc = Top.pc /\ "capture" \in Threads
    BY <1>0, <1>8, SendCopyMoves
  <2>3. multipath' = multipath /\ diverting' = diverting /\ ~On("capture", "off")
    BY <1>8, Who DEF SendCopy, shared, On
  <2>. QED BY <2>2, <2>3, Who DEF DivertPhases, Top, Here, Used, On
<1>9. ASSUME NEW p \in Paths, NEW m \in back[p], Accept(p, m) PROVE DivertPhases'
  <2>2. /\ \A s \in Threads \ {p} : threads'[s] = threads[s]
        /\ threads'[p].pc = "route" /\ p \in Threads
    BY <1>0, <1>9, AcceptMoves
  <2>3. multipath' = multipath /\ diverting' = diverting /\ ~On(p, "off")
    BY <1>9, Who DEF Accept, shared, On
  <2>. QED BY <2>2, <2>3, Who DEF DivertPhases, Top, Here, Used, On
<1>10. ASSUME NEW p \in Paths, NEW m \in back[p], Discard(p, m) PROVE DivertPhases'
  <2>2. /\ \A s \in Threads \ {p} : threads'[s] = threads[s]
        /\ threads'[p].pc = Top.pc /\ p \in Threads
    BY <1>0, <1>10, DiscardMoves
  <2>3. multipath' = multipath /\ diverting' = diverting /\ ~On(p, "off")
    BY <1>10, Who DEF Discard, shared, On
  <2>. QED BY <2>2, <2>3, Who DEF DivertPhases, Top, Here, Used, On
<1>11. ASSUME NEW p \in Paths, NEW v \in Servers, Inject(p, v) PROVE DivertPhases'
  <2>2. /\ \A s \in Threads \ {p} : threads'[s] = threads[s]
        /\ threads'[p].pc = Top.pc /\ p \in Threads
    BY <1>0, <1>11, InjectMoves
  <2>3. multipath' = multipath /\ diverting' = diverting /\ ~On(p, "off")
    BY <1>11, Who DEF Inject, shared, On
  <2>. QED BY <2>2, <2>3, Who DEF DivertPhases, Top, Here, Used, On
<1>12. ASSUME NEW p \in Paths, NoRoute(p) PROVE DivertPhases'
  <2>2. /\ \A s \in Threads \ {p} : threads'[s] = threads[s]
        /\ threads'[p].pc = Top.pc /\ p \in Threads
    BY <1>0, <1>12, NoRouteMoves
  <2>3. multipath' = multipath /\ diverting' = diverting /\ ~On(p, "off")
    BY <1>12, Who DEF NoRoute, shared, On
  <2>. QED BY <2>2, <2>3, Who DEF DivertPhases, Top, Here, Used, On
<1>13. CASE Beat
  <2>2. /\ \A s \in Threads \ {"keepalive"} : threads'[s] = threads[s]
        /\ threads'["keepalive"].pc = "backup" /\ "keepalive" \in Threads
    BY <1>0, <1>13, BeatMoves
  <2>3. multipath' = multipath /\ diverting' = diverting /\ ~On("keepalive", "off")
    BY <1>13, Who DEF Beat, shared, On
  <2>. QED BY <2>2, <2>3, Who DEF DivertPhases, Top, Here, Used, On
<1>14. CASE BeatBackup
  <2>2. /\ \A s \in Threads \ {"keepalive"} : threads'[s] = threads[s]
        /\ threads'["keepalive"].pc = Top.pc /\ "keepalive" \in Threads
    BY <1>0, <1>14, BeatBackupMoves
  <2>3. multipath' = multipath /\ diverting' = diverting /\ ~On("keepalive", "off")
    BY <1>14, Who DEF BeatBackup, shared, On
  <2>. QED BY <2>2, <2>3, Who DEF DivertPhases, Top, Here, Used, On
<1>15. ASSUME NEW a \in Packets, NEW f \in Flows, DriverTakes(a, f)
       PROVE  DivertPhases'
  BY <1>0, <1>15, Who
     DEF DriverTakes, DivertPhases, ThreadType, Used, On, Here, shared, network
<1>16. ASSUME NEW p \in Paths, NEW m \in sent[p], RelayTakes(p, m) PROVE DivertPhases'
  BY <1>0, <1>16, Who
     DEF RelayTakes, DivertPhases, ThreadType, Used, On, Here, shared, network
<1>17. CASE UNCHANGED divertVars
  BY <1>0, <1>17 DEF divertVars, shared, network, DivertPhases, Used, On
<1>. QED
  BY <1>1, <1>2, <1>3, <1>4, <1>5, <1>6, <1>7, <1>8,
     <1>9, <1>10, <1>11, <1>12, <1>13, <1>14, <1>15, <1>16,
     <1>17
     DEF DivertNext, CaptureThread, ReceiveThread, BeatTask, Threads

\* Every step keeps a stopped thread from waiting.
LEMMA DivertLeavingStep ==
  DivertTypeOK /\ DivertPhases /\ DivertLeaving /\ [DivertNext]_divertVars => DivertLeaving'
<1> SUFFICES ASSUME DivertTypeOK /\ DivertPhases /\ DivertLeaving, [DivertNext]_divertVars
             PROVE DivertLeaving'
  OBVIOUS
<1> USE DivertAssumption, PathsAssumption
<1>0. ThreadType /\ SentType /\ BackType /\ DivertRestType /\ RecordType
  BY DivertParts
<1>1. CASE StartDivert
  <2>1. record'.late = record.late
    BY <1>0, <1>1 DEF StartDivert, RecordType, DivertHappened, shared, network
  <2>. QED BY <1>0, <1>1, <2>1, Who
              DEF StartDivert, DivertPhases, DivertLeaving, ThreadType, On, Here, shared,
                  network
<1>2. CASE StopDivert
  <2>1. record'.late = record.late
    BY <1>0, <1>2 DEF StopDivert, RecordType, DivertHappened, shared, network
  <2>. QED BY <1>0, <1>2, <2>1, Who
              DEF StopDivert, DivertPhases, DivertLeaving, ThreadType, On, Here, shared,
                  network
<1>3. ASSUME NEW t \in Threads, OpenHandle(t) PROVE DivertLeaving'
  <2>2. /\ \A s \in Threads \ {t} : threads'[s] = threads[s]
        /\ threads'[t].pc \in {Top.pc, "ended"} /\ t \in Threads
    BY <1>0, <1>3, OpenHandleMoves
  <2>3. record'.late = record.late /\ diverting' = diverting
    BY <1>0, <1>3 DEF OpenHandle, RecordType, DivertHappened, shared, network
  <2>. QED BY <2>2, <2>3 DEF DivertLeaving, Top, Here, On
<1>4. ASSUME NEW t \in Threads, TimeOut(t) PROVE DivertLeaving'
  <2>2. /\ \A s \in Threads \ {t} : threads'[s] = threads[s]
        /\ threads'[t].pc = Top.pc /\ t \in Threads
    BY <1>0, <1>4, TimeOutMoves
  <2>3. record'.late = record.late /\ diverting' = diverting
    BY <1>0, <1>4 DEF TimeOut, RecordType, DivertHappened, shared, network
  <2>. QED BY <2>2, <2>3 DEF DivertLeaving, Top, Here, On
<1>5. CASE Capture
  <2>2. /\ \A s \in Threads \ {"capture"} : threads'[s] = threads[s]
        /\ threads'["capture"].pc \in {"data", "name"} /\ "capture" \in Threads
    BY <1>0, <1>5, CaptureMoves
  <2>3. record' = Noted(record, "capture") /\ "capture" \in Threads
    BY <1>5, Who DEF Capture
  <2>4. /\ diverting' = diverting /\ On("capture", "wait")
        /\ \A s \in Threads :
             record'.late[s] = IF s = "capture" /\ ~diverting THEN Incr(record.late[s])
                               ELSE record.late[s]
    BY <1>0, <1>5, <2>3, NotedLate DEF Capture, shared
  <2>. QED BY <2>2, <2>3, <2>4, Who DEF DivertLeaving, Top, Here, On, Incr
<1>6. ASSUME NEW p \in Paths, NameServer(p) PROVE DivertLeaving'
  <2>2. /\ \A s \in Threads \ {"capture"} : threads'[s] = threads[s]
        /\ threads'["capture"].pc \in {"data", "name backup"} /\ "capture" \in Threads
    BY <1>0, <1>6, NameServerMoves
  <2>3. record'.late = record.late /\ diverting' = diverting
    BY <1>0, <1>6 DEF NameServer, RecordType, DivertHappened, shared, network
  <2>. QED BY <2>2, <2>3 DEF DivertLeaving, Top, Here, On
<1>7. CASE SendData
  <2>2. /\ \A s \in Threads \ {"capture"} : threads'[s] = threads[s]
        /\ threads'["capture"].pc \in {"data backup", Top.pc} /\ "capture" \in Threads
    BY <1>0, <1>7, SendDataMoves
  <2>3. record'.late = record.late /\ diverting' = diverting
    BY <1>0, <1>7 DEF SendData, RecordType, DivertHappened, shared, network
  <2>. QED BY <2>2, <2>3 DEF DivertLeaving, Top, Here, On
<1>8. ASSUME NEW p \in Paths, SendCopy(p) PROVE DivertLeaving'
  <2>2. /\ \A s \in Threads \ {"capture"} : threads'[s] = threads[s]
        /\ threads'["capture"].pc = Top.pc /\ "capture" \in Threads
    BY <1>0, <1>8, SendCopyMoves
  <2>3. record'.late = record.late /\ diverting' = diverting
    BY <1>0, <1>8 DEF SendCopy, RecordType, DivertHappened, shared, network
  <2>. QED BY <2>2, <2>3 DEF DivertLeaving, Top, Here, On
<1>9. ASSUME NEW p \in Paths, NEW m \in back[p], Accept(p, m) PROVE DivertLeaving'
  <2>2. /\ \A s \in Threads \ {p} : threads'[s] = threads[s]
        /\ threads'[p].pc = "route" /\ p \in Threads
    BY <1>0, <1>9, AcceptMoves
  <2>3. record' = Noted(record, p) /\ p \in Threads
    BY <1>9, Who DEF Accept
  <2>4. /\ diverting' = diverting /\ On(p, "wait")
        /\ \A s \in Threads :
             record'.late[s] = IF s = p /\ ~diverting THEN Incr(record.late[s])
                               ELSE record.late[s]
    BY <1>0, <1>9, <2>3, NotedLate DEF Accept, shared
  <2>. QED BY <2>2, <2>3, <2>4, Who DEF DivertLeaving, Top, Here, On, Incr
<1>10. ASSUME NEW p \in Paths, NEW m \in back[p], Discard(p, m) PROVE DivertLeaving'
  <2>2. /\ \A s \in Threads \ {p} : threads'[s] = threads[s]
        /\ threads'[p].pc = Top.pc /\ p \in Threads
    BY <1>0, <1>10, DiscardMoves
  <2>3. record' = Noted(record, p) /\ p \in Threads
    BY <1>10, Who DEF Discard
  <2>4. /\ diverting' = diverting /\ On(p, "wait")
        /\ \A s \in Threads :
             record'.late[s] = IF s = p /\ ~diverting THEN Incr(record.late[s])
                               ELSE record.late[s]
    BY <1>0, <1>10, <2>3, NotedLate DEF Discard, shared
  <2>. QED BY <2>2, <2>3, <2>4, Who DEF DivertLeaving, Top, Here, On, Incr
<1>11. ASSUME NEW p \in Paths, NEW v \in Servers, Inject(p, v) PROVE DivertLeaving'
  <2>2. /\ \A s \in Threads \ {p} : threads'[s] = threads[s]
        /\ threads'[p].pc = Top.pc /\ p \in Threads
    BY <1>0, <1>11, InjectMoves
  <2>3. record'.late = record.late /\ diverting' = diverting
    BY <1>0, <1>11 DEF Inject, RecordType, DivertHappened, shared, network
  <2>. QED BY <2>2, <2>3 DEF DivertLeaving, Top, Here, On
<1>12. ASSUME NEW p \in Paths, NoRoute(p) PROVE DivertLeaving'
  <2>2. /\ \A s \in Threads \ {p} : threads'[s] = threads[s]
        /\ threads'[p].pc = Top.pc /\ p \in Threads
    BY <1>0, <1>12, NoRouteMoves
  <2>3. record'.late = record.late /\ diverting' = diverting
    BY <1>0, <1>12 DEF NoRoute, RecordType, DivertHappened, shared, network
  <2>. QED BY <2>2, <2>3 DEF DivertLeaving, Top, Here, On
<1>13. CASE Beat
  <2>2. /\ \A s \in Threads \ {"keepalive"} : threads'[s] = threads[s]
        /\ threads'["keepalive"].pc = "backup" /\ "keepalive" \in Threads
    BY <1>0, <1>13, BeatMoves
  <2>3. record'.late = record.late /\ diverting' = diverting
    BY <1>0, <1>13 DEF Beat, RecordType, DivertHappened, shared, network
  <2>. QED BY <2>2, <2>3 DEF DivertLeaving, Top, Here, On
<1>14. CASE BeatBackup
  <2>2. /\ \A s \in Threads \ {"keepalive"} : threads'[s] = threads[s]
        /\ threads'["keepalive"].pc = Top.pc /\ "keepalive" \in Threads
    BY <1>0, <1>14, BeatBackupMoves
  <2>3. record'.late = record.late /\ diverting' = diverting
    BY <1>0, <1>14 DEF BeatBackup, RecordType, DivertHappened, shared, network
  <2>. QED BY <2>2, <2>3 DEF DivertLeaving, Top, Here, On
<1>15. ASSUME NEW a \in Packets, NEW f \in Flows, DriverTakes(a, f)
       PROVE  DivertLeaving'
  <2>1. record'.late = record.late
    BY <1>0, <1>15 DEF DriverTakes, RecordType, DivertHappened, shared, network
  <2>. QED BY <1>0, <1>15, <2>1, Who
              DEF DriverTakes, DivertPhases, DivertLeaving, ThreadType, On, Here, shared,
                  network
<1>16. ASSUME NEW p \in Paths, NEW m \in sent[p], RelayTakes(p, m)
       PROVE  DivertLeaving'
  <2>1. record'.late = record.late
    BY <1>0, <1>16 DEF RelayTakes, RecordType, DivertHappened, shared, network
  <2>. QED BY <1>0, <1>16, <2>1, Who
              DEF RelayTakes, DivertPhases, DivertLeaving, ThreadType, On, Here, shared,
                  network
<1>17. CASE UNCHANGED divertVars
  BY <1>0, <1>17 DEF divertVars, shared, network, DivertLeaving, On
<1>. QED
  BY <1>1, <1>2, <1>3, <1>4, <1>5, <1>6, <1>7, <1>8,
     <1>9, <1>10, <1>11, <1>12, <1>13, <1>14, <1>15, <1>16,
     <1>17
     DEF DivertNext, CaptureThread, ReceiveThread, BeatTask, Threads

\* A smaller number stays smaller than a growing one.
LEMMA Later ==
  ASSUME NEW x \in Nat, NEW y \in Nat, NEW z \in Nat, x < y, z >= y
  PROVE  x < z
  OBVIOUS

\* A thread goes on with nothing in hand; the others, the queue and the
\* captured packets stay.
LEMMA HeldKept ==
  ASSUME Held, Captured' = Captured, queue' = queue,
         counter \in Nat, counter' \in Nat, counter' >= counter,
         threads["capture"].seq \in Nat,
         NEW t \in Threads, \A s \in Threads \ {t} : threads'[s] = threads[s],
         \/ threads'[t] = threads[t]
         \/ threads'[t].pc \in {"off", "open", "wait", "backup", "ended"}
  PROVE  Held'
<1>1. \A i \in DOMAIN queue' : queue'[i] \in Captured'
  BY DEF Held
<1>2. \A s \in Threads :
        \/ threads'[s] = threads[s]
        \/ threads'[s].pc \in {"off", "open", "wait", "backup", "ended"}
  OBVIOUS
<1>3. threads'["capture"].pc \in {"name", "name backup", "data", "data backup"}
        => threads'["capture"].packet \in Captured'
  BY <1>2, Who DEF Held
<1>4. On("capture", "data backup")' => threads'["capture"].seq < counter'
  <2>1. On("capture", "data backup")' => threads["capture"].seq < counter
    BY <1>2, Who DEF Held, On
  <2>2. On("capture", "data backup")' => threads'["capture"].seq = threads["capture"].seq
    BY <1>2, Who DEF Held, On
  <2>3. threads["capture"].seq < counter => threads["capture"].seq < counter'
    OBVIOUS
  <2>. QED BY <2>1, <2>2, <2>3
<1>5. \A p \in Paths : On(p, "route")' => threads'[p].packet \in Captured'
  BY <1>2, Who DEF Held, On
<1>. QED BY <1>1, <1>3, <1>4, <1>5 DEF Held

\* The same for a thread that has something in hand.
LEMMA HeldMore ==
  ASSUME Held, Captured' = Captured,
         \A i \in DOMAIN queue' : queue'[i] \in Captured,
         counter \in Nat, counter' \in Nat, counter' >= counter,
         threads["capture"].seq \in Nat,
         NEW t \in Threads, \A s \in Threads \ {t} : threads'[s] = threads[s],
         threads'[t].packet \in Captured,
         threads'[t].pc = "data backup" => threads'[t].seq < counter'
  PROVE  Held'
<1>1. \A i \in DOMAIN queue' : queue'[i] \in Captured'
  OBVIOUS
<1>3. threads'["capture"].pc \in {"name", "name backup", "data", "data backup"}
        => threads'["capture"].packet \in Captured'
  BY Who DEF Held
<1>4. On("capture", "data backup")' => threads'["capture"].seq < counter'
  <2>1. CASE t = "capture"
    BY <2>1 DEF On
  <2>2. CASE t # "capture"
    <3>1. On("capture", "data backup")' => threads["capture"].seq < counter
      BY <2>2, Who DEF Held, On
    <3>2. On("capture", "data backup")' => threads'["capture"].seq = threads["capture"].seq
      BY <2>2, Who DEF Held, On
    <3>3. threads["capture"].seq < counter => threads["capture"].seq < counter'
      BY Later
    <3>. QED BY <3>1, <3>2, <3>3
  <2>. QED BY <2>1, <2>2
<1>5. \A p \in Paths : On(p, "route")' => threads'[p].packet \in Captured'
  BY Who DEF Held, On
<1>. QED BY <1>1, <1>3, <1>4, <1>5 DEF Held

\* Every step keeps what is held.
LEMMA HeldStep ==
  DivertTypeOK /\ Held /\ Told /\ [DivertNext]_divertVars => Held'
<1> SUFFICES ASSUME DivertTypeOK /\ Held /\ Told, [DivertNext]_divertVars
             PROVE Held'
  OBVIOUS
<1> USE DivertAssumption, PathsAssumption
<1>0. ThreadType /\ SentType /\ BackType /\ DivertRestType /\ RecordType
  BY DivertParts
<1>1. CASE StartDivert
  <2>e. record'.flow = record.flow /\ Captured' = Captured /\ Seen' = Seen
    BY <1>0, <1>1, SameFlows
       DEF StartDivert, RecordType, DivertHappened, shared, network
  <2>s. threads["capture"].seq \in Nat
    BY <1>0, Who DEF ThreadType, Thread
  <2>1. queue' = queue /\ counter' = counter /\ counter \in Nat
    BY <1>0, <1>1 DEF StartDivert, network, DivertRestType
  <2>2. \A s \in Threads : threads'[s].pc \in {"off", "open", "wait"}
    BY <1>1 DEF StartDivert, Here
  <2>. QED BY <2>1, <2>2, <2>e, Who DEF Held, On
<1>2. CASE StopDivert
  <2>e. record'.flow = record.flow /\ Captured' = Captured /\ Seen' = Seen
    BY <1>0, <1>2, SameFlows
       DEF StopDivert, RecordType, DivertHappened, shared, network
  <2>n. queue' = queue /\ counter' = counter
    BY <1>2 DEF StopDivert, shared, network
  <2>3. queue' = queue /\ counter \in Nat /\ counter' \in Nat /\ counter' >= counter
    BY <1>0, <2>n DEF DivertRestType
  <2>s. threads["capture"].seq \in Nat
    BY <1>0, Who DEF ThreadType, Thread
  <2>4. threads' = threads
    BY <1>2 DEF StopDivert
  <2>. QED BY <2>3, <2>4, <2>s, <2>e, Who, HeldKept
<1>3. ASSUME NEW t \in Threads, OpenHandle(t) PROVE Held'
  <2>2. /\ \A s \in Threads \ {t} : threads'[s] = threads[s]
        /\ threads'[t].pc \in {Top.pc, "ended"} /\ t \in Threads
    BY <1>0, <1>3, OpenHandleMoves
  <2>e. record'.flow = record.flow /\ Captured' = Captured /\ Seen' = Seen
    BY <1>0, <1>3, SameFlows
       DEF OpenHandle, RecordType, DivertHappened, shared, network
  <2>n. queue' = queue /\ counter' = counter
    BY <1>3 DEF OpenHandle, shared, network
  <2>3. queue' = queue /\ counter \in Nat /\ counter' \in Nat /\ counter' >= counter
    BY <1>0, <2>n DEF DivertRestType
  <2>s. threads["capture"].seq \in Nat
    BY <1>0, Who DEF ThreadType, Thread
  <2>4. threads'[t].pc \in {"wait", "ended", "backup"}
    BY <2>2 DEF Top, Here
  <2>. QED BY <2>2, <2>3, <2>4, <2>s, <2>e, HeldKept
<1>4. ASSUME NEW t \in Threads, TimeOut(t) PROVE Held'
  <2>2. /\ \A s \in Threads \ {t} : threads'[s] = threads[s]
        /\ threads'[t].pc = Top.pc /\ t \in Threads
    BY <1>0, <1>4, TimeOutMoves
  <2>e. record'.flow = record.flow /\ Captured' = Captured /\ Seen' = Seen
    BY <1>0, <1>4, SameFlows DEF TimeOut, RecordType, DivertHappened, shared, network
  <2>n. queue' = queue /\ counter' = counter
    BY <1>4 DEF TimeOut, shared, network
  <2>3. queue' = queue /\ counter \in Nat /\ counter' \in Nat /\ counter' >= counter
    BY <1>0, <2>n DEF DivertRestType
  <2>s. threads["capture"].seq \in Nat
    BY <1>0, Who DEF ThreadType, Thread
  <2>4. threads'[t].pc \in {"wait", "ended", "backup"}
    BY <2>2 DEF Top, Here
  <2>. QED BY <2>2, <2>3, <2>4, <2>s, <2>e, HeldKept
<1>5. CASE Capture
  <2>1. Moved("capture", [pc |-> IF named THEN "data" ELSE "name", seq |-> 0,
                          packet |-> Head(queue)])
    BY <1>0, <1>5, CaptureMoves
  <2>2. /\ \A s \in Threads \ {"capture"} : threads'[s] = threads[s]
        /\ threads'["capture"].pc \in {"data", "name"} /\ "capture" \in Threads
    BY <1>0, <1>5, CaptureMoves
  <2>f. record' = Noted(record, "capture") /\ "capture" \in Threads
    BY <1>5, Who DEF Capture
  <2>e. record'.flow = record.flow /\ Captured' = Captured /\ Seen' = Seen
    BY <1>0, <2>f, NotedLate, SameFlows
  <2>s. threads["capture"].seq \in Nat
    BY <1>0, Who DEF ThreadType, Thread
  <2>g. /\ queue # << >> /\ queue \in Seq(Packets) /\ counter \in Nat /\ counter' = counter
        /\ \A i \in DOMAIN queue : queue[i] \in Captured
    BY <1>0, <1>5 DEF Capture, DivertRestType, Held
  <2>3. /\ Head(queue) \in Captured /\ queue' = Tail(queue)
        /\ \A i \in DOMAIN Tail(queue) : Tail(queue)[i] \in Captured
    BY <1>5, <2>g, HeadTail DEF Capture
  <2>4. threads'["capture"].packet = Head(queue)
    BY <2>1, Who DEF Moved
  <2>5. threads'["capture"].pc # "data backup"
    BY <2>2
  <2>6. \A i \in DOMAIN queue' : queue'[i] \in Captured
    BY <2>3
  <2>7. counter' \in Nat /\ counter' >= counter /\ threads'["capture"].packet \in Captured
    BY <2>g, <2>3, <2>4
  <2>. QED BY <2>2, <2>g, <2>s, <2>5, <2>6, <2>7, <2>e, HeldMore
<1>6. ASSUME NEW p \in Paths, NameServer(p) PROVE Held'
  <2>1. Moved("capture", [threads["capture"] EXCEPT !.pc =
          IF p = Primary /\ Backups # {} THEN "name backup" ELSE "data"])
    BY <1>0, <1>6, NameServerMoves
  <2>2. /\ \A s \in Threads \ {"capture"} : threads'[s] = threads[s]
        /\ threads'["capture"].pc \in {"data", "name backup"} /\ "capture" \in Threads
    BY <1>0, <1>6, NameServerMoves
  <2>e. record'.flow = record.flow /\ Captured' = Captured /\ Seen' = Seen
    BY <1>0, <1>6, SameFlows
       DEF NameServer, RecordType, DivertHappened, shared, network
  <2>n. queue' = queue /\ counter' = counter + 1
    BY <1>6 DEF NameServer, shared, network
  <2>3. queue' = queue /\ counter \in Nat /\ counter' \in Nat /\ counter' >= counter
    BY <1>0, <2>n DEF DivertRestType
  <2>s. threads["capture"].seq \in Nat
    BY <1>0, Who DEF ThreadType, Thread
  <2>h. \A i \in DOMAIN queue' : queue'[i] \in Captured
    BY <2>3 DEF Held
  <2>4. /\ threads["capture"].packet \in Captured
        /\ threads'["capture"].packet = threads["capture"].packet
    <3>1. threads["capture"].packet \in Captured
      BY <1>6 DEF NameServer, Held, On
    <3>2. \A label \in {"data", "name backup"} :
            [threads["capture"] EXCEPT !.pc = label].packet = threads["capture"].packet
      BY <1>0, Who DEF ThreadType, Thread
    <3>. QED BY <2>1, <3>1, <3>2, Who DEF Moved
  <2>. QED BY <2>2, <2>3, <2>4, <2>e, <2>s, <2>h, HeldMore
<1>7. CASE SendData
  <2>1. IF Backups = {} THEN Moved("capture", Top)
        ELSE Moved("capture", [threads["capture"] EXCEPT !.pc = "data backup",
                                                         !.seq = counter])
    BY <1>0, <1>7, SendDataMoves
  <2>2. /\ \A s \in Threads \ {"capture"} : threads'[s] = threads[s]
        /\ threads'["capture"].pc \in {"data backup", Top.pc} /\ "capture" \in Threads
    BY <1>0, <1>7, SendDataMoves
  <2>e. record'.flow = record.flow /\ Captured' = Captured /\ Seen' = Seen
    BY <1>0, <1>7, SameFlows DEF SendData, RecordType, DivertHappened, shared, network
  <2>n. queue' = queue /\ counter' = counter + 1
    BY <1>7 DEF SendData, shared, network
  <2>3. queue' = queue /\ counter \in Nat /\ counter' \in Nat /\ counter' >= counter
    BY <1>0, <2>n DEF DivertRestType
  <2>s. threads["capture"].seq \in Nat
    BY <1>0, Who DEF ThreadType, Thread
  <2>h. \A i \in DOMAIN queue' : queue'[i] \in Captured
    BY <2>3 DEF Held
  <2>4. threads["capture"].packet \in Captured
    BY <1>7 DEF SendData, Held, On
  <2>5. CASE Backups = {}
    <3>1. threads'["capture"].pc \in {"wait", "ended"}
      BY <2>1, <2>5, Who DEF Top, Here, Moved
    <3>. QED BY <2>2, <2>3, <2>s, <2>e, <3>1, HeldKept
  <2>6. CASE Backups # {}
    <3> DEFINE r == [threads["capture"] EXCEPT !.pc = "data backup", !.seq = counter]
    <3>1. r.packet = threads["capture"].packet /\ r.seq = counter
      BY <1>0, Who DEF ThreadType, Thread
    <3>2. threads'["capture"] = r
      BY <2>1, <2>6, Who DEF Moved
    <3> HIDE DEF r
    <3>3. /\ threads'["capture"].packet = threads["capture"].packet
          /\ threads'["capture"].seq = counter
      BY <3>1, <3>2
    <3>4. threads'["capture"].seq < counter'
      BY <3>3, <2>3, <2>n
    <3>5. threads'["capture"].packet \in Captured
      BY <3>3, <2>4
    <3>. QED BY <2>2, <2>3, <2>e, <2>s, <2>h, <3>4, <3>5, HeldMore
  <2>. QED BY <2>5, <2>6
<1>8. ASSUME NEW p \in Paths, SendCopy(p) PROVE Held'
  <2>2. /\ \A s \in Threads \ {"capture"} : threads'[s] = threads[s]
        /\ threads'["capture"].pc = Top.pc /\ "capture" \in Threads
    BY <1>0, <1>8, SendCopyMoves
  <2>e. record'.flow = record.flow /\ Captured' = Captured /\ Seen' = Seen
    BY <1>0, <1>8, SameFlows DEF SendCopy, RecordType, DivertHappened, shared, network
  <2>n. queue' = queue /\ counter' = counter
    BY <1>8 DEF SendCopy, shared, network
  <2>3. queue' = queue /\ counter \in Nat /\ counter' \in Nat /\ counter' >= counter
    BY <1>0, <2>n DEF DivertRestType
  <2>s. threads["capture"].seq \in Nat
    BY <1>0, Who DEF ThreadType, Thread
  <2>4. threads'["capture"].pc \in {"wait", "ended", "backup"}
    BY <2>2 DEF Top, Here
  <2>. QED BY <2>2, <2>3, <2>4, <2>s, <2>e, HeldKept
<1>9. ASSUME NEW p \in Paths, NEW m \in back[p], Accept(p, m) PROVE Held'
  <2>1. Moved(p, [pc |-> "route", seq |-> m.seq, packet |-> m.packet])
    BY <1>0, <1>9, AcceptMoves
  <2>2. /\ \A s \in Threads \ {p} : threads'[s] = threads[s]
        /\ threads'[p].pc = "route" /\ p \in Threads
    BY <1>0, <1>9, AcceptMoves
  <2>f. record' = Noted(record, p) /\ p \in Threads
    BY <1>9, Who DEF Accept
  <2>e. record'.flow = record.flow /\ Captured' = Captured /\ Seen' = Seen
    BY <1>0, <2>f, NotedLate, SameFlows
  <2>n. queue' = queue /\ counter' = counter
    BY <1>9 DEF Accept, shared, network
  <2>3. queue' = queue /\ counter \in Nat /\ counter' \in Nat /\ counter' >= counter
    BY <1>0, <2>n DEF DivertRestType
  <2>s. threads["capture"].seq \in Nat
    BY <1>0, Who DEF ThreadType, Thread
  <2>h. \A i \in DOMAIN queue' : queue'[i] \in Captured
    BY <2>3 DEF Held
  <2>m. m.packet \in Captured
    BY <1>9 DEF Accept, Told
  <2>4. threads'[p].packet = m.packet
    BY <2>1, Who DEF Moved
  <2>. QED BY <2>2, <2>3, <2>4, <2>m, <2>e, <2>s, <2>h, HeldMore
<1>10. ASSUME NEW p \in Paths, NEW m \in back[p], Discard(p, m) PROVE Held'
  <2>2. /\ \A s \in Threads \ {p} : threads'[s] = threads[s]
        /\ threads'[p].pc = Top.pc /\ p \in Threads
    BY <1>0, <1>10, DiscardMoves
  <2>f. record' = Noted(record, p) /\ p \in Threads
    BY <1>10, Who DEF Discard
  <2>e. record'.flow = record.flow /\ Captured' = Captured /\ Seen' = Seen
    BY <1>0, <2>f, NotedLate, SameFlows
  <2>n. queue' = queue /\ counter' = counter
    BY <1>10 DEF Discard, shared, network
  <2>3. queue' = queue /\ counter \in Nat /\ counter' \in Nat /\ counter' >= counter
    BY <1>0, <2>n DEF DivertRestType
  <2>s. threads["capture"].seq \in Nat
    BY <1>0, Who DEF ThreadType, Thread
  <2>4. threads'[p].pc \in {"wait", "ended", "backup"}
    BY <2>2 DEF Top, Here
  <2>. QED BY <2>2, <2>3, <2>4, <2>s, <2>e, HeldKept
<1>11. ASSUME NEW p \in Paths, NEW v \in Servers, Inject(p, v) PROVE Held'
  <2>2. /\ \A s \in Threads \ {p} : threads'[s] = threads[s]
        /\ threads'[p].pc = Top.pc /\ p \in Threads
    BY <1>0, <1>11, InjectMoves
  <2>e. record'.flow = record.flow /\ Captured' = Captured /\ Seen' = Seen
    BY <1>0, <1>11, SameFlows DEF Inject, RecordType, DivertHappened, shared, network
  <2>n. queue' = queue /\ counter' = counter
    BY <1>11 DEF Inject, shared, network
  <2>3. queue' = queue /\ counter \in Nat /\ counter' \in Nat /\ counter' >= counter
    BY <1>0, <2>n DEF DivertRestType
  <2>s. threads["capture"].seq \in Nat
    BY <1>0, Who DEF ThreadType, Thread
  <2>4. threads'[p].pc \in {"wait", "ended", "backup"}
    BY <2>2 DEF Top, Here
  <2>. QED BY <2>2, <2>3, <2>4, <2>s, <2>e, HeldKept
<1>12. ASSUME NEW p \in Paths, NoRoute(p) PROVE Held'
  <2>2. /\ \A s \in Threads \ {p} : threads'[s] = threads[s]
        /\ threads'[p].pc = Top.pc /\ p \in Threads
    BY <1>0, <1>12, NoRouteMoves
  <2>e. record'.flow = record.flow /\ Captured' = Captured /\ Seen' = Seen
    BY <1>0, <1>12, SameFlows DEF NoRoute, RecordType, DivertHappened, shared, network
  <2>n. queue' = queue /\ counter' = counter
    BY <1>12 DEF NoRoute, shared, network
  <2>3. queue' = queue /\ counter \in Nat /\ counter' \in Nat /\ counter' >= counter
    BY <1>0, <2>n DEF DivertRestType
  <2>s. threads["capture"].seq \in Nat
    BY <1>0, Who DEF ThreadType, Thread
  <2>4. threads'[p].pc \in {"wait", "ended", "backup"}
    BY <2>2 DEF Top, Here
  <2>. QED BY <2>2, <2>3, <2>4, <2>s, <2>e, HeldKept
<1>13. CASE Beat
  <2>2. /\ \A s \in Threads \ {"keepalive"} : threads'[s] = threads[s]
        /\ threads'["keepalive"].pc = "backup" /\ "keepalive" \in Threads
    BY <1>0, <1>13, BeatMoves
  <2>e. record'.flow = record.flow /\ Captured' = Captured /\ Seen' = Seen
    BY <1>0, <1>13, SameFlows DEF Beat, RecordType, DivertHappened, shared, network
  <2>n. queue' = queue /\ counter' = counter + 1
    BY <1>13 DEF Beat, shared, network
  <2>3. queue' = queue /\ counter \in Nat /\ counter' \in Nat /\ counter' >= counter
    BY <1>0, <2>n DEF DivertRestType
  <2>s. threads["capture"].seq \in Nat
    BY <1>0, Who DEF ThreadType, Thread
  <2>4. threads'["keepalive"].pc \in {"wait", "ended", "backup"}
    BY <2>2 DEF Top, Here
  <2>. QED BY <2>2, <2>3, <2>4, <2>s, <2>e, HeldKept
<1>14. CASE BeatBackup
  <2>2. /\ \A s \in Threads \ {"keepalive"} : threads'[s] = threads[s]
        /\ threads'["keepalive"].pc = Top.pc /\ "keepalive" \in Threads
    BY <1>0, <1>14, BeatBackupMoves
  <2>e. record'.flow = record.flow /\ Captured' = Captured /\ Seen' = Seen
    BY <1>0, <1>14, SameFlows
       DEF BeatBackup, RecordType, DivertHappened, shared, network
  <2>n. queue' = queue /\ counter' \in {counter, counter + 1}
    BY <1>14 DEF BeatBackup, shared, network
  <2>3. queue' = queue /\ counter \in Nat /\ counter' \in Nat /\ counter' >= counter
    BY <1>0, <2>n DEF DivertRestType
  <2>s. threads["capture"].seq \in Nat
    BY <1>0, Who DEF ThreadType, Thread
  <2>4. threads'["keepalive"].pc \in {"wait", "ended", "backup"}
    BY <2>2 DEF Top, Here
  <2>. QED BY <2>2, <2>3, <2>4, <2>s, <2>e, HeldKept
<1>15. ASSUME NEW a \in Packets, NEW f \in Flows, DriverTakes(a, f) PROVE Held'
  <2>1. /\ Captured' = Captured \cup {a} /\ queue' = Append(queue, a)
        /\ threads' = threads /\ counter' = counter
    BY <1>0, <1>15, OneMoreFlow DEF DriverTakes, shared
  <2>2. \A i \in DOMAIN queue' : queue'[i] \in Captured'
    <3>1. /\ \A i \in DOMAIN queue : queue[i] \in Captured' /\ a \in Captured'
          /\ queue \in Seq(Packets)
      BY <1>0, <2>1 DEF Held, DivertRestType
    <3>. QED BY <2>1, <3>1, OneMoreQueued
  <2>. QED BY <2>1, <2>2 DEF Held, On
<1>16. ASSUME NEW p \in Paths, NEW m \in sent[p], RelayTakes(p, m) PROVE Held'
  <2>e. record'.flow = record.flow /\ Captured' = Captured /\ Seen' = Seen
    BY <1>0, <1>16, SameFlows
       DEF RelayTakes, RecordType, DivertHappened, shared, network
  <2>n. queue' = queue /\ counter' = counter
    BY <1>16 DEF RelayTakes, shared, network
  <2>3. queue' = queue /\ counter \in Nat /\ counter' \in Nat /\ counter' >= counter
    BY <1>0, <2>n DEF DivertRestType
  <2>s. threads["capture"].seq \in Nat
    BY <1>0, Who DEF ThreadType, Thread
  <2>4. threads' = threads
    BY <1>16 DEF RelayTakes
  <2>. QED BY <2>3, <2>4, <2>s, <2>e, Who, HeldKept
<1>17. CASE UNCHANGED divertVars
  BY <1>0, <1>17 DEF divertVars, shared, network, Held, Captured, On
<1>. QED
  BY <1>1, <1>2, <1>3, <1>4, <1>5, <1>6, <1>7, <1>8,
     <1>9, <1>10, <1>11, <1>12, <1>13, <1>14, <1>15, <1>16,
     <1>17
     DEF DivertNext, CaptureThread, ReceiveThread, BeatTask, Threads

\* A datagram more on one path.
LEMMA Posted ==
  ASSUME SentType, NEW p \in Paths, NEW kind, NEW n, NEW a, NEW v,
         Post(p, kind, n, a, v)
  PROVE  /\ \A q \in Paths : sent[q] \subseteq sent'[q]
         /\ \A q \in Paths : \A m \in sent'[q] :
              \/ m \in sent[q]
              \/ q = p /\ m.kind = kind /\ m.packet = a /\ m.names = v
         /\ \E m \in sent'[p] : m.kind = kind /\ m.names = v
<1> DEFINE k == [kind |-> kind, seq |-> n, packet |-> a, names |-> v]
<1>1. sent' = [sent EXCEPT ![p] = @ \cup {k}]
  BY DEF Post
<1>2. k.kind = kind /\ k.packet = a /\ k.names = v
  OBVIOUS
<1> HIDE DEF k
<1>3. \A q \in Paths : sent'[q] = IF q = p THEN sent[q] \cup {k} ELSE sent[q]
  BY <1>1 DEF SentType
<1>4. \A q \in Paths : sent[q] \subseteq sent'[q]
  BY <1>3
<1>5. \A q \in Paths : \A m \in sent'[q] :
        \/ m \in sent[q]
        \/ q = p /\ m.kind = kind /\ m.packet = a /\ m.names = v
  BY <1>3, <1>2
<1>6. \E m \in sent'[p] : m.kind = kind /\ m.names = v
  BY <1>3, <1>2
<1>. QED BY <1>4, <1>5, <1>6

\* Every step keeps what the datagrams carry.
LEMMA ToldStep ==
  DivertTypeOK /\ Held /\ Told /\ [DivertNext]_divertVars => Told'
<1> SUFFICES ASSUME DivertTypeOK /\ Held /\ Told, [DivertNext]_divertVars
             PROVE Told'
  OBVIOUS
<1> USE DivertAssumption, PathsAssumption
<1>0. ThreadType /\ SentType /\ BackType /\ DivertRestType /\ RecordType
  BY DivertParts
<1>1. CASE StartDivert
  <2>e. record'.flow = record.flow /\ Captured' = Captured /\ Seen' = Seen
    BY <1>0, <1>1, SameFlows
       DEF StartDivert, RecordType, DivertHappened, shared, network
  <2>1. sent' = sent /\ back' = back
    BY <1>1 DEF StartDivert, network
  <2>. QED BY <2>1, <2>e DEF Told
<1>2. CASE StopDivert
  <2>e. record'.flow = record.flow /\ Captured' = Captured /\ Seen' = Seen
    BY <1>0, <1>2, SameFlows
       DEF StopDivert, RecordType, DivertHappened, shared, network
  <2>1. sent' = sent /\ back' = back
    BY <1>2 DEF StopDivert, network
  <2>. QED BY <2>1, <2>e DEF Told
<1>3. ASSUME NEW t \in Threads, OpenHandle(t) PROVE Told'
  <2>e. record'.flow = record.flow /\ Captured' = Captured /\ Seen' = Seen
    BY <1>0, <1>3, SameFlows
       DEF OpenHandle, RecordType, DivertHappened, shared, network
  <2>1. sent' = sent /\ back' = back
    BY <1>3 DEF OpenHandle, network
  <2>. QED BY <2>1, <2>e DEF Told
<1>4. ASSUME NEW t \in Threads, TimeOut(t) PROVE Told'
  <2>e. record'.flow = record.flow /\ Captured' = Captured /\ Seen' = Seen
    BY <1>0, <1>4, SameFlows DEF TimeOut, RecordType, DivertHappened, shared, network
  <2>1. sent' = sent /\ back' = back
    BY <1>4 DEF TimeOut, network
  <2>. QED BY <2>1, <2>e DEF Told
<1>5. CASE Capture
  <2>f. record' = Noted(record, "capture") /\ "capture" \in Threads
    BY <1>5, Who DEF Capture
  <2>e. record'.flow = record.flow /\ Captured' = Captured /\ Seen' = Seen
    BY <1>0, <2>f, NotedLate, SameFlows
  <2>1. sent' = sent /\ back' = back
    BY <1>5 DEF Capture, network
  <2>. QED BY <2>1, <2>e DEF Told
<1>6. ASSUME NEW p \in Paths, NameServer(p) PROVE Told'
  <2>e. record'.flow = record.flow /\ Captured' = Captured /\ Seen' = Seen
    BY <1>0, <1>6, SameFlows
       DEF NameServer, RecordType, DivertHappened, shared, network
  <2>p. back' = back /\ Post(p, "control", counter, None, record.flow[threads["capture"].packet][2])
    BY <1>6 DEF NameServer
  <2>1. /\ back' = back
        /\ \A q \in Paths : \A m \in sent'[q] : m \in sent[q] \/ m.kind = "control"
    BY <1>0, <2>p, Posted
  <2>. QED BY <2>1, <2>e DEF Told
<1>7. CASE SendData
  <2>e. record'.flow = record.flow /\ Captured' = Captured /\ Seen' = Seen
    BY <1>0, <1>7, SameFlows DEF SendData, RecordType, DivertHappened, shared, network
  <2>p. back' = back /\ Post(Primary, "data", counter, threads["capture"].packet, None)
    BY <1>7 DEF SendData
  <2>1. /\ back' = back
        /\ \A q \in Paths : \A m \in sent'[q] : m \in sent[q] \/ m.packet = threads["capture"].packet
    BY <1>0, <2>p, Posted
  <2>2. threads["capture"].packet \in Captured
    BY <1>7 DEF SendData, Held, On
  <2>. QED BY <2>1, <2>2, <2>e DEF Told
<1>8. ASSUME NEW p \in Paths, SendCopy(p) PROVE Told'
  <2>e. record'.flow = record.flow /\ Captured' = Captured /\ Seen' = Seen
    BY <1>0, <1>8, SameFlows DEF SendCopy, RecordType, DivertHappened, shared, network
  <2>p. back' = back /\ Post(p, "data", threads["capture"].seq, threads["capture"].packet, None)
    BY <1>8 DEF SendCopy
  <2>1. /\ back' = back
        /\ \A q \in Paths : \A m \in sent'[q] : m \in sent[q] \/ m.packet = threads["capture"].packet
    BY <1>0, <2>p, Posted
  <2>2. threads["capture"].packet \in Captured
    BY <1>8 DEF SendCopy, Held, On
  <2>. QED BY <2>1, <2>2, <2>e DEF Told
<1>9. ASSUME NEW p \in Paths, NEW m \in back[p], Accept(p, m) PROVE Told'
  <2>f. record' = Noted(record, p) /\ p \in Threads
    BY <1>9, Who DEF Accept
  <2>e. record'.flow = record.flow /\ Captured' = Captured /\ Seen' = Seen
    BY <1>0, <2>f, NotedLate, SameFlows
  <2>1. sent' = sent /\ back' = back
    BY <1>9 DEF Accept, network
  <2>. QED BY <2>1, <2>e DEF Told
<1>10. ASSUME NEW p \in Paths, NEW m \in back[p], Discard(p, m) PROVE Told'
  <2>f. record' = Noted(record, p) /\ p \in Threads
    BY <1>10, Who DEF Discard
  <2>e. record'.flow = record.flow /\ Captured' = Captured /\ Seen' = Seen
    BY <1>0, <2>f, NotedLate, SameFlows
  <2>1. sent' = sent /\ back' = back
    BY <1>10 DEF Discard, network
  <2>. QED BY <2>1, <2>e DEF Told
<1>11. ASSUME NEW p \in Paths, NEW v \in Servers, Inject(p, v) PROVE Told'
  <2>e. record'.flow = record.flow /\ Captured' = Captured /\ Seen' = Seen
    BY <1>0, <1>11, SameFlows DEF Inject, RecordType, DivertHappened, shared, network
  <2>1. sent' = sent /\ back' = back
    BY <1>11 DEF Inject, network
  <2>. QED BY <2>1, <2>e DEF Told
<1>12. ASSUME NEW p \in Paths, NoRoute(p) PROVE Told'
  <2>e. record'.flow = record.flow /\ Captured' = Captured /\ Seen' = Seen
    BY <1>0, <1>12, SameFlows DEF NoRoute, RecordType, DivertHappened, shared, network
  <2>1. sent' = sent /\ back' = back
    BY <1>12 DEF NoRoute, network
  <2>. QED BY <2>1, <2>e DEF Told
<1>13. CASE Beat
  <2>e. record'.flow = record.flow /\ Captured' = Captured /\ Seen' = Seen
    BY <1>0, <1>13, SameFlows DEF Beat, RecordType, DivertHappened, shared, network
  <2>p. back' = back /\ Post(Primary, "keepalive", counter, None, None)
    BY <1>13 DEF Beat
  <2>1. /\ back' = back
        /\ \A q \in Paths : \A m \in sent'[q] : m \in sent[q] \/ m.kind = "keepalive"
    BY <1>0, <2>p, Posted
  <2>. QED BY <2>1, <2>e DEF Told
<1>14. CASE BeatBackup
  <2>e. record'.flow = record.flow /\ Captured' = Captured /\ Seen' = Seen
    BY <1>0, <1>14, SameFlows
       DEF BeatBackup, RecordType, DivertHappened, shared, network
  <2>p. back' = back /\ (sent' = sent \/ \E p \in Paths : Post(p, "keepalive", counter, None, None))
    BY <1>14 DEF BeatBackup, Backups, Used
  <2>1. /\ back' = back
        /\ \A q \in Paths : \A m \in sent'[q] : m \in sent[q] \/ m.kind = "keepalive"
    BY <1>0, <2>p, Posted
  <2>. QED BY <2>1, <2>e DEF Told
<1>15. ASSUME NEW a \in Packets, NEW f \in Flows, DriverTakes(a, f) PROVE Told'
  <2>1. Captured' = Captured \cup {a} /\ sent' = sent /\ back' = back
    BY <1>0, <1>15, OneMoreFlow DEF DriverTakes
  <2>. QED BY <2>1 DEF Told
<1>16. ASSUME NEW p \in Paths, NEW m \in sent[p], RelayTakes(p, m) PROVE Told'
  <2>e. record'.flow = record.flow /\ Captured' = Captured /\ Seen' = Seen
    BY <1>0, <1>16, SameFlows
       DEF RelayTakes, RecordType, DivertHappened, shared, network
  <2> DEFINE k == [kind |-> "data", seq |-> 0, packet |-> m.packet, names |-> None]
  <2>1. /\ sent' = sent
        /\ \/ back' = back
           \/ m.kind = "data" /\ back' = [back EXCEPT ![p] = @ \cup {k}]
    BY <1>16 DEF RelayTakes
  <2>2. k.packet = m.packet /\ k.seq = 0 /\ m \in sent[p]
    OBVIOUS
  <2> HIDE DEF k
  <2>3. \A q \in Paths : \A j \in back'[q] :
          \/ j \in back[q]
          \/ m.kind = "data" /\ j.packet = m.packet /\ j.seq = 0
    <3>1. CASE m.kind = "data" /\ back' = [back EXCEPT ![p] = @ \cup {k}]
      <4>1. \A q \in Paths : back'[q] = IF q = p THEN back[q] \cup {k} ELSE back[q]
        BY <1>0, <3>1 DEF BackType
      <4>. QED BY <3>1, <4>1, <2>2
    <3>. QED BY <2>1, <3>1
  <2>. QED BY <2>1, <2>2, <2>3, <2>e DEF Told
<1>17. CASE UNCHANGED divertVars
  BY <1>0, <1>17 DEF divertVars, shared, network, Told, Captured
<1>. QED
  BY <1>1, <1>2, <1>3, <1>4, <1>5, <1>6, <1>7, <1>8,
     <1>9, <1>10, <1>11, <1>12, <1>13, <1>14, <1>15, <1>16,
     <1>17
     DEF DivertNext, CaptureThread, ReceiveThread, BeatTask, Threads

\* Every step keeps the routes among the flows.
LEMMA RoutedStep ==
  DivertTypeOK /\ Held /\ Routed /\ [DivertNext]_divertVars => Routed'
<1> SUFFICES ASSUME DivertTypeOK /\ Held /\ Routed, [DivertNext]_divertVars
             PROVE Routed'
  OBVIOUS
<1> USE DivertAssumption, PathsAssumption
<1>0. ThreadType /\ SentType /\ BackType /\ DivertRestType /\ RecordType
  BY DivertParts
<1>1. CASE StartDivert
  <2>e. record'.flow = record.flow /\ Captured' = Captured /\ Seen' = Seen
    BY <1>0, <1>1, SameFlows
       DEF StartDivert, RecordType, DivertHappened, shared, network
  <2>1. routes' = routes
    BY <1>1 DEF StartDivert, shared
  <2>. QED BY <2>1, <2>e DEF Routed
<1>2. CASE StopDivert
  <2>e. record'.flow = record.flow /\ Captured' = Captured /\ Seen' = Seen
    BY <1>0, <1>2, SameFlows
       DEF StopDivert, RecordType, DivertHappened, shared, network
  <2>1. routes' = routes
    BY <1>2 DEF StopDivert, shared
  <2>. QED BY <2>1, <2>e DEF Routed
<1>3. ASSUME NEW t \in Threads, OpenHandle(t) PROVE Routed'
  <2>e. record'.flow = record.flow /\ Captured' = Captured /\ Seen' = Seen
    BY <1>0, <1>3, SameFlows
       DEF OpenHandle, RecordType, DivertHappened, shared, network
  <2>1. routes' = routes
    BY <1>3 DEF OpenHandle, shared
  <2>. QED BY <2>1, <2>e DEF Routed
<1>4. ASSUME NEW t \in Threads, TimeOut(t) PROVE Routed'
  <2>e. record'.flow = record.flow /\ Captured' = Captured /\ Seen' = Seen
    BY <1>0, <1>4, SameFlows DEF TimeOut, RecordType, DivertHappened, shared, network
  <2>1. routes' = routes
    BY <1>4 DEF TimeOut, shared
  <2>. QED BY <2>1, <2>e DEF Routed
<1>5. CASE Capture
  <2>f. record' = Noted(record, "capture") /\ "capture" \in Threads
    BY <1>5, Who DEF Capture
  <2>e. record'.flow = record.flow /\ Captured' = Captured /\ Seen' = Seen
    BY <1>0, <2>f, NotedLate, SameFlows
  <2> DEFINE flow == record.flow[Head(queue)]
  <2>g. queue # << >> /\ queue \in Seq(Packets) /\ \A i \in DOMAIN queue : queue[i] \in Captured
    BY <1>0, <1>5 DEF Capture, DivertRestType, Held
  <2>1. Head(queue) \in Captured
    BY <2>g, HeadTail
  <2>2. flow \in Flows /\ flow \in Seen
    BY <1>0, <2>1 DEF Captured, Seen, RecordType, DivertHappened
  <2>3. flow[2] \in Servers /\ <<flow[1], flow[2]>> = flow
    BY <2>2 DEF Flows
  <2>4. routes' = [routes EXCEPT ![flow[2]] = flow[1]]
    BY <1>5 DEF Capture
  <2> HIDE DEF flow
  <2>. QED BY <1>0, <2>2, <2>3, <2>4, <2>e DEF Routed, DivertRestType
<1>6. ASSUME NEW p \in Paths, NameServer(p) PROVE Routed'
  <2>e. record'.flow = record.flow /\ Captured' = Captured /\ Seen' = Seen
    BY <1>0, <1>6, SameFlows
       DEF NameServer, RecordType, DivertHappened, shared, network
  <2>1. routes' = routes
    BY <1>6 DEF NameServer, shared
  <2>. QED BY <2>1, <2>e DEF Routed
<1>7. CASE SendData
  <2>e. record'.flow = record.flow /\ Captured' = Captured /\ Seen' = Seen
    BY <1>0, <1>7, SameFlows DEF SendData, RecordType, DivertHappened, shared, network
  <2>1. routes' = routes
    BY <1>7 DEF SendData, shared
  <2>. QED BY <2>1, <2>e DEF Routed
<1>8. ASSUME NEW p \in Paths, SendCopy(p) PROVE Routed'
  <2>e. record'.flow = record.flow /\ Captured' = Captured /\ Seen' = Seen
    BY <1>0, <1>8, SameFlows DEF SendCopy, RecordType, DivertHappened, shared, network
  <2>1. routes' = routes
    BY <1>8 DEF SendCopy, shared
  <2>. QED BY <2>1, <2>e DEF Routed
<1>9. ASSUME NEW p \in Paths, NEW m \in back[p], Accept(p, m) PROVE Routed'
  <2>f. record' = Noted(record, p) /\ p \in Threads
    BY <1>9, Who DEF Accept
  <2>e. record'.flow = record.flow /\ Captured' = Captured /\ Seen' = Seen
    BY <1>0, <2>f, NotedLate, SameFlows
  <2>1. routes' = routes
    BY <1>9 DEF Accept, shared
  <2>. QED BY <2>1, <2>e DEF Routed
<1>10. ASSUME NEW p \in Paths, NEW m \in back[p], Discard(p, m) PROVE Routed'
  <2>f. record' = Noted(record, p) /\ p \in Threads
    BY <1>10, Who DEF Discard
  <2>e. record'.flow = record.flow /\ Captured' = Captured /\ Seen' = Seen
    BY <1>0, <2>f, NotedLate, SameFlows
  <2>1. routes' = routes
    BY <1>10 DEF Discard, shared
  <2>. QED BY <2>1, <2>e DEF Routed
<1>11. ASSUME NEW p \in Paths, NEW v \in Servers, Inject(p, v) PROVE Routed'
  <2>e. record'.flow = record.flow /\ Captured' = Captured /\ Seen' = Seen
    BY <1>0, <1>11, SameFlows DEF Inject, RecordType, DivertHappened, shared, network
  <2>1. routes' = routes
    BY <1>11 DEF Inject, shared
  <2>. QED BY <2>1, <2>e DEF Routed
<1>12. ASSUME NEW p \in Paths, NoRoute(p) PROVE Routed'
  <2>e. record'.flow = record.flow /\ Captured' = Captured /\ Seen' = Seen
    BY <1>0, <1>12, SameFlows DEF NoRoute, RecordType, DivertHappened, shared, network
  <2>1. routes' = routes
    BY <1>12 DEF NoRoute, shared
  <2>. QED BY <2>1, <2>e DEF Routed
<1>13. CASE Beat
  <2>e. record'.flow = record.flow /\ Captured' = Captured /\ Seen' = Seen
    BY <1>0, <1>13, SameFlows DEF Beat, RecordType, DivertHappened, shared, network
  <2>1. routes' = routes
    BY <1>13 DEF Beat, shared
  <2>. QED BY <2>1, <2>e DEF Routed
<1>14. CASE BeatBackup
  <2>e. record'.flow = record.flow /\ Captured' = Captured /\ Seen' = Seen
    BY <1>0, <1>14, SameFlows
       DEF BeatBackup, RecordType, DivertHappened, shared, network
  <2>1. routes' = routes
    BY <1>14 DEF BeatBackup, shared
  <2>. QED BY <2>1, <2>e DEF Routed
<1>15. ASSUME NEW a \in Packets, NEW f \in Flows, DriverTakes(a, f)
       PROVE  Routed'
  <2>1. Seen' = Seen \cup {f} /\ routes' = routes
    BY <1>0, <1>15, OneMoreFlow DEF DriverTakes, shared
  <2>. QED BY <2>1 DEF Routed
<1>16. ASSUME NEW p \in Paths, NEW m \in sent[p], RelayTakes(p, m) PROVE Routed'
  <2>e. record'.flow = record.flow /\ Captured' = Captured /\ Seen' = Seen
    BY <1>0, <1>16, SameFlows
       DEF RelayTakes, RecordType, DivertHappened, shared, network
  <2>1. routes' = routes
    BY <1>16 DEF RelayTakes, shared
  <2>. QED BY <2>1, <2>e DEF Routed
<1>17. CASE UNCHANGED divertVars
  BY <1>0, <1>17 DEF divertVars, shared, network, Routed, Captured, Seen
<1>. QED
  BY <1>1, <1>2, <1>3, <1>4, <1>5, <1>6, <1>7, <1>8,
     <1>9, <1>10, <1>11, <1>12, <1>13, <1>14, <1>15, <1>16,
     <1>17
     DEF DivertNext, CaptureThread, ReceiveThread, BeatTask, Threads

\* Nothing that DivertOnce is about changes.
LEMMA OnceKept ==
  ASSUME DivertOnce, multipath' = multipath, numbers' = numbers,
         record'.injected = record.injected,
         \A p \in Paths : On(p, "route")' <=> On(p, "route")
  PROVE  DivertOnce'
<1>1. Used' = Used
  BY DEF Used
<1>2. Used \subseteq Paths
  BY PathsAssumption DEF Used
<1>3. Passed' = Passed
  BY <1>1, <1>2 DEF Passed
<1>. QED BY <1>3 DEF DivertOnce

\* A thread that is not bringing an answer goes on with something else.
LEMMA OnceMoves ==
  ASSUME DivertOnce, multipath' = multipath, numbers' = numbers,
         record'.injected = record.injected,
         NEW t \in Threads, \A s \in Threads \ {t} : threads'[s] = threads[s],
         ~On(t, "route"), threads'[t].pc # "route"
  PROVE  DivertOnce'
<1>1. \A p \in Paths : On(p, "route")' <=> On(p, "route")
  BY Who DEF On
<1>. QED BY <1>1, OnceKept

\* A path that has an answer in hand lets it go.
LEMMA OnePassed ==
  ASSUME DivertPhases, DivertOnce, NEW p \in Paths, On(p, "route"), ~On(p, "route")',
         multipath' = multipath, numbers' = numbers,
         \A s \in Threads \ {p} : threads'[s] = threads[s]
  PROVE  /\ Passed' = Passed \cup {p} /\ p \in Used /\ p \notin Passed
         /\ IsFiniteSet(Used) /\ IsFiniteSet(Passed) /\ Passed \subseteq Used
         /\ Cardinality(Passed) \in Nat /\ Cardinality(Used) \in 1 .. 2
         /\ Cardinality(Passed') = Cardinality(Passed) + 1
         /\ Cardinality(Passed) < Cardinality(Used)
<1>1. p \in Used /\ p \notin Passed /\ 0 \in numbers[p]
  BY DEF DivertPhases, On, Passed, DivertOnce
<1>2. Used' = Used /\ Used \subseteq Paths /\ Passed \subseteq Used
  BY PathsAssumption DEF Used, Passed
<1>3. Passed' = Passed \cup {p}
  <2>1. \A q \in Paths \ {p} : On(q, "route")' <=> On(q, "route")
    BY Who DEF On
  <2>. QED BY <1>1, <1>2, <2>1 DEF Passed
<1>4. IsFiniteSet(Used) /\ IsFiniteSet(Passed)
  BY <1>2, FS_Subset, PathsAssumption
<1>5. Cardinality(Passed') = Cardinality(Passed) + 1
  BY <1>1, <1>3, <1>4, FS_AddElement
<1>6. Cardinality(Used) \in 1 .. 2
  <2>1. CASE multipath
    BY <2>1, PathsAssumption DEF Used
  <2>2. CASE ~multipath
    <3>1. Cardinality({Primary}) = 1
      BY FS_Singleton, Zenon
    <3>. QED BY <2>2, <3>1 DEF Used
  <2>. QED BY <2>1, <2>2
<1>7. Cardinality(Passed \cup {p}) <= Cardinality(Used)
  <2>1. Passed \cup {p} \subseteq Used
    BY <1>1, <1>2
  <2>. QED BY <1>4, <2>1, FS_Subset
<1>8. Cardinality(Passed) \in Nat
  BY <1>4, FS_CardinalityType
<1>. QED BY <1>1, <1>2, <1>3, <1>4, <1>5, <1>6, <1>7, <1>8

\* Every step keeps what the paths' filters let through.
LEMMA DivertOnceStep ==
  DivertTypeOK /\ Told /\ DivertPhases /\ DivertOnce /\ [DivertNext]_divertVars => DivertOnce'
<1> SUFFICES ASSUME DivertTypeOK /\ Told /\ DivertPhases /\ DivertOnce, [DivertNext]_divertVars
             PROVE DivertOnce'
  OBVIOUS
<1> USE DivertAssumption, PathsAssumption
<1>0. ThreadType /\ SentType /\ BackType /\ DivertRestType /\ RecordType
  BY DivertParts
<1>1. CASE StartDivert
  <2>1. /\ multipath' = multipath /\ numbers' = numbers
        /\ record'.injected = record.injected
    BY <1>1 DEF StartDivert
  <2>2. \A p \in Paths : ~On(p, "route") /\ ~On(p, "route")'
    BY <1>1, Who DEF StartDivert, DivertPhases, On, Here
  <2>. QED BY <2>1, <2>2, OnceKept
<1>2. CASE StopDivert
  <2>1. /\ multipath' = multipath /\ numbers' = numbers /\ threads' = threads
        /\ record'.injected = record.injected
    BY <1>0, <1>2 DEF StopDivert, shared, network, RecordType, DivertHappened
  <2>. QED BY <2>1, OnceKept DEF On
<1>3. ASSUME NEW t \in Threads, OpenHandle(t) PROVE DivertOnce'
  <2>2. /\ \A s \in Threads \ {t} : threads'[s] = threads[s]
        /\ threads'[t].pc \in {Top.pc, "ended"} /\ t \in Threads
    BY <1>0, <1>3, OpenHandleMoves
  <2>3. /\ multipath' = multipath /\ numbers' = numbers
        /\ record'.injected = record.injected
    BY <1>0, <1>3 DEF OpenHandle, shared, network, RecordType, DivertHappened
  <2>4. ~On(t, "route") /\ threads'[t].pc # "route"
    BY <1>0, <1>3, <2>2, Who
       DEF OpenHandle, On, Top, Here, ThreadType, ThreadSet
  <2>. QED BY <2>2, <2>3, <2>4, OnceMoves
<1>4. ASSUME NEW t \in Threads, TimeOut(t) PROVE DivertOnce'
  <2>2. /\ \A s \in Threads \ {t} : threads'[s] = threads[s]
        /\ threads'[t].pc = Top.pc /\ t \in Threads
    BY <1>0, <1>4, TimeOutMoves
  <2>3. /\ multipath' = multipath /\ numbers' = numbers
        /\ record'.injected = record.injected
    BY <1>0, <1>4 DEF TimeOut, shared, network, RecordType, DivertHappened
  <2>4. ~On(t, "route") /\ threads'[t].pc # "route"
    BY <1>0, <1>4, <2>2, Who DEF TimeOut, On, Top, Here, ThreadType, ThreadSet
  <2>. QED BY <2>2, <2>3, <2>4, OnceMoves
<1>5. CASE Capture
  <2>2. /\ \A s \in Threads \ {"capture"} : threads'[s] = threads[s]
        /\ threads'["capture"].pc \in {"data", "name"} /\ "capture" \in Threads
    BY <1>0, <1>5, CaptureMoves
  <2>3. /\ multipath' = multipath /\ numbers' = numbers
        /\ record'.injected = record.injected
    BY <1>0, <1>5, NotedLate, Who DEF Capture, shared
  <2>4. ~On("capture", "route") /\ threads'["capture"].pc # "route"
    BY <1>0, <1>5, <2>2, Who DEF Capture, On, Top, Here, ThreadType, ThreadSet
  <2>. QED BY <2>2, <2>3, <2>4, OnceMoves
<1>6. ASSUME NEW p \in Paths, NameServer(p) PROVE DivertOnce'
  <2>2. /\ \A s \in Threads \ {"capture"} : threads'[s] = threads[s]
        /\ threads'["capture"].pc \in {"data", "name backup"} /\ "capture" \in Threads
    BY <1>0, <1>6, NameServerMoves
  <2>3. /\ multipath' = multipath /\ numbers' = numbers
        /\ record'.injected = record.injected
    BY <1>0, <1>6 DEF NameServer, shared, network, RecordType, DivertHappened
  <2>4. ~On("capture", "route") /\ threads'["capture"].pc # "route"
    BY <1>0, <1>6, <2>2, Who
       DEF NameServer, On, Top, Here, ThreadType, ThreadSet
  <2>. QED BY <2>2, <2>3, <2>4, OnceMoves
<1>7. CASE SendData
  <2>2. /\ \A s \in Threads \ {"capture"} : threads'[s] = threads[s]
        /\ threads'["capture"].pc \in {"data backup", Top.pc} /\ "capture" \in Threads
    BY <1>0, <1>7, SendDataMoves
  <2>3. /\ multipath' = multipath /\ numbers' = numbers
        /\ record'.injected = record.injected
    BY <1>0, <1>7 DEF SendData, shared, network, RecordType, DivertHappened
  <2>4. ~On("capture", "route") /\ threads'["capture"].pc # "route"
    BY <1>0, <1>7, <2>2, Who DEF SendData, On, Top, Here, ThreadType, ThreadSet
  <2>. QED BY <2>2, <2>3, <2>4, OnceMoves
<1>8. ASSUME NEW p \in Paths, SendCopy(p) PROVE DivertOnce'
  <2>2. /\ \A s \in Threads \ {"capture"} : threads'[s] = threads[s]
        /\ threads'["capture"].pc = Top.pc /\ "capture" \in Threads
    BY <1>0, <1>8, SendCopyMoves
  <2>3. /\ multipath' = multipath /\ numbers' = numbers
        /\ record'.injected = record.injected
    BY <1>0, <1>8 DEF SendCopy, shared, network, RecordType, DivertHappened
  <2>4. ~On("capture", "route") /\ threads'["capture"].pc # "route"
    BY <1>0, <1>8, <2>2, Who DEF SendCopy, On, Top, Here, ThreadType, ThreadSet
  <2>. QED BY <2>2, <2>3, <2>4, OnceMoves
<1>9. ASSUME NEW p \in Paths, NEW m \in back[p], Accept(p, m) PROVE DivertOnce'
  <2>2. /\ \A s \in Threads \ {p} : threads'[s] = threads[s]
        /\ threads'[p].pc = "route" /\ p \in Threads
    BY <1>0, <1>9, AcceptMoves
  <2>3. /\ m.seq = 0 /\ 0 \notin numbers[p]
        /\ numbers' = [numbers EXCEPT ![p] =
                         IF Cardinality(numbers[p] \cup {0}) > Limit
                         THEN {} ELSE numbers[p] \cup {0}]
    BY <1>9 DEF Accept, Fresh, Told
  <2>4. numbers[p] \cup {0} = {0}
    BY DEF DivertOnce
  <2>a. ~(Cardinality(numbers[p] \cup {0}) > Limit)
    <3>1. Cardinality({0}) = 1
      BY FS_Singleton, Zenon
    <3>2. Cardinality(numbers[p] \cup {0}) = 1
      BY <2>4, <3>1, Zenon
    <3>. QED BY <3>2
  <2>b. numbers' = [numbers EXCEPT ![p] = {0}]
    BY <2>3, <2>4, <2>a
  <2>5. \A q \in Paths : numbers'[q] = IF q = p THEN {0} ELSE numbers[q]
    BY <1>0, <2>b DEF DivertRestType
  <2>6. /\ On(p, "wait") /\ On(p, "route")'
        /\ \A q \in Paths \ {p} : On(q, "route")' <=> On(q, "route")
    BY <1>9, <2>2, Who DEF Accept, On
  <2>7. Used' = Used /\ Used \subseteq Paths /\ multipath' = multipath
    BY <1>9 DEF Accept, Used
  <2>8. Passed' = Passed
    BY <2>3, <2>5, <2>6, <2>7 DEF Passed, On
  <2>9. record'.injected = record.injected
    BY <1>0, <1>9, NotedLate, Who DEF Accept
  <2>. QED BY <2>5, <2>6, <2>8, <2>9 DEF DivertOnce
<1>10. ASSUME NEW p \in Paths, NEW m \in back[p], Discard(p, m) PROVE DivertOnce'
  <2>2. /\ \A s \in Threads \ {p} : threads'[s] = threads[s]
        /\ threads'[p].pc = Top.pc /\ p \in Threads
    BY <1>0, <1>10, DiscardMoves
  <2>3. /\ multipath' = multipath /\ numbers' = numbers
        /\ record'.injected = record.injected
    BY <1>0, <1>10, NotedLate, Who DEF Discard, shared
  <2>4. ~On(p, "route") /\ threads'[p].pc # "route"
    BY <1>0, <1>10, <2>2, Who DEF Discard, On, Top, Here, ThreadType, ThreadSet
  <2>. QED BY <2>2, <2>3, <2>4, OnceMoves
<1>11. ASSUME NEW p \in Paths, NEW v \in Servers, Inject(p, v) PROVE DivertOnce'
  <2>2. /\ \A s \in Threads \ {p} : threads'[s] = threads[s]
        /\ threads'[p].pc = Top.pc /\ p \in Threads
    BY <1>0, <1>11, InjectMoves
  <2>3. On(p, "route") /\ ~On(p, "route")' /\ multipath' = multipath /\ numbers' = numbers
    BY <1>11, <2>2 DEF Inject, On, Top, Here
  <2>4. /\ Passed' = Passed \cup {p} /\ Cardinality(Passed) \in Nat
        /\ Cardinality(Passed') = Cardinality(Passed) + 1
    BY <2>2, <2>3, OnePassed
  <2> DEFINE a == threads[p].packet
  <2>5. a \in Packets /\ record.injected \in [Packets -> 0 .. 3]
    BY <1>0, <2>3 DEF ThreadType, ThreadSet, RecordType, DivertHappened
  <2>6. record'.injected = [record.injected EXCEPT ![a] = Tally(@)]
    BY <1>0, <1>11 DEF Inject, RecordType, DivertHappened
  <2> HIDE DEF a
  <2>7. \A b \in Packets :
          /\ record'.injected[b] \in Nat /\ record.injected[b] \in Nat
          /\ record'.injected[b] <= record.injected[b] + 1
    BY <2>5, <2>6 DEF Tally
  <2>8. \A b \in Packets : record'.injected[b] <= Cardinality(Passed')
    BY <2>4, <2>7 DEF DivertOnce
  <2>9. /\ \A q \in Paths : On(q, "route")' => On(q, "route")
        /\ numbers' = numbers
    BY <2>2, <2>3, Who DEF On
  <2>. QED BY <2>8, <2>9 DEF DivertOnce
<1>12. ASSUME NEW p \in Paths, NoRoute(p) PROVE DivertOnce'
  <2>2. /\ \A s \in Threads \ {p} : threads'[s] = threads[s]
        /\ threads'[p].pc = Top.pc /\ p \in Threads
    BY <1>0, <1>12, NoRouteMoves
  <2>3. On(p, "route") /\ ~On(p, "route")' /\ multipath' = multipath /\ numbers' = numbers
    BY <1>12, <2>2 DEF NoRoute, On, Top, Here
  <2>4. /\ Passed' = Passed \cup {p} /\ Cardinality(Passed) \in Nat
        /\ Cardinality(Passed') = Cardinality(Passed) + 1
    BY <2>2, <2>3, OnePassed
  <2>7. \A b \in Packets :
          /\ record'.injected[b] \in Nat /\ record.injected[b] \in Nat
          /\ record'.injected[b] <= record.injected[b] + 1
    BY <1>0, <1>12 DEF NoRoute, RecordType, DivertHappened
  <2>8. \A b \in Packets : record'.injected[b] <= Cardinality(Passed')
    BY <2>4, <2>7 DEF DivertOnce
  <2>9. /\ \A q \in Paths : On(q, "route")' => On(q, "route")
        /\ numbers' = numbers
    BY <2>2, <2>3, Who DEF On
  <2>. QED BY <2>8, <2>9 DEF DivertOnce
<1>13. CASE Beat
  <2>2. /\ \A s \in Threads \ {"keepalive"} : threads'[s] = threads[s]
        /\ threads'["keepalive"].pc = "backup" /\ "keepalive" \in Threads
    BY <1>0, <1>13, BeatMoves
  <2>3. /\ multipath' = multipath /\ numbers' = numbers
        /\ record'.injected = record.injected
    BY <1>0, <1>13 DEF Beat, shared, network, RecordType, DivertHappened
  <2>4. ~On("keepalive", "route") /\ threads'["keepalive"].pc # "route"
    BY <1>0, <1>13, <2>2, Who DEF Beat, On, Top, Here, ThreadType, ThreadSet
  <2>. QED BY <2>2, <2>3, <2>4, OnceMoves
<1>14. CASE BeatBackup
  <2>2. /\ \A s \in Threads \ {"keepalive"} : threads'[s] = threads[s]
        /\ threads'["keepalive"].pc = Top.pc /\ "keepalive" \in Threads
    BY <1>0, <1>14, BeatBackupMoves
  <2>3. /\ multipath' = multipath /\ numbers' = numbers
        /\ record'.injected = record.injected
    BY <1>0, <1>14 DEF BeatBackup, shared, network, RecordType, DivertHappened
  <2>4. ~On("keepalive", "route") /\ threads'["keepalive"].pc # "route"
    BY <1>0, <1>14, <2>2, Who
       DEF BeatBackup, On, Top, Here, ThreadType, ThreadSet
  <2>. QED BY <2>2, <2>3, <2>4, OnceMoves
<1>15. ASSUME NEW a \in Packets, NEW f \in Flows, DriverTakes(a, f) PROVE DivertOnce'
  <2>1. /\ multipath' = multipath /\ numbers' = numbers /\ threads' = threads
        /\ record'.injected = record.injected
    BY <1>0, <1>15 DEF DriverTakes, shared, network, RecordType, DivertHappened
  <2>. QED BY <2>1, OnceKept DEF On
<1>16. ASSUME NEW p \in Paths, NEW m \in sent[p], RelayTakes(p, m) PROVE DivertOnce'
  <2>1. /\ multipath' = multipath /\ numbers' = numbers /\ threads' = threads
        /\ record'.injected = record.injected
    BY <1>0, <1>16 DEF RelayTakes, shared, network, RecordType, DivertHappened
  <2>. QED BY <2>1, OnceKept DEF On
<1>17. CASE UNCHANGED divertVars
  BY <1>0, <1>17 DEF divertVars, shared, network, DivertOnce, Passed, Used, On
<1>. QED
  BY <1>1, <1>2, <1>3, <1>4, <1>5, <1>6, <1>7, <1>8,
     <1>9, <1>10, <1>11, <1>12, <1>13, <1>14, <1>15, <1>16,
     <1>17
     DEF DivertNext, CaptureThread, ReceiveThread, BeatTask, Threads

\* What the capture thread and the datagrams are doing about names stays.
LEMMA NamingKept ==
  ASSUME Naming, multipath' = multipath, named' = named,
         threads'["capture"] = threads["capture"],
         On("capture", "name backup") =>
           record'.flow[threads["capture"].packet] = record.flow[threads["capture"].packet],
         \A p \in Paths : Controls(p)' = Controls(p) /\ Data(p)' = Data(p)
  PROVE  Naming'
<1>1. Used' = Used /\ Backups' = Backups /\ Used \subseteq Paths /\ Primary \in Paths
  BY PathsAssumption DEF Used, Backups
<1>2. \A label : On("capture", label)' <=> On("capture", label)
  BY DEF On
<1>3. \A p \in Paths : Silent(p)' <=> Silent(p)
  BY DEF Silent
<1>4. named' => ~On("capture", "off")' /\ ~On("capture", "open")'
  BY <1>2 DEF Naming
<1>5. ~named' \/ On("capture", "name")' => \A p \in Paths : Silent(p)'
  BY <1>2, <1>3 DEF Naming
<1>6. ~named' => threads'["capture"].pc \in {"off", "open", "wait", "ended"}
  BY DEF Naming
<1>7. On("capture", "name backup")' =>
        /\ Controls(Primary)' # {} /\ Data(Primary)' = {} /\ Backups' # {}
        /\ \A p \in Paths \ {Primary} : Silent(p)'
        /\ \A m \in Controls(Primary)' :
             m.names = record'.flow[threads'["capture"].packet][2]
  <2> SUFFICES ASSUME On("capture", "name backup")
               PROVE  /\ Controls(Primary)' # {} /\ Data(Primary)' = {} /\ Backups' # {}
                      /\ \A p \in Paths \ {Primary} : Silent(p)'
                      /\ \A m \in Controls(Primary)' :
                           m.names = record'.flow[threads'["capture"].packet][2]
    BY <1>2
  <2>1. Controls(Primary)' # {} /\ Data(Primary)' = {} /\ Backups' # {}
    BY <1>1 DEF Naming
  <2>2. \A p \in Paths \ {Primary} : Silent(p)'
    BY <1>3 DEF Naming
  <2>3. \A m \in Controls(Primary)' :
          m.names = record'.flow[threads'["capture"].packet][2]
    BY <1>1 DEF Naming
  <2>. QED BY <2>1, <2>2, <2>3
<1>8. named' /\ ~On("capture", "name")' /\ ~On("capture", "name backup")' =>
        \A p \in Used' : Controls(p)' # {}
  BY <1>1, <1>2 DEF Naming
<1>9. \A p, q \in Paths : \A m \in Controls(p)', n \in Controls(q)' : m.names = n.names
  <2> SUFFICES ASSUME NEW p \in Paths, NEW q \in Paths,
                      NEW m \in Controls(p)', NEW n \in Controls(q)'
               PROVE  m.names = n.names
    OBVIOUS
  <2>1. m \in Controls(p) /\ n \in Controls(q)
    OBVIOUS
  <2>2. \A r, s \in Paths : \A k \in Controls(r), l \in Controls(s) : k.names = l.names
    BY DEF Naming
  <2>. QED BY ZenonT(30), <2>1, <2>2
<1>10. \A p \in Paths : Data(p)' # {} => Controls(p)' # {}
  BY DEF Naming
<1>. QED BY <1>4, <1>5, <1>6, <1>7, <1>8, <1>9, <1>10 DEF Naming

\* The server has been named, and nobody names it again.
LEMMA NamingDone ==
  ASSUME Naming, multipath' = multipath, named',
         threads["capture"].pc \in {"wait", "data", "data backup"},
         named, threads'["capture"].pc \in {"wait", "data", "data backup", "ended"},
         \A p \in Paths : Controls(p)' = Controls(p),
         \A p \in Paths : Data(p)' # {} => Controls(p) # {}
  PROVE  Naming'
<1>1. Used' = Used /\ Used \subseteq Paths
  BY PathsAssumption DEF Used
<1>2. \A p \in Used' : Controls(p)' # {}
  BY <1>1 DEF Naming, On
<1>3. \A p, q \in Paths : \A m \in Controls(p)', n \in Controls(q)' : m.names = n.names
  <2> SUFFICES ASSUME NEW p \in Paths, NEW q \in Paths,
                      NEW m \in Controls(p)', NEW n \in Controls(q)'
               PROVE  m.names = n.names
    OBVIOUS
  <2>1. m \in Controls(p) /\ n \in Controls(q)
    OBVIOUS
  <2>2. \A r, s \in Paths : \A k \in Controls(r), l \in Controls(s) : k.names = l.names
    BY DEF Naming
  <2>3. \A k \in Controls(p), l \in Controls(q) : k.names = l.names
    BY <2>2
  <2>. QED BY <2>1, <2>3, Zenon
<1>4. \A p \in Paths : Data(p)' # {} => Controls(p)' # {}
  OBVIOUS
<1>5. /\ ~On("capture", "off")' /\ ~On("capture", "open")'
      /\ ~On("capture", "name")' /\ ~On("capture", "name backup")'
  BY DEF On
<1>. QED BY <1>2, <1>3, <1>4, <1>5 DEF Naming

\* A datagram that is not a control datagram.
LEMMA PostedOther ==
  ASSUME SentType, NEW p \in Paths, NEW kind, kind # "control", NEW n, NEW a,
         NEW v,
         Post(p, kind, n, a, v)
  PROVE  /\ \A q \in Paths : Controls(q)' = Controls(q)
         /\ \A q \in Paths : q # p \/ kind # "data" => Data(q)' = Data(q)
<1>1. /\ \A q \in Paths : sent[q] \subseteq sent'[q]
      /\ \A q \in Paths : \A m \in sent'[q] : m \in sent[q] \/ (q = p /\ m.kind = kind)
  BY Posted
<1>2. \A q \in Paths : Controls(q)' = Controls(q)
  BY <1>1 DEF Controls
<1>3. \A q \in Paths : q # p \/ kind # "data" => Data(q)' = Data(q)
  BY <1>1 DEF Data
<1>. QED BY <1>2, <1>3

\* A control datagram.
LEMMA PostedControl ==
  ASSUME SentType, NEW p \in Paths, NEW n, NEW v, Post(p, "control", n, None, v)
  PROVE  /\ \A q \in Paths : Data(q)' = Data(q)
         /\ \A q \in Paths \ {p} : Controls(q)' = Controls(q)
         /\ Controls(p)' # {}
         /\ \A m \in Controls(p)' : m \in Controls(p) \/ m.names = v
<1>1. /\ \A q \in Paths : sent[q] \subseteq sent'[q]
      /\ \A q \in Paths : \A m \in sent'[q] :
           m \in sent[q] \/ (q = p /\ m.kind = "control" /\ m.names = v)
      /\ \E m \in sent'[p] : m.kind = "control" /\ m.names = v
  BY Posted
<1>2. \A q \in Paths : Data(q)' = Data(q)
  BY <1>1 DEF Data
<1>3. \A q \in Paths \ {p} : Controls(q)' = Controls(q)
  BY <1>1 DEF Controls
<1>4. Controls(p)' # {} /\ \A m \in Controls(p)' : m \in Controls(p) \/ m.names = v
  BY <1>1 DEF Controls
<1>. QED BY <1>2, <1>3, <1>4

\* There is one backup path at most.
LEMMA OneBackup ==
  ASSUME NEW p \in Paths, p # Primary
  PROVE  Paths = {Primary, p}
<1> USE PathsAssumption
<1>1. IsFiniteSet(Paths \ {Primary}) /\ Cardinality(Paths \ {Primary}) = Cardinality(Paths) - 1
  BY FS_RemoveElement
<1> DEFINE R == Paths \ {Primary}
<1>2. IsFiniteSet(R \ {p}) /\ Cardinality(R \ {p}) = Cardinality(R) - 1
  BY <1>1, FS_RemoveElement
<1>3. Cardinality(R \ {p}) \in Nat
  BY <1>2, FS_CardinalityType
<1>4. Cardinality(R \ {p}) = 0
  <2>1. Cardinality(R) = Cardinality(Paths) - 1
    BY <1>1
  <2> HIDE DEF R
  <2>. QED BY <1>2, <1>3, <2>1
<1>5. R \ {p} = {}
  BY <1>2, <1>4, FS_EmptySet
<1>. QED BY <1>5

\* Every step keeps how the server is named.
LEMMA NamingStep ==
  DivertTypeOK /\ Held /\ Naming /\ [DivertNext]_divertVars => Naming'
<1> SUFFICES ASSUME DivertTypeOK /\ Held /\ Naming, [DivertNext]_divertVars
             PROVE Naming'
  OBVIOUS
<1> USE DivertAssumption, PathsAssumption
<1>0. ThreadType /\ SentType /\ BackType /\ DivertRestType /\ RecordType
  BY DivertParts
<1>1. CASE StartDivert
  <2>1. /\ sent' = sent /\ multipath' = multipath /\ named' = named
        /\ On("capture", "off") /\ threads'["capture"].pc = "open"
    BY <1>1, Who DEF StartDivert, network, Here
  <2>2. ~named /\ \A p \in Paths : Silent(p)
    BY <2>1 DEF Naming
  <2>3. /\ \A p \in Paths : Silent(p)' /\ Controls(p)' = {} /\ Data(p)' = {}
        /\ ~named'
    BY <2>1, <2>2 DEF Silent, Controls, Data
  <2>. QED BY <2>1, <2>3 DEF Naming, On
<1>2. CASE StopDivert
  <2>1. /\ sent' = sent /\ multipath' = multipath /\ named' = named /\ threads' = threads
        /\ record'.flow = record.flow
    BY <1>0, <1>2 DEF StopDivert, shared, network
  <2>. QED BY <2>1, NamingKept DEF Controls, Data
<1>3. ASSUME NEW t \in Threads, OpenHandle(t) PROVE Naming'
  <2>2. /\ \A s \in Threads \ {t} : threads'[s] = threads[s]
        /\ threads'[t].pc \in {Top.pc, "ended"} /\ t \in Threads
    BY <1>0, <1>3, OpenHandleMoves
  <2>e. record'.flow = record.flow /\ Captured' = Captured /\ Seen' = Seen
    BY <1>0, <1>3, SameFlows
       DEF OpenHandle, RecordType, DivertHappened, shared, network
  <2>3. sent' = sent /\ multipath' = multipath /\ named' = named /\ On(t, "open")
    BY <1>3 DEF OpenHandle, shared, network
  <2>4. CASE t # "capture"
    <3>1. threads'["capture"] = threads["capture"]
      BY <2>2, <2>4, Who
    <3>. QED BY <2>3, <3>1, <2>e, NamingKept DEF Controls, Data
  <2>5. CASE t = "capture"
    <3>1. ~named /\ \A p \in Paths : Silent(p)
      BY <2>3, <2>5 DEF Naming
    <3>2. /\ \A p \in Paths : Silent(p)' /\ Controls(p)' = {} /\ Data(p)' = {}
          /\ ~named'
      BY <2>3, <3>1 DEF Silent, Controls, Data
    <3>3. threads'["capture"].pc \in {"wait", "ended"}
      BY <2>2, <2>5 DEF Top, Here
    <3>. QED BY <3>2, <3>3 DEF Naming, On
  <2>. QED BY <2>4, <2>5
<1>4. ASSUME NEW t \in Threads, TimeOut(t) PROVE Naming'
  <2>2. /\ \A s \in Threads \ {t} : threads'[s] = threads[s]
        /\ threads'[t].pc = Top.pc /\ t \in Threads
    BY <1>0, <1>4, TimeOutMoves
  <2>e. record'.flow = record.flow /\ Captured' = Captured /\ Seen' = Seen
    BY <1>0, <1>4, SameFlows DEF TimeOut, RecordType, DivertHappened, shared, network
  <2>3. /\ sent' = sent /\ multipath' = multipath /\ named' = named
        /\ t # "capture"
    BY <1>4, Who DEF TimeOut, shared, network
  <2>4. threads'["capture"] = threads["capture"]
    BY <2>2, <2>3, Who
  <2>. QED BY <2>3, <2>4, <2>e, NamingKept DEF Controls, Data
<1>5. CASE Capture
  <2>1. Moved("capture", [pc |-> IF named THEN "data" ELSE "name", seq |-> 0,
                          packet |-> Head(queue)])
    BY <1>0, <1>5, CaptureMoves
  <2>2. /\ \A s \in Threads \ {"capture"} : threads'[s] = threads[s]
        /\ threads'["capture"].pc \in {"data", "name"} /\ "capture" \in Threads
    BY <1>0, <1>5, CaptureMoves
  <2>3. /\ sent' = sent /\ multipath' = multipath /\ named' = TRUE /\ On("capture", "wait")
        /\ threads'["capture"].pc = IF named THEN "data" ELSE "name"
    BY <1>5, <2>1, Who DEF Capture, Moved
  <2>4. \A p \in Paths : Controls(p)' = Controls(p) /\ Data(p)' = Data(p)
    BY <2>3 DEF Controls, Data
  <2>5. CASE named
    <3>1. \A p \in Paths : Data(p)' # {} => Controls(p) # {}
      BY <2>4 DEF Naming
    <3>. QED BY <2>3, <2>4, <2>5, <3>1, NamingDone DEF On
  <2>6. CASE ~named
    <3>1. \A p \in Paths : Silent(p)' /\ Controls(p)' = {} /\ Data(p)' = {}
      BY <2>4, <2>6 DEF Naming, Silent
    <3>2. threads'["capture"].pc = "name" /\ named'
      BY <2>3, <2>6
    <3>. QED BY <3>1, <3>2 DEF Naming, On
  <2>. QED BY <2>5, <2>6
<1>6. ASSUME NEW p \in Paths, NameServer(p) PROVE Naming'
  <2>1. Moved("capture", [threads["capture"] EXCEPT !.pc =
          IF p = Primary /\ Backups # {} THEN "name backup" ELSE "data"])
    BY <1>0, <1>6, NameServerMoves
  <2>2. /\ \A s \in Threads \ {"capture"} : threads'[s] = threads[s]
        /\ threads'["capture"].pc \in {"data", "name backup"} /\ "capture" \in Threads
    BY <1>0, <1>6, NameServerMoves
  <2>e. record'.flow = record.flow /\ Captured' = Captured /\ Seen' = Seen
    BY <1>0, <1>6, SameFlows
       DEF NameServer, RecordType, DivertHappened, shared, network
  <2> DEFINE v == record.flow[threads["capture"].packet][2]
  <2>3. /\ Post(p, "control", counter, None, v)
        /\ multipath' = multipath /\ named' = named
    BY <1>6 DEF NameServer
  <2>4. /\ \A q \in Paths : Data(q)' = Data(q)
        /\ \A q \in Paths \ {p} : Controls(q)' = Controls(q)
        /\ Controls(p)' # {}
        /\ \A m \in Controls(p)' : m \in Controls(p) \/ m.names = v
    BY <1>0, <2>3, PostedControl
  <2>5. v' = v
    <3>1. threads'["capture"].packet = threads["capture"].packet
      <4>1. \A label \in {"data", "name backup"} :
              [threads["capture"] EXCEPT !.pc = label].packet = threads["capture"].packet
        BY <1>0, Who DEF ThreadType, Thread
      <4>. QED BY <2>1, <4>1, Who DEF Moved
    <3>. QED BY <3>1, <2>e
  <2>6. Used' = Used /\ Backups' = Backups /\ Used \subseteq Paths /\ Primary \in Used
    BY <2>3, PathsAssumption DEF Used, Backups
  <2>n. named
    BY <1>6 DEF NameServer, Naming, On
  <2> HIDE DEF v
  <2>7. CASE p = Primary
    <3>1. /\ On("capture", "name")
          /\ threads'["capture"].pc = IF Backups # {} THEN "name backup" ELSE "data"
      BY <1>6, <1>0, <2>1, <2>7, Who DEF NameServer, Moved, ThreadType, Thread
    <3>2. \A q \in Paths : Controls(q) = {} /\ Data(q) = {}
      BY <3>1 DEF Naming, Silent
    <3>3. /\ \A q \in Paths : Data(q)' = {}
          /\ \A q \in Paths \ {Primary} : Controls(q)' = {} /\ Silent(q)'
          /\ \A m \in Controls(Primary)' : m.names = v
          /\ Controls(Primary)' # {}
      BY <2>4, <2>7, <3>2 DEF Silent
    <3>4. \A q, r \in Paths : \A k \in Controls(q)', l \in Controls(r)' : k.names = l.names
      BY <3>3
    <3>5. CASE Backups # {}
      <4>1. threads'["capture"].pc = "name backup"
        BY <3>1, <3>5
      <4>2. \A m \in Controls(Primary)' :
              m.names = record'.flow[threads'["capture"].packet][2]
        BY <3>3, <2>5 DEF v
      <4>. QED BY <4>1, <4>2, <3>3, <3>4, <3>5, <2>6, <2>n, <2>3 DEF Naming, On
    <3>6. CASE Backups = {}
      <4>1. threads'["capture"].pc = "data"
        BY <3>1, <3>6
      <4>2. Used = {Primary}
        BY <3>6, <2>6 DEF Backups
      <4>. QED BY <4>1, <4>2, <3>3, <3>4, <2>6, <2>n, <2>3 DEF Naming, On
    <3>. QED BY <3>5, <3>6
  <2>8. CASE p # Primary
    <3>1. On("capture", "name backup") /\ threads'["capture"].pc = "data"
      BY <1>6, <1>0, <2>1, <2>8, Who DEF NameServer, Moved, ThreadType, Thread
    <3>2. /\ Controls(Primary) # {} /\ Data(Primary) = {} /\ Silent(p)
          /\ \A m \in Controls(Primary) : m.names = v
      BY <3>1, <2>8 DEF Naming, v
    <3>3. Paths = {Primary, p}
      BY <2>8, OneBackup
    <3>4. /\ Controls(Primary)' = Controls(Primary)
          /\ \A m \in Controls(p)' : m.names = v
      BY <2>4, <2>8, <3>2, <3>3 DEF Silent
    <3>5. \A q \in Paths : Controls(q)' # {} /\ \A m \in Controls(q)' : m.names = v
      BY <2>4, <3>2, <3>3, <3>4
    <3>. QED BY <3>1, <3>5, <2>6, <2>n, <2>3 DEF Naming, On
  <2>. QED BY <2>7, <2>8
<1>7. CASE SendData
  <2>2. /\ \A s \in Threads \ {"capture"} : threads'[s] = threads[s]
        /\ threads'["capture"].pc \in {"data backup", Top.pc} /\ "capture" \in Threads
    BY <1>0, <1>7, SendDataMoves
  <2>3. Post(Primary, "data", counter, threads["capture"].packet, None)
    BY <1>7 DEF SendData
  <2>4. /\ Primary \in Used /\ Primary \in Paths /\ multipath' = multipath /\ named' = named
        /\ threads["capture"].pc \in {"data", "data backup"}
    BY <1>7, PathsAssumption DEF SendData, Used, Backups, On, shared
  <2>5. named /\ Controls(Primary) # {}
    BY <2>4 DEF Naming, On
  <2>6. /\ \A q \in Paths : Controls(q)' = Controls(q)
        /\ \A q \in Paths \ {Primary} : Data(q)' = Data(q)
    BY <1>0, <2>3, <2>4, PostedOther
  <2>7. \A q \in Paths : Data(q)' # {} => Controls(q) # {}
    BY <2>5, <2>6 DEF Naming
  <2>8. threads'["capture"].pc \in {"wait", "data", "data backup", "ended"}
    BY <2>2 DEF Top, Here
  <2>. QED BY <2>4, <2>5, <2>6, <2>7, <2>8, NamingDone
<1>8. ASSUME NEW p \in Paths, SendCopy(p) PROVE Naming'
  <2>2. /\ \A s \in Threads \ {"capture"} : threads'[s] = threads[s]
        /\ threads'["capture"].pc = Top.pc /\ "capture" \in Threads
    BY <1>0, <1>8, SendCopyMoves
  <2>3. Post(p, "data", threads["capture"].seq, threads["capture"].packet, None)
    BY <1>8 DEF SendCopy
  <2>4. /\ p \in Used /\ p \in Paths /\ multipath' = multipath /\ named' = named
        /\ threads["capture"].pc \in {"data", "data backup"}
    BY <1>8, PathsAssumption DEF SendCopy, Used, Backups, On, shared
  <2>5. named /\ Controls(p) # {}
    BY <2>4 DEF Naming, On
  <2>6. /\ \A q \in Paths : Controls(q)' = Controls(q)
        /\ \A q \in Paths \ {p} : Data(q)' = Data(q)
    BY <1>0, <2>3, <2>4, PostedOther
  <2>7. \A q \in Paths : Data(q)' # {} => Controls(q) # {}
    BY <2>5, <2>6 DEF Naming
  <2>8. threads'["capture"].pc \in {"wait", "data", "data backup", "ended"}
    BY <2>2 DEF Top, Here
  <2>. QED BY <2>4, <2>5, <2>6, <2>7, <2>8, NamingDone
<1>9. ASSUME NEW p \in Paths, NEW m \in back[p], Accept(p, m) PROVE Naming'
  <2>2. /\ \A s \in Threads \ {p} : threads'[s] = threads[s]
        /\ threads'[p].pc = "route" /\ p \in Threads
    BY <1>0, <1>9, AcceptMoves
  <2>f. record' = Noted(record, p) /\ p \in Threads
    BY <1>9, Who DEF Accept
  <2>e. record'.flow = record.flow /\ Captured' = Captured /\ Seen' = Seen
    BY <1>0, <2>f, NotedLate, SameFlows
  <2>3. /\ sent' = sent /\ multipath' = multipath /\ named' = named
        /\ p # "capture"
    BY <1>9, Who DEF Accept, shared, network
  <2>4. threads'["capture"] = threads["capture"]
    BY <2>2, <2>3, Who
  <2>. QED BY <2>3, <2>4, <2>e, NamingKept DEF Controls, Data
<1>10. ASSUME NEW p \in Paths, NEW m \in back[p], Discard(p, m) PROVE Naming'
  <2>2. /\ \A s \in Threads \ {p} : threads'[s] = threads[s]
        /\ threads'[p].pc = Top.pc /\ p \in Threads
    BY <1>0, <1>10, DiscardMoves
  <2>f. record' = Noted(record, p) /\ p \in Threads
    BY <1>10, Who DEF Discard
  <2>e. record'.flow = record.flow /\ Captured' = Captured /\ Seen' = Seen
    BY <1>0, <2>f, NotedLate, SameFlows
  <2>3. /\ sent' = sent /\ multipath' = multipath /\ named' = named
        /\ p # "capture"
    BY <1>10, Who DEF Discard, shared, network
  <2>4. threads'["capture"] = threads["capture"]
    BY <2>2, <2>3, Who
  <2>. QED BY <2>3, <2>4, <2>e, NamingKept DEF Controls, Data
<1>11. ASSUME NEW p \in Paths, NEW v \in Servers, Inject(p, v) PROVE Naming'
  <2>2. /\ \A s \in Threads \ {p} : threads'[s] = threads[s]
        /\ threads'[p].pc = Top.pc /\ p \in Threads
    BY <1>0, <1>11, InjectMoves
  <2>e. record'.flow = record.flow /\ Captured' = Captured /\ Seen' = Seen
    BY <1>0, <1>11, SameFlows DEF Inject, RecordType, DivertHappened, shared, network
  <2>3. /\ sent' = sent /\ multipath' = multipath /\ named' = named
        /\ p # "capture"
    BY <1>11, Who DEF Inject, shared, network
  <2>4. threads'["capture"] = threads["capture"]
    BY <2>2, <2>3, Who
  <2>. QED BY <2>3, <2>4, <2>e, NamingKept DEF Controls, Data
<1>12. ASSUME NEW p \in Paths, NoRoute(p) PROVE Naming'
  <2>2. /\ \A s \in Threads \ {p} : threads'[s] = threads[s]
        /\ threads'[p].pc = Top.pc /\ p \in Threads
    BY <1>0, <1>12, NoRouteMoves
  <2>e. record'.flow = record.flow /\ Captured' = Captured /\ Seen' = Seen
    BY <1>0, <1>12, SameFlows DEF NoRoute, RecordType, DivertHappened, shared, network
  <2>3. /\ sent' = sent /\ multipath' = multipath /\ named' = named
        /\ p # "capture"
    BY <1>12, Who DEF NoRoute, shared, network
  <2>4. threads'["capture"] = threads["capture"]
    BY <2>2, <2>3, Who
  <2>. QED BY <2>3, <2>4, <2>e, NamingKept DEF Controls, Data
<1>13. CASE Beat
  <2>2. /\ \A s \in Threads \ {"keepalive"} : threads'[s] = threads[s]
        /\ threads'["keepalive"].pc = "backup" /\ "keepalive" \in Threads
    BY <1>0, <1>13, BeatMoves
  <2>e. record'.flow = record.flow /\ Captured' = Captured /\ Seen' = Seen
    BY <1>0, <1>13, SameFlows DEF Beat, RecordType, DivertHappened, shared, network
  <2>p. Post(Primary, "keepalive", counter, None, None)
    BY <1>13 DEF Beat
  <2>3. \A q \in Paths : Controls(q)' = Controls(q) /\ Data(q)' = Data(q)
    BY <1>0, <2>p, PostedOther
  <2>4. /\ multipath' = multipath /\ named' = named
        /\ threads'["capture"] = threads["capture"]
    BY <1>13, <2>2, Who DEF Beat
  <2>. QED BY <2>3, <2>4, <2>e, NamingKept
<1>14. CASE BeatBackup
  <2>2. /\ \A s \in Threads \ {"keepalive"} : threads'[s] = threads[s]
        /\ threads'["keepalive"].pc = Top.pc /\ "keepalive" \in Threads
    BY <1>0, <1>14, BeatBackupMoves
  <2>e. record'.flow = record.flow /\ Captured' = Captured /\ Seen' = Seen
    BY <1>0, <1>14, SameFlows
       DEF BeatBackup, RecordType, DivertHappened, shared, network
  <2>p. sent' = sent \/ \E p \in Paths : Post(p, "keepalive", counter, None, None)
    BY <1>14 DEF BeatBackup, Backups, Used
  <2>3. \A q \in Paths : Controls(q)' = Controls(q) /\ Data(q)' = Data(q)
    <3>1. CASE sent' = sent
      BY <3>1 DEF Controls, Data
    <3>2. ASSUME NEW p \in Paths, Post(p, "keepalive", counter, None, None)
          PROVE  \A q \in Paths : Controls(q)' = Controls(q) /\ Data(q)' = Data(q)
      BY <1>0, <3>2, PostedOther
    <3>. QED BY <2>p, <3>1, <3>2
  <2>4. /\ multipath' = multipath /\ named' = named
        /\ threads'["capture"] = threads["capture"]
    BY <1>14, <2>2, Who DEF BeatBackup
  <2>. QED BY <2>3, <2>4, <2>e, NamingKept
<1>15. ASSUME NEW a \in Packets, NEW f \in Flows, DriverTakes(a, f)
       PROVE  Naming'
  <2>1. /\ sent' = sent /\ multipath' = multipath /\ named' = named /\ threads' = threads
        /\ \A b \in Captured : record'.flow[b] = record.flow[b]
    BY <1>0, <1>15 DEF DriverTakes, shared, RecordType, DivertHappened, Captured
  <2>2. On("capture", "name backup") => threads["capture"].packet \in Captured
    BY DEF Held, On
  <2>. QED BY <2>1, <2>2, NamingKept DEF Controls, Data
<1>16. ASSUME NEW p \in Paths, NEW m \in sent[p], RelayTakes(p, m) PROVE Naming'
  <2>1. /\ sent' = sent /\ multipath' = multipath /\ named' = named /\ threads' = threads
        /\ record'.flow = record.flow
    BY <1>0, <1>16 DEF RelayTakes, shared, network
  <2>. QED BY <2>1, NamingKept DEF Controls, Data
<1>17. CASE UNCHANGED divertVars
  <2>1. /\ multipath' = multipath /\ named' = named /\ threads' = threads
        /\ sent' = sent /\ record' = record
    BY <1>17 DEF divertVars, shared, network
  <2>. QED BY <2>1, NamingKept DEF Controls, Data
<1>. QED
  BY <1>1, <1>2, <1>3, <1>4, <1>5, <1>6, <1>7, <1>8,
     <1>9, <1>10, <1>11, <1>12, <1>13, <1>14, <1>15, <1>16,
     <1>17
     DEF DivertNext, CaptureThread, ReceiveThread, BeatTask, Threads

-----------------------------------------------------------------------------
\* What holds in every state.
DivertSound ==
  DivertTypeOK /\ DivertCarried /\ Astray /\ DivertPhases /\ DivertOnce /\ DivertLeaving /\ Naming

\* At the start there is nothing.
LEMMA DivertAtStart == DivertInit => DivertSound
<1> SUFFICES ASSUME DivertInit PROVE DivertSound OBVIOUS
<1> USE DivertAssumption, PathsAssumption DEF DivertInit
<1>a. multipath \in BOOLEAN
  OBVIOUS
<1>1. ThreadType
  BY Who DEF ThreadType, ThreadSet, Thread, Here, On
<1>2. SentType /\ BackType /\ DivertRestType
  <2>1. SentType /\ BackType
    BY DEF SentType, BackType
  <2>2. diverting \in BOOLEAN /\ named \in BOOLEAN /\ counter \in Nat
    OBVIOUS
  <2>5. queue \in Seq(Packets)
    <3>1. queue = << >>
      OBVIOUS
    <3>. QED BY <3>1, SMT
  <2>3. /\ routes \in [Servers -> Sockets \cup {None}]
        /\ numbers \in [Paths -> SUBSET Nat]
        /\ server \in [Paths -> Servers \cup {None}]
    OBVIOUS
  <2>4. DivertRestType
    BY <1>a, <2>2, <2>3, <2>5 DEF DivertRestType
  <2>. QED BY <2>1, <2>4
<1>3. RecordType
  BY DEF NoRecord, RecordType, DivertHappened
<1>4. Captured = {} /\ Seen = {}
  BY DEF Captured, Seen, NoRecord
<1>5. \A t \in Threads : On(t, "off") /\ threads[t].pc = "off"
  BY DEF On, Here
<1>6. DivertCarried
  <2>1. Held
    <3>1. queue = << >>
      OBVIOUS
    <3>2. \A i \in DOMAIN queue : queue[i] \in Captured
      BY <3>1
    <3>3. threads["capture"].pc = "off" /\ \A p \in Paths : ~On(p, "route")
      BY <1>5, Who DEF On
    <3>. QED BY <3>2, <3>3 DEF Held, On
  <2>2. Told /\ Routed
    BY DEF Told, Routed
  <2>. QED BY <2>1, <2>2 DEF DivertCarried
<1>7. Astray
  BY <1>4, FS_EmptySet DEF Astray, NoRecord
<1>8. DivertPhases
  BY <1>5, Who DEF DivertPhases
<1>9. DivertOnce
  <2>1. Passed = {}
    BY PathsAssumption DEF Passed, Used
  <2>2. \A a \in Packets : record.injected[a] = 0
    BY DEF NoRecord
  <2>. QED BY <1>5, <2>1, <2>2, FS_EmptySet, Who DEF DivertOnce, On
<1>10. DivertLeaving
  BY DEF DivertLeaving, NoRecord
<1>11. Naming
  <2>1. \A p \in Paths : Silent(p) /\ Controls(p) = {} /\ Data(p) = {}
    BY DEF Silent, Controls, Data
  <2>2. threads["capture"].pc = "off" /\ ~named
    BY <1>5, Who
  <2>. QED BY <2>1, <2>2 DEF Naming, On
<1>. QED BY <1>1, <1>2, <1>3, <1>6, <1>7, <1>8, <1>9, <1>10, <1>11, DivertParts
            DEF DivertSound

\* Every step keeps it.
LEMMA DivertSoundStep == DivertSound /\ [DivertNext]_divertVars => DivertSound'
<1> SUFFICES ASSUME DivertSound, [DivertNext]_divertVars PROVE DivertSound' OBVIOUS
<1>1. /\ DivertTypeOK /\ DivertCarried /\ Held /\ Told /\ Routed /\ Astray
      /\ DivertPhases /\ DivertOnce /\ DivertLeaving /\ Naming
  BY DEF DivertSound, DivertCarried
<1>2. DivertTypeOK'
  BY <1>1, ThreadTypeStep, SentTypeStep, BackTypeStep, DivertRestTypeStep, RecordTypeStep, DivertPartsNext
<1>3. DivertCarried'
  BY <1>1, HeldStep, ToldStep, RoutedStep DEF DivertCarried
<1>4. Astray' /\ DivertPhases' /\ DivertOnce' /\ DivertLeaving' /\ Naming'
  BY <1>1, AstrayStep, DivertPhasesStep, DivertOnceStep, DivertLeavingStep, NamingStep
<1>. QED BY <1>2, <1>3, <1>4 DEF DivertSound

\* So it holds in every state.
LEMMA DivertAlwaysSound == DivertSpec => []DivertSound
  BY DivertAtStart, DivertSoundStep, PTL DEF DivertSpec

\* Type correctness of the tunnel, its sockets and the relays' knowledge.
THEOREM DivertTyped == DivertSpec => []DivertTypeOK
<1>1. DivertSound => DivertTypeOK
  BY DEF DivertSound
<1>. QED BY <1>1, DivertAlwaysSound, PTL

\* No path carries the game's data before the datagram that names the server, and
\* one server is named (windivert.rs:179).
THEOREM ServerNamed == DivertSpec => []ServerNamedFirst
<1>1. DivertSound => ServerNamedFirst
  <2> SUFFICES ASSUME DivertSound PROVE ServerNamedFirst OBVIOUS
  <2>1. \A p \in Paths : \A m \in sent[p] : m.kind = "data" => Controls(p) # {}
    BY DEF DivertSound, Naming, Data
  <2>2. \A m, n \in UNION {Controls(p) : p \in Paths} : m.names = n.names
    <3>1. Naming
      BY DEF DivertSound
    <3>2. \A p, q \in Paths : \A m \in Controls(p), n \in Controls(q) : m.names = n.names
      BY <3>1 DEF Naming
    <3>. QED BY <3>2
  <2>. QED BY <2>1, <2>2 DEF ServerNamedFirst, Controls
<1>. QED BY <1>1, DivertAlwaysSound, PTL

\* An answer goes into another flow only when the game has used two
\* (windivert.rs:347).
THEOREM StrayNeedsFlows == DivertSpec => []AstrayNeedsFlows
<1>1. DivertSound => AstrayNeedsFlows
  BY DEF DivertSound, Astray, AstrayNeedsFlows, Seen
<1>. QED BY <1>1, DivertAlwaysSound, PTL

\* After stop() a thread handles one packet more at most (windivert.rs:517).
THEOREM OneMoreThread == DivertSpec => []OneMorePerThread
<1>1. DivertSound => OneMorePerThread
  BY DEF DivertSound, DivertLeaving, OneMorePerThread
<1>. QED BY <1>1, DivertAlwaysSound, PTL
-----------------------------------------------------------------------------
(* The transparent tunnel as a tunnel.                                     *)

DivertLeft == {p \in Used : ~On(p, "ended")}

\* A step by which the tunnel goes from one state to the next, or stutters.
DivertMapped == [D!Next]_(D!vars)

\* The tunnel's view of a state is these five things.
LEMMA DivertStutter ==
  ASSUME multipath' = multipath, DivertPhase' = DivertPhase,
         Captured' = Captured,
         record'.injected = record.injected, DivertLeft' = DivertLeft
  PROVE  DivertMapped
<1>1. Used' = Used
  BY DEF Used
<1>. QED BY <1>1 DEF DivertMapped, D!vars, DivertLeft

\* A thread of a started tunnel goes on: one path may leave.
LEMMA DivertOneMoves ==
  ASSUME DivertSound, DivertSound', NEW t \in Threads, ~On(t, "off"), ~On(t, "ended"),
         ~On(t, "off")', \A s \in Threads \ {t} : threads'[s] = threads[s],
         multipath' = multipath, diverting' = diverting, Captured' = Captured,
         record'.injected = record.injected
  PROVE  DivertMapped
<1>1. Used' = Used /\ Used \subseteq Paths
  BY PathsAssumption DEF Used
<1>2. ~On("capture", "off") /\ ~On("capture", "off")'
  <2>1. ~On("capture", "off")
    BY DEF DivertSound, DivertPhases
  <2>2. CASE t = "capture"
    BY <2>1, <2>2
  <2>3. CASE t # "capture"
    BY <2>1, <2>3, Who DEF On
  <2>. QED BY <2>1, <2>2, <2>3
<1>3. DivertPhase' = DivertPhase /\ DivertPhase # "new"
  BY <1>2 DEF DivertPhase
<1>4. CASE t \in Used /\ On(t, "ended")'
  <2>1. \A s \in Paths \ {t} : On(s, "ended")' <=> On(s, "ended")
    BY Who DEF On
  <2>2. DivertLeft' = DivertLeft \ {t} /\ t \in DivertLeft
    BY <1>1, <1>4, <2>1 DEF DivertLeft
  <2>. QED BY <1>1, <1>3, <1>4, <2>2 DEF DivertMapped, D!Next, D!Leave, DivertLeft
<1>5. CASE ~(t \in Used /\ On(t, "ended")')
  <2>1. \A s \in Used : On(s, "ended")' <=> On(s, "ended")
    BY <1>1, <1>5, Who DEF On
  <2>2. DivertLeft' = DivertLeft
    BY <1>1, <2>1 DEF DivertLeft
  <2>. QED BY <1>3, <2>2, DivertStutter
<1>. QED BY <1>4, <1>5

\* Every step of the transparent tunnel is a step of the tunnel, or none.
LEMMA DivertMappedStep == DivertSound /\ DivertSound' /\ [DivertNext]_divertVars => DivertMapped
<1> SUFFICES ASSUME DivertSound /\ DivertSound', [DivertNext]_divertVars
             PROVE DivertMapped
  OBVIOUS
<1> USE DivertAssumption, PathsAssumption
<1>b. DivertSound /\ DivertSound'
  OBVIOUS
<1>c. DivertTypeOK /\ DivertCarried /\ DivertPhases /\ DivertOnce
  BY DEF DivertSound
<1>0. ThreadType /\ SentType /\ BackType /\ DivertRestType /\ RecordType
  BY <1>c, DivertParts
<1>1. CASE StartDivert
  <2>1. /\ On("capture", "off") /\ ~On("capture", "off")' /\ diverting'
        /\ record' = record /\ multipath' = multipath
        /\ \A p \in Paths : ~On(p, "ended")'
    BY <1>1, Who DEF StartDivert, On, Here
  <2>2. DivertPhase = "new" /\ DivertPhase' = "open"
    BY <2>1 DEF DivertPhase
  <2>3. \A p \in Paths : ~On(p, "ended")
    BY <1>c, <2>1, Who DEF DivertPhases, On
  <2>4. Used' = Used /\ Used \subseteq Paths /\ Captured' = Captured
    BY <2>1, PathsAssumption DEF Used, Captured
  <2>5. DivertLeft' = DivertLeft
    BY <2>1, <2>3, <2>4 DEF DivertLeft
  <2>. QED BY <2>1, <2>2, <2>4, <2>5 DEF DivertMapped, D!Next, D!Open, DivertLeft
<1>2. CASE StopDivert
  <2>1. /\ diverting /\ ~diverting' /\ threads' = threads /\ record' = record
        /\ multipath' = multipath
    BY <1>2 DEF StopDivert
  <2>2. DivertPhase = "open" /\ DivertPhase' = "closed"
    BY <1>c, <2>1 DEF DivertPhase, DivertPhases, On
  <2>3. DivertLeft' = DivertLeft /\ Captured' = Captured /\ Used' = Used
    BY <2>1 DEF DivertLeft, Captured, Used, On
  <2>. QED BY <2>1, <2>2, <2>3 DEF DivertMapped, D!Next, D!Close, DivertLeft
<1>3. ASSUME NEW t \in Threads, OpenHandle(t) PROVE DivertMapped
  <2>2. /\ \A s \in Threads \ {t} : threads'[s] = threads[s]
        /\ threads'[t].pc \in {Top.pc, "ended"} /\ t \in Threads
    BY <1>0, <1>3, OpenHandleMoves
  <2>e. record'.flow = record.flow /\ Captured' = Captured /\ Seen' = Seen
    BY <1>0, <1>3, SameFlows
       DEF OpenHandle, RecordType, DivertHappened, shared, network
  <2>3. /\ record'.injected = record.injected
        /\ multipath' = multipath /\ diverting' = diverting
    BY <1>0, <1>3 DEF OpenHandle, shared, network, RecordType, DivertHappened
  <2>4. ~On(t, "off") /\ ~On(t, "ended") /\ ~On(t, "off")'
    BY <1>3, <2>2 DEF OpenHandle, On, Top, Here
  <2>. QED BY <1>b, <2>2, <2>3, <2>4, <2>e, DivertOneMoves
<1>4. ASSUME NEW t \in Threads, TimeOut(t) PROVE DivertMapped
  <2>2. /\ \A s \in Threads \ {t} : threads'[s] = threads[s]
        /\ threads'[t].pc = Top.pc /\ t \in Threads
    BY <1>0, <1>4, TimeOutMoves
  <2>e. record'.flow = record.flow /\ Captured' = Captured /\ Seen' = Seen
    BY <1>0, <1>4, SameFlows DEF TimeOut, RecordType, DivertHappened, shared, network
  <2>3. /\ record'.injected = record.injected
        /\ multipath' = multipath /\ diverting' = diverting
    BY <1>0, <1>4 DEF TimeOut, shared, network, RecordType, DivertHappened
  <2>4. ~On(t, "off") /\ ~On(t, "ended") /\ ~On(t, "off")'
    BY <1>4, <2>2 DEF TimeOut, On, Top, Here
  <2>. QED BY <1>b, <2>2, <2>3, <2>4, <2>e, DivertOneMoves
<1>5. CASE Capture
  <2>2. /\ \A s \in Threads \ {"capture"} : threads'[s] = threads[s]
        /\ threads'["capture"].pc \in {"data", "name"} /\ "capture" \in Threads
    BY <1>0, <1>5, CaptureMoves
  <2>f. record' = Noted(record, "capture") /\ "capture" \in Threads
    BY <1>5, Who DEF Capture
  <2>e. record'.flow = record.flow /\ Captured' = Captured /\ Seen' = Seen
    BY <1>0, <2>f, NotedLate, SameFlows
  <2>3. /\ record'.injected = record.injected
        /\ multipath' = multipath /\ diverting' = diverting
    BY <1>0, <1>5, NotedLate, Who DEF Capture, shared
  <2>4. ~On("capture", "off") /\ ~On("capture", "ended") /\ ~On("capture", "off")'
    BY <1>5, <2>2 DEF Capture, On, Top, Here
  <2>. QED BY <1>b, <2>2, <2>3, <2>4, <2>e, DivertOneMoves
<1>6. ASSUME NEW p \in Paths, NameServer(p) PROVE DivertMapped
  <2>2. /\ \A s \in Threads \ {"capture"} : threads'[s] = threads[s]
        /\ threads'["capture"].pc \in {"data", "name backup"} /\ "capture" \in Threads
    BY <1>0, <1>6, NameServerMoves
  <2>e. record'.flow = record.flow /\ Captured' = Captured /\ Seen' = Seen
    BY <1>0, <1>6, SameFlows
       DEF NameServer, RecordType, DivertHappened, shared, network
  <2>3. /\ record'.injected = record.injected
        /\ multipath' = multipath /\ diverting' = diverting
    BY <1>0, <1>6 DEF NameServer, shared, network, RecordType, DivertHappened
  <2>4. ~On("capture", "off") /\ ~On("capture", "ended") /\ ~On("capture", "off")'
    BY <1>6, <2>2 DEF NameServer, On, Top, Here
  <2>. QED BY <1>b, <2>2, <2>3, <2>4, <2>e, DivertOneMoves
<1>7. CASE SendData
  <2>2. /\ \A s \in Threads \ {"capture"} : threads'[s] = threads[s]
        /\ threads'["capture"].pc \in {"data backup", Top.pc} /\ "capture" \in Threads
    BY <1>0, <1>7, SendDataMoves
  <2>e. record'.flow = record.flow /\ Captured' = Captured /\ Seen' = Seen
    BY <1>0, <1>7, SameFlows DEF SendData, RecordType, DivertHappened, shared, network
  <2>3. /\ record'.injected = record.injected
        /\ multipath' = multipath /\ diverting' = diverting
    BY <1>0, <1>7 DEF SendData, shared, network, RecordType, DivertHappened
  <2>4. ~On("capture", "off") /\ ~On("capture", "ended") /\ ~On("capture", "off")'
    BY <1>7, <2>2 DEF SendData, On, Top, Here
  <2>. QED BY <1>b, <2>2, <2>3, <2>4, <2>e, DivertOneMoves
<1>8. ASSUME NEW p \in Paths, SendCopy(p) PROVE DivertMapped
  <2>2. /\ \A s \in Threads \ {"capture"} : threads'[s] = threads[s]
        /\ threads'["capture"].pc = Top.pc /\ "capture" \in Threads
    BY <1>0, <1>8, SendCopyMoves
  <2>e. record'.flow = record.flow /\ Captured' = Captured /\ Seen' = Seen
    BY <1>0, <1>8, SameFlows DEF SendCopy, RecordType, DivertHappened, shared, network
  <2>3. /\ record'.injected = record.injected
        /\ multipath' = multipath /\ diverting' = diverting
    BY <1>0, <1>8 DEF SendCopy, shared, network, RecordType, DivertHappened
  <2>4. ~On("capture", "off") /\ ~On("capture", "ended") /\ ~On("capture", "off")'
    BY <1>8, <2>2 DEF SendCopy, On, Top, Here
  <2>. QED BY <1>b, <2>2, <2>3, <2>4, <2>e, DivertOneMoves
<1>9. ASSUME NEW p \in Paths, NEW m \in back[p], Accept(p, m) PROVE DivertMapped
  <2>2. /\ \A s \in Threads \ {p} : threads'[s] = threads[s]
        /\ threads'[p].pc = "route" /\ p \in Threads
    BY <1>0, <1>9, AcceptMoves
  <2>f. record' = Noted(record, p) /\ p \in Threads
    BY <1>9, Who DEF Accept
  <2>e. record'.flow = record.flow /\ Captured' = Captured /\ Seen' = Seen
    BY <1>0, <2>f, NotedLate, SameFlows
  <2>3. /\ record'.injected = record.injected
        /\ multipath' = multipath /\ diverting' = diverting
    BY <1>0, <1>9, NotedLate, Who DEF Accept, shared
  <2>4. ~On(p, "off") /\ ~On(p, "ended") /\ ~On(p, "off")'
    BY <1>9, <2>2 DEF Accept, On, Top, Here
  <2>. QED BY <1>b, <2>2, <2>3, <2>4, <2>e, DivertOneMoves
<1>10. ASSUME NEW p \in Paths, NEW m \in back[p], Discard(p, m) PROVE DivertMapped
  <2>2. /\ \A s \in Threads \ {p} : threads'[s] = threads[s]
        /\ threads'[p].pc = Top.pc /\ p \in Threads
    BY <1>0, <1>10, DiscardMoves
  <2>f. record' = Noted(record, p) /\ p \in Threads
    BY <1>10, Who DEF Discard
  <2>e. record'.flow = record.flow /\ Captured' = Captured /\ Seen' = Seen
    BY <1>0, <2>f, NotedLate, SameFlows
  <2>3. /\ record'.injected = record.injected
        /\ multipath' = multipath /\ diverting' = diverting
    BY <1>0, <1>10, NotedLate, Who DEF Discard, shared
  <2>4. ~On(p, "off") /\ ~On(p, "ended") /\ ~On(p, "off")'
    BY <1>10, <2>2 DEF Discard, On, Top, Here
  <2>. QED BY <1>b, <2>2, <2>3, <2>4, <2>e, DivertOneMoves
<1>11. ASSUME NEW p \in Paths, NEW v \in Servers, Inject(p, v) PROVE DivertMapped
  <2>2. /\ \A s \in Threads \ {p} : threads'[s] = threads[s]
        /\ threads'[p].pc = Top.pc /\ p \in Threads
    BY <1>0, <1>11, InjectMoves
  <2>e. record'.flow = record.flow /\ Captured' = Captured /\ Seen' = Seen
    BY <1>0, <1>11, SameFlows DEF Inject, RecordType, DivertHappened, shared, network
  <2> DEFINE a == threads[p].packet
  <2>3. /\ On(p, "route") /\ ~On(p, "route")' /\ multipath' = multipath
        /\ numbers' = numbers /\ diverting' = diverting
    BY <1>11, <2>2 DEF Inject, On, Top, Here, shared
  <2>4. /\ p \in Used /\ Cardinality(Passed) \in Nat /\ Cardinality(Used) \in 1 .. 2
        /\ Cardinality(Passed) < Cardinality(Used)
    BY <1>c, <2>2, <2>3, OnePassed
  <2>5. a \in Packets /\ a \in Captured /\ record.injected \in [Packets -> 0 .. 3]
    BY <1>0, <1>c, <2>3
       DEF ThreadType, ThreadSet, RecordType, DivertHappened, DivertCarried, Held
  <2>6. record'.injected = [record.injected EXCEPT ![a] = Tally(@)]
    BY <1>0, <1>11 DEF Inject, RecordType, DivertHappened
  <2> HIDE DEF a
  <2>7. /\ record.injected[a] < Cardinality(Used)
        /\ record'.injected = [record.injected EXCEPT ![a] = @ + 1]
    <3>1. record.injected[a] <= Cardinality(Passed)
      BY <1>c, <2>5 DEF DivertOnce
    <3>2. record.injected[a] < Cardinality(Used) /\ record.injected[a] < 3
      BY <3>1, <2>4, <2>5
    <3>. QED BY <2>5, <2>6, <3>2 DEF Tally
  <2>8. /\ ~On("capture", "off") /\ ~On("capture", "off")'
        /\ Used' = Used /\ Used \subseteq Paths
    BY <1>c, <2>2, <2>3, Who, PathsAssumption DEF DivertPhases, On, Used
  <2>9. /\ DivertPhase' = DivertPhase /\ DivertPhase # "new"
        /\ DivertPhase = "open" <=> diverting
    BY <2>3, <2>8 DEF DivertPhase
  <2>10. p \in DivertLeft /\ DivertLeft' = IF diverting THEN DivertLeft ELSE DivertLeft \ {p}
    <3>1. \A s \in Paths \ {p} : On(s, "ended")' <=> On(s, "ended")
      BY <2>2, Who DEF On
    <3>2. ~On(p, "ended") /\ (On(p, "ended")' <=> ~diverting)
      BY <2>2, <2>3 DEF On, Top, Here
    <3>. QED BY <2>4, <2>8, <3>1, <3>2 DEF DivertLeft
  <2>. QED BY <2>3, <2>5, <2>7, <2>8, <2>9, <2>10, <2>e
              DEF DivertMapped, D!Next, D!Answer, DivertLeft
<1>12. ASSUME NEW p \in Paths, NoRoute(p) PROVE DivertMapped
  <2>2. /\ \A s \in Threads \ {p} : threads'[s] = threads[s]
        /\ threads'[p].pc = Top.pc /\ p \in Threads
    BY <1>0, <1>12, NoRouteMoves
  <2>e. record'.flow = record.flow /\ Captured' = Captured /\ Seen' = Seen
    BY <1>0, <1>12, SameFlows DEF NoRoute, RecordType, DivertHappened, shared, network
  <2>3. /\ record'.injected = record.injected
        /\ multipath' = multipath /\ diverting' = diverting
    BY <1>0, <1>12 DEF NoRoute, shared, network, RecordType, DivertHappened
  <2>4. ~On(p, "off") /\ ~On(p, "ended") /\ ~On(p, "off")'
    BY <1>12, <2>2 DEF NoRoute, On, Top, Here
  <2>. QED BY <1>b, <2>2, <2>3, <2>4, <2>e, DivertOneMoves
<1>13. CASE Beat
  <2>2. /\ \A s \in Threads \ {"keepalive"} : threads'[s] = threads[s]
        /\ threads'["keepalive"].pc = "backup" /\ "keepalive" \in Threads
    BY <1>0, <1>13, BeatMoves
  <2>e. record'.flow = record.flow /\ Captured' = Captured /\ Seen' = Seen
    BY <1>0, <1>13, SameFlows DEF Beat, RecordType, DivertHappened, shared, network
  <2>3. /\ record'.injected = record.injected
        /\ multipath' = multipath /\ diverting' = diverting
    BY <1>0, <1>13 DEF Beat, shared, network, RecordType, DivertHappened
  <2>4. ~On("keepalive", "off") /\ ~On("keepalive", "ended") /\ ~On("keepalive", "off")'
    BY <1>13, <2>2 DEF Beat, On, Top, Here
  <2>. QED BY <1>b, <2>2, <2>3, <2>4, <2>e, DivertOneMoves
<1>14. CASE BeatBackup
  <2>2. /\ \A s \in Threads \ {"keepalive"} : threads'[s] = threads[s]
        /\ threads'["keepalive"].pc = Top.pc /\ "keepalive" \in Threads
    BY <1>0, <1>14, BeatBackupMoves
  <2>e. record'.flow = record.flow /\ Captured' = Captured /\ Seen' = Seen
    BY <1>0, <1>14, SameFlows
       DEF BeatBackup, RecordType, DivertHappened, shared, network
  <2>3. /\ record'.injected = record.injected
        /\ multipath' = multipath /\ diverting' = diverting
    BY <1>0, <1>14 DEF BeatBackup, shared, network, RecordType, DivertHappened
  <2>4. ~On("keepalive", "off") /\ ~On("keepalive", "ended") /\ ~On("keepalive", "off")'
    BY <1>14, <2>2 DEF BeatBackup, On, Top, Here
  <2>. QED BY <1>b, <2>2, <2>3, <2>4, <2>e, DivertOneMoves
<1>15. ASSUME NEW a \in Packets, NEW f \in Flows, DriverTakes(a, f) PROVE DivertMapped
  <2>1. /\ a \notin Captured /\ ~On("capture", "off") /\ Captured' = Captured \cup {a}
        /\ threads' = threads /\ diverting' = diverting /\ multipath' = multipath
    BY <1>0, <1>15, OneMoreFlow DEF DriverTakes, shared
  <2>2. record'.injected = record.injected
    BY <1>0, <1>15 DEF DriverTakes, RecordType, DivertHappened
  <2>3. /\ DivertPhase # "new" /\ DivertPhase' = DivertPhase
        /\ DivertLeft' = DivertLeft /\ Used' = Used
    BY <2>1 DEF DivertPhase, On, DivertLeft, Used
  <2>. QED BY <2>1, <2>2, <2>3 DEF DivertMapped, D!Next, D!Ask, DivertLeft
<1>16. ASSUME NEW p \in Paths, NEW m \in sent[p], RelayTakes(p, m) PROVE DivertMapped
  <2>1. /\ threads' = threads /\ diverting' = diverting /\ multipath' = multipath
        /\ record' = record
    BY <1>16 DEF RelayTakes, shared
  <2>2. DivertPhase' = DivertPhase /\ DivertLeft' = DivertLeft /\ Captured' = Captured
    BY <2>1 DEF DivertPhase, On, DivertLeft, Used, Captured
  <2>. QED BY <2>1, <2>2, DivertStutter
<1>17. CASE UNCHANGED divertVars
  BY <1>17, DivertStutter
     DEF divertVars, shared, network, DivertPhase, Captured, DivertLeft, Used, On
<1>. QED
  BY <1>1, <1>2, <1>3, <1>4, <1>5, <1>6, <1>7, <1>8,
     <1>9, <1>10, <1>11, <1>12, <1>13, <1>14, <1>15, <1>16,
     <1>17
     DEF DivertNext, CaptureThread, ReceiveThread, BeatTask, Threads

\* As far as safety goes, the transparent tunnel is a tunnel that brings an answer
\* once per path.  (DivertPerPath of the runs adds that a closed tunnel's paths
\* leave.)
THEOREM DivertIsTunnel == DivertSpec => D!Spec
<1>1. DivertInit => D!Init
  <2> SUFFICES ASSUME DivertInit PROVE D!Init OBVIOUS
  <2>1. Cardinality(Used) \in Nat
    <3>1. Used \subseteq Paths
      BY PathsAssumption DEF Used
    <3>. QED BY <3>1, FS_Subset, FS_CardinalityType, PathsAssumption
  <2>2. DivertPhase = "new"
    BY Who DEF DivertInit, DivertPhase, On, Here
  <2>3. Captured = {} /\ record.injected = [a \in Packets |-> 0]
    BY DEF DivertInit, NoRecord, Captured
  <2>4. {p \in Used : ~On(p, "ended")} \in SUBSET Paths
    BY PathsAssumption DEF Used
  <2>. QED BY <2>1, <2>2, <2>3, <2>4 DEF D!Init
<1>2. DivertSound /\ DivertSound' /\ [DivertNext]_divertVars => [D!Next]_(D!vars)
  BY DivertMappedStep DEF DivertMapped
<1>. QED BY <1>1, <1>2, DivertAlwaysSound, PTL DEF DivertSpec, D!Spec
-----------------------------------------------------------------------------
(* The boost a client runs: the proxy or the transparent tunnel.           *)

\* A boost is a behaviour of the proxy and one of the transparent tunnel; the one
\* that was not started does nothing.
THEOREM BoostRunsTunnels == BoostSpec => Spec /\ DivertSpec
<1>1. BoostInit => Init /\ DivertInit
  BY DEF BoostInit
<1>2. [BoostNext]_boostVars => [Next]_vars /\ [DivertNext]_divertVars
  BY DEF BoostNext, boostVars, Either
<1>. QED BY <1>1, <1>2, PTL DEF BoostSpec, Spec, DivertSpec

\* In every reachable state of a boost both tunnels' variables have their types.
THEOREM BoostTyped == BoostSpec => []BoostTypeOK
<1>1. TypeOK /\ DivertTypeOK => BoostTypeOK
  BY DEF BoostTypeOK
<1>. QED BY <1>1, BoostRunsTunnels, ProxyTyped, DivertTyped, PTL

\* After the stop of a boost each task or thread handles the packet it has, or
\* the next one it waits for, and no other (udp_proxy.rs:375, windivert.rs:517).
THEOREM OneMoreOfBoost == BoostSpec => []OneMoreAfterStop
<1>1. OneMoreAtMost /\ OneMorePerThread => OneMoreAfterStop
  BY DEF OneMoreAfterStop
<1>. QED BY <1>1, BoostRunsTunnels, OneMore, OneMoreThread, PTL

\* Whichever tunnel a boost runs, it keeps what Tunnel.tla promises to the game,
\* as far as safety goes: answers only to what was asked, once or once per path,
\* and one more per carrier at most once it is stopped.
THEOREM BoostIsTunnel == BoostSpec => P!Spec /\ D!Spec
BY BoostRunsTunnels, ProxyIsTunnel, DivertIsTunnel, PTL
=============================================================================
