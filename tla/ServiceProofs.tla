---------------------------- MODULE ServiceProofs ----------------------------
(***************************************************************************)
(* Proofs about SessionService, for any users, nodes, locations, sessions  *)
(* and handlers, with relay calls lost and late.                           *)
(*                                                                         *)
(* What a relay hears is what a handler has learnt, and that is what the   *)
(* row says: Placed relates the handlers, the wire and the relays to the   *)
(* rows.  That a user has one active session rests on Alone and Clear,     *)
(* which need that the user's calls do not overlap.                        *)
(*                                                                         *)
(* Each action replaces one handler's call: the lemmas named after actions *)
(* say by which one, and the invariants are shown from that.               *)
(***************************************************************************)
EXTENDS SessionService, FiniteSetTheorems, TLAPS

\* Past the commit of a start, before the last call to a relay.
Registering == {"primary", "waitPrimary", "backup relay", "waitBackup"}

\* Whoever registers a session knows the nodes of its row.
PlacedCall(c) ==
  c.op = "start" /\ c.pc \in Registering =>
    /\ rows[c.session].status # "none"
    /\ rows[c.session].node = c.node /\ rows[c.session].backup = c.backup

\* Node n may serve session s.
Serves(n, s) ==
  rows[s].status # "none" /\ n \in {rows[s].node, rows[s].backup}

\* So does every request to register it, and every relay that has it.
Placed ==
  /\ \A h \in Handlers : PlacedCall(calls[h])
  /\ \A m \in wire : m.op = "start" => Serves(m.to, m.session)
  /\ \A n \in Nodes : \A s \in relay[n] : Serves(n, s)

\* A stop has found its row, and a start that is done has made one.
Learnt ==
  \A h \in Handlers :
    /\ calls[h].pc = "stop" => rows[calls[h].session].status # "none"
    /\ calls[h].pc = "done" /\ calls[h].op = "start" => calls[h].session \in Sessions

\* b is a backup for n: another node, elsewhere when it can be.
Apart(n, b) ==
  b # None =>
    /\ b # n
    /\ (\E m \in Nodes : Location[m] # Location[n]) => Location[b] # Location[n]

\* A start has no backup yet, or a good one.
ChosenCall(c) ==
  /\ c.pc \in {"check", "backup"} => c.backup = None
  /\ c.pc = "commit" => Apart(c.node, c.backup)

Chosen ==
  /\ \A h \in Handlers : ChosenCall(calls[h])
  /\ \A s \in Sessions : rows[s].status # "none" => Apart(rows[s].node, rows[s].backup)

\* A user has one call at a time.
Alone ==
  \A g, h \in Handlers :
    g # h /\ calls[g].user = calls[h].user => calls[g].user = None

\* A start that has looked has found no active session, and there is none yet.
ClearCall(c) == c.pc \in {"backup", "commit"} => ActiveOf(c.user) = {}

\* A user's active sessions are one.
Single ==
  /\ Alone
  /\ \A h \in Handlers : ClearCall(calls[h])
  /\ \A u \in Users : \A s, t \in ActiveOf(u) : s = t
-----------------------------------------------------------------------------
\* The parts of TypeOK that do not concern the handlers.
Rest ==
  /\ rows \in [Sessions -> Row]
  /\ \A s \in Sessions :
       rows[s].status # "none" => rows[s].user \in Users /\ rows[s].node \in Nodes
  /\ wire \subseteq RelayRequest
  /\ relay \in [Nodes -> SUBSET Sessions]
  /\ playing \subseteq Sessions

\* The part that does.
Handling == calls \in [Handlers -> Call] /\ \A h \in Handlers : CallSet(calls[h])

\* TypeOK is the conjunction of the two.
LEMMA Parts == TypeOK <=> Rest /\ Handling
  BY DEF TypeOK, Rest, Handling

\* The same of the next state.
LEMMA PartsNext == TypeOK' <=> Rest' /\ Handling'
  BY DEF TypeOK, Rest, Handling

\* A row is unused exactly when its status is "none", in a table of the right
\* shape.
Shaped == \A s \in Sessions : rows[s] = NoRow <=> rows[s].status = "none"

\* c differs from handler h's call in its program counter at most.
SameCall(h, c) ==
  /\ c.op = calls[h].op /\ c.user = calls[h].user /\ c.node = calls[h].node
  /\ c.session = calls[h].session /\ c.backup = calls[h].backup

\* The row a start makes.
Placement(c) ==
  [user |-> c.user, node |-> c.node, backup |-> c.backup, status |-> "active"]

\* Handler h's call becomes c.
Becomes(h, c) ==
  /\ c \in Call /\ calls'[h] = c
  /\ \A g \in Handlers \ {h} : calls'[g] = calls[g]
  /\ calls' \in [Handlers -> Call]

\* An EXCEPT at one handler replaces its call.
LEMMA Replaced ==
  ASSUME Handling, NEW h \in Handlers, NEW c \in Call,
         calls' = [calls EXCEPT ![h] = c]
  PROVE  Becomes(h, c)
  BY DEF Becomes, Handling

\* Another program counter, and nothing else.
LEMMA Moved ==
  ASSUME Handling, NEW h \in Handlers,
         NEW l \in {"backup", "commit", "primary", "waitPrimary", "backup relay",
                    "waitBackup", "done", "refused", "crashed"},
         Goto(h, l)
  PROVE  \E c \in Call : Becomes(h, c) /\ SameCall(h, c) /\ c.pc = l
<1> DEFINE c == [calls[h] EXCEPT !.pc = l]
<1>1. c \in Call
  BY ZenonT(30) DEF Handling, Call
<1>2. calls' = [calls EXCEPT ![h] = c]
  BY DEF Goto
<1>3. c.pc = l /\ SameCall(h, c)
  BY DEF SameCall, Handling, Call
<1> HIDE DEF c
<1>. QED BY <1>1, <1>2, <1>3, Replaced

\* A set that does not raise has what OneOrNone returns, unless it is empty.
LEMMA OneOrNoneIn ==
  ASSUME NEW S PROVE OneOrNone(S) = None \/ OneOrNone(S) \in S
  BY DEF OneOrNone

\* A request on the wire is what a handler that calls a relay has learnt.
LEMMA RequestTyped ==
  ASSUME Handling, NEW h \in Handlers, calls[h].pc \in Registering
  PROVE  /\ Request(h) \in RelayRequest
         /\ Request(h).op = calls[h].op /\ Request(h).session = calls[h].session
         /\ Request(h).to \in {calls[h].node, calls[h].backup}
<1>1. /\ calls[h].op \in {"start", "stop"} /\ calls[h].session \in Sessions
      /\ calls[h].node \in Nodes
      /\ calls[h].pc \in {"backup relay", "waitBackup"} => calls[h].backup \in Nodes
  BY DEF Handling, CallSet, Registering
<1>2. CASE calls[h].pc \in {"primary", "waitPrimary"}
  BY <1>1, <1>2 DEF Request, RelayRequest
<1>3. CASE calls[h].pc \in {"backup relay", "waitBackup"}
  BY <1>1, <1>3 DEF Request, RelayRequest
<1>. QED BY <1>2, <1>3 DEF Registering

\* The program counter after a call to a relay.
LEMMA Legs ==
  ASSUME Handling, NEW h \in Handlers, NextLeg(h), Waiting(h)
  PROVE  \E c \in Call :
           /\ Becomes(h, c) /\ SameCall(h, c)
           /\ \/ c.pc = "done"
              \/ c.pc = "backup relay" /\ c.backup # None
<1> DEFINE l == IF calls[h].pc = "waitPrimary" /\ calls[h].backup # None
                THEN "backup relay" ELSE "done"
<1>1. PICK c \in Call : Becomes(h, c) /\ SameCall(h, c) /\ c.pc = l
  BY ZenonT(30), Moved DEF NextLeg
<1>. QED BY <1>1 DEF SameCall
-----------------------------------------------------------------------------
\* What each action makes of its handler's call, and of the rest.
BeginStartMakes(h, c, u, n, multipath) ==
  /\ Becomes(h, c) /\ UNCHANGED <<rows, wire, relay, playing>>
  /\ c.pc = "check" /\ c.op = "start" /\ c.user = u /\ c.node = n
  /\ c.backup = None
  /\ OneCallPerUser => \A g \in Handlers : calls[g].user # u

\* BeginStart replaces the call by such a one.
LEMMA BeginStartCall ==
  ASSUME TypeOK, NEW h \in Handlers, NEW u \in Users, NEW n \in Nodes,
         NEW multipath \in BOOLEAN,
         BeginStart(h, u, n, multipath)
  PROVE  \E c \in Call : BeginStartMakes(h, c, u, n, multipath)
<1> DEFINE c == [Idle EXCEPT !.pc = "check", !.op = "start", !.user = u,
                             !.node = n, !.multipath = multipath]
<1>1. c \in Call
  BY ServiceAssumption, Parts
     DEF BeginStart, BeginStartMakes, Handling, Rest, Call, Idle, Row
<1>2. calls' = [calls EXCEPT ![h] = c]
  BY DEF BeginStart
<1>3. Becomes(h, c)
  BY <1>1, <1>2, Parts, Replaced
<1>. QED BY <1>1, <1>3
            DEF BeginStart, BeginStartMakes, Idle, SameCall, Handling, Call

BeginStopMakes(h, c, s) ==
  /\ Becomes(h, c) /\ UNCHANGED <<rows, wire, relay>>
  /\ c.pc = "load" /\ c.op = "stop" /\ c.session = s
  /\ c.user = rows[s].user
  /\ OneCallPerUser => \A g \in Handlers : calls[g].user # c.user
  /\ playing' \subseteq playing

\* BeginStop replaces the call by such a one.
LEMMA BeginStopCall ==
  ASSUME TypeOK, NEW h \in Handlers, NEW s \in Sessions, BeginStop(h, s)
  PROVE  \E c \in Call : BeginStopMakes(h, c, s)
<1> DEFINE c == [Idle EXCEPT !.pc = "load", !.op = "stop",
                             !.user = rows[s].user, !.session = s]
<1>1. c \in Call
  BY ServiceAssumption, Parts
     DEF BeginStop, BeginStopMakes, Handling, Rest, Call, Idle, Row
<1>2. calls' = [calls EXCEPT ![h] = c]
  BY DEF BeginStop
<1>3. Becomes(h, c)
  BY <1>1, <1>2, Parts, Replaced
<1>. QED BY <1>1, <1>3
            DEF BeginStop, BeginStopMakes, Idle, SameCall, Handling, Call

BeginAdminStopMakes(h, c, s) ==
  /\ Becomes(h, c) /\ UNCHANGED <<rows, wire, relay, playing>>
  /\ c.pc = "load" /\ c.op = "admin" /\ c.session = s /\ c.user = None

\* BeginAdminStop replaces the call by such a one.
LEMMA BeginAdminStopCall ==
  ASSUME TypeOK, NEW h \in Handlers, NEW s \in Sessions,
         BeginAdminStop(h, s)
  PROVE  \E c \in Call : BeginAdminStopMakes(h, c, s)
<1> DEFINE c == [Idle EXCEPT !.pc = "load", !.op = "admin", !.session = s]
<1>1. c \in Call
  BY ServiceAssumption, Parts
     DEF BeginAdminStop, BeginAdminStopMakes, Handling, Rest, Call, Idle, Row
<1>2. calls' = [calls EXCEPT ![h] = c]
  BY DEF BeginAdminStop
<1>3. Becomes(h, c)
  BY <1>1, <1>2, Parts, Replaced
<1>. QED BY <1>1, <1>3
            DEF BeginAdminStop, BeginAdminStopMakes, Idle, SameCall, Handling,
                Call

CheckActiveMakes(h, c) ==
  /\ Becomes(h, c) /\ UNCHANGED <<rows, wire, relay, playing>>
  /\ SameCall(h, c) /\ calls[h].pc = "check"
  /\ c.pc \in {"backup", "commit", "refused", "crashed"}
  /\ c.pc \in {"backup", "commit"} => ActiveOf(c.user) = {}

\* CheckActive replaces the call by such a one.
LEMMA CheckActiveCall ==
  ASSUME TypeOK, NEW h \in Handlers, CheckActive(h)
  PROVE  \E c \in Call : CheckActiveMakes(h, c)
<1> DEFINE l == IF Raises(ActiveOf(calls[h].user)) THEN "crashed"
              ELSE IF ActiveOf(calls[h].user) # {} THEN "refused"
              ELSE IF calls[h].multipath THEN "backup" ELSE "commit"
<1>1. l \in {"backup", "commit", "primary", "waitPrimary", "waitBackup", "done",
             "refused", "crashed"} /\ Goto(h, l)
  BY DEF CheckActive
<1>2. PICK c \in Call : Becomes(h, c) /\ SameCall(h, c) /\ c.pc = l
  BY ZenonT(30), <1>1, Parts, Moved
<1>. QED BY <1>2 DEF CheckActive, CheckActiveMakes, SameCall

FindBackupMakes(h, c) ==
  /\ Becomes(h, c) /\ UNCHANGED <<rows, wire, relay, playing>>
  /\ calls[h].pc = "backup" /\ c.pc \in {"commit", "crashed"}
  /\ c.op = calls[h].op /\ c.user = calls[h].user /\ c.node = calls[h].node
  /\ c.session = calls[h].session
  /\ c.pc = "commit" => Apart(c.node, c.backup)

\* FindBackup replaces the call by such a one.
LEMMA FindBackupCall ==
  ASSUME TypeOK, NEW h \in Handlers, FindBackup(h)
  PROVE  \E c \in Call : FindBackupMakes(h, c)
<1> DEFINE n == calls[h].node
           found == IF Elsewhere(n) # {} THEN Elsewhere(n) ELSE Others(n)
           b == OneOrNone(found)
<1>1. b \in Nodes \cup {None} /\ Apart(n, b)
  <2>1. b = None \/ b \in found
    BY OneOrNoneIn
  <2>. QED BY <2>1 DEF Apart, Elsewhere, Others
<1>2. calls[h].pc = "backup" /\ UNCHANGED <<rows, wire, relay, playing>>
  BY DEF FindBackup
<1>3. CASE Raises(found)
  <2>1. Goto(h, "crashed")
    BY <1>3 DEF FindBackup, FindBackupMakes, Goto
  <2>2. PICK c \in Call : Becomes(h, c) /\ SameCall(h, c) /\ c.pc = "crashed"
    BY <2>1, Parts, Moved
  <2>. QED BY <1>2, <2>2 DEF SameCall, FindBackupMakes
<1>4. CASE ~Raises(found)
  <2> DEFINE c == [calls[h] EXCEPT !.pc = "commit", !.backup = b]
  <2>1. calls' = [calls EXCEPT ![h] = c]
    BY <1>4 DEF FindBackup
  <2> HIDE DEF b
  <2>2. /\ c \in Call /\ c.pc = "commit" /\ c.backup = b /\ c.node = n
        /\ c.op = calls[h].op /\ c.user = calls[h].user
        /\ c.session = calls[h].session
    BY ZenonT(30), <1>1, Parts DEF Handling, Call
  <2> HIDE DEF c, n
  <2>3. Becomes(h, c)
    BY <2>1, <2>2, Parts, Replaced
  <2>. QED BY <1>1, <1>2, <2>2, <2>3 DEF n, FindBackupMakes
<1>. QED BY <1>3, <1>4

CommitMakes(h, c, s) ==
  /\ Becomes(h, c) /\ UNCHANGED <<wire, relay, playing>>
  /\ calls[h].pc = "commit" /\ c.pc = "primary" /\ c.session = s
  /\ c.op = calls[h].op /\ c.user = calls[h].user /\ c.node = calls[h].node
  /\ c.backup = calls[h].backup /\ s \notin Used
  /\ rows' = [rows EXCEPT ![s] = Placement(c)]

\* Commit replaces the call by such a one.
LEMMA CommitCall ==
  ASSUME TypeOK, NEW h \in Handlers, NEW s \in Sessions, Commit(h, s)
  PROVE  \E c \in Call : CommitMakes(h, c, s)
<1> DEFINE c == [calls[h] EXCEPT !.pc = "primary", !.session = s]
<1>1. c \in Call
  BY Parts DEF Commit, CommitMakes, Handling, Call
<1>2. calls' = [calls EXCEPT ![h] = c]
  BY DEF Commit
<1>3. Becomes(h, c)
  BY <1>1, <1>2, Parts, Replaced
<1>. QED BY <1>1, <1>3
            DEF Commit, CommitMakes, Idle, SameCall, Handling, Call, Placement

LoadActiveMakes(h, c) ==
  /\ Becomes(h, c) /\ UNCHANGED <<rows, wire, relay, playing>>
  /\ calls[h].pc = "load" /\ c.op = calls[h].op /\ c.user = calls[h].user
  /\ c.session = calls[h].session
  /\ \/ c.pc = "refused"
     \/ c.pc = "stop" /\ c.node \in Nodes /\ rows[c.session].status = "active"

\* LoadActive replaces the call by such a one.
LEMMA LoadActiveCall ==
  ASSUME TypeOK, NEW h \in Handlers, LoadActive(h)
  PROVE  \E c \in Call : LoadActiveMakes(h, c)
<1> DEFINE row == rows[calls[h].session]
<1>0. calls[h].pc = "load" /\ calls[h].session \in Sessions
      /\ UNCHANGED <<rows, wire, relay, playing>>
  BY Parts DEF LoadActive, LoadActiveMakes, Handling, CallSet
<1>1. CASE row.status = "active"
  <2> DEFINE c == [calls[h] EXCEPT !.pc = "stop", !.node = row.node, !.backup = row.backup]
  <2>1. calls' = [calls EXCEPT ![h] = c]
    BY <1>1 DEF LoadActive
  <2>2. row.node \in Nodes /\ row.backup \in Nodes \cup {None}
    BY <1>0, <1>1, Parts DEF Rest, Row
  <2> HIDE DEF row
  <2>3. /\ c \in Call /\ c.pc = "stop" /\ c.node = row.node
        /\ c.op = calls[h].op /\ c.user = calls[h].user
        /\ c.session = calls[h].session
    BY ZenonT(30), <2>2, Parts DEF Handling, Call
  <2>4. rows[c.session].status = "active"
    BY <1>1, <2>3 DEF row
  <2> HIDE DEF c
  <2>. QED BY <1>0, <2>1, <2>2, <2>3, <2>4, Parts, Replaced DEF LoadActiveMakes
<1>2. CASE row.status # "active"
  <2>1. Goto(h, "refused")
    BY <1>2 DEF LoadActive, LoadActiveMakes, Goto
  <2>2. PICK c \in Call : Becomes(h, c) /\ SameCall(h, c) /\ c.pc = "refused"
    BY <2>1, Parts, Moved
  <2>. QED BY <1>0, <2>2 DEF SameCall, LoadActiveMakes
<1>. QED BY <1>1, <1>2

CommitStopMakes(h, c) ==
  /\ Becomes(h, c) /\ UNCHANGED <<wire, relay, playing>>
  /\ SameCall(h, c) /\ calls[h].pc = "stop"
  /\ rows' = [rows EXCEPT ![c.session].status = "stopped"]
  /\ c.pc = "done" \/ (c.pc = "primary" /\ c.op # "admin")

\* CommitStop replaces the call by such a one.
LEMMA CommitStopCall ==
  ASSUME TypeOK, NEW h \in Handlers, CommitStop(h)
  PROVE  \E c \in Call : CommitStopMakes(h, c)
<1> DEFINE l == IF calls[h].op = "admin" THEN "done" ELSE "primary"
<1>1. l \in {"backup", "commit", "primary", "waitPrimary", "waitBackup", "done",
             "refused", "crashed"} /\ Goto(h, l)
  BY DEF CommitStop
<1>2. PICK c \in Call : Becomes(h, c) /\ SameCall(h, c) /\ c.pc = l
  BY ZenonT(30), <1>1, Parts, Moved
<1>. QED BY <1>2 DEF CommitStop, CommitStopMakes, SameCall

CallRelayMakes(h, c) ==
  /\ Becomes(h, c) /\ UNCHANGED <<rows, relay, playing>>
  /\ SameCall(h, c) /\ calls[h].pc \in Registering /\ c.pc \in {"waitPrimary", "waitBackup"}
  /\ calls[h].pc = "backup relay" <=> c.pc = "waitBackup"
  /\ wire' = wire \cup {Request(h)}

\* CallRelay replaces the call by such a one.
LEMMA CallRelayCall ==
  ASSUME TypeOK, NEW h \in Handlers, CallRelay(h)
  PROVE  \E c \in Call : CallRelayMakes(h, c)
<1> DEFINE l == IF calls[h].pc = "primary" THEN "waitPrimary" ELSE "waitBackup"
<1>1. l \in {"backup", "commit", "primary", "waitPrimary", "waitBackup", "done",
             "refused", "crashed"} /\ Goto(h, l)
  BY DEF CallRelay
<1>2. PICK c \in Call : Becomes(h, c) /\ SameCall(h, c) /\ c.pc = l
  BY ZenonT(30), <1>1, Parts, Moved
<1>. QED BY <1>2 DEF CallRelay, CallRelayMakes, SameCall, Registering

TimesOutMakes(h, c) ==
  /\ Becomes(h, c) /\ UNCHANGED <<rows, wire, relay, playing>>
  /\ SameCall(h, c) /\ calls[h].pc \in Registering
  /\ c.pc = "done" \/ (c.pc = "backup relay" /\ c.backup # None)

\* TimesOut replaces the call by such a one.
LEMMA TimesOutCall ==
  ASSUME TypeOK, NEW h \in Handlers, TimesOut(h)
  PROVE  \E c \in Call : TimesOutMakes(h, c)
<1>1. Handling /\ NextLeg(h) /\ Waiting(h) /\ UNCHANGED <<rows, wire, relay, playing>>
  BY Parts DEF TimesOut
<1>. QED BY <1>1, Legs DEF TimesOutMakes, Waiting, Registering

ReturnMakes(h, c) ==
  /\ Becomes(h, c) /\ UNCHANGED <<rows, wire, relay>>
  /\ c.pc = "idle" /\ c.op = "none" /\ c.user = None
  /\ playing' \subseteq playing \cup {calls[h].session}

\* Return replaces the call by such a one.
LEMMA ReturnCall ==
  ASSUME TypeOK, NEW h \in Handlers, Return(h)
  PROVE  \E c \in Call : ReturnMakes(h, c)
<1> DEFINE c == Idle
<1>1. c \in Call
  BY ServiceAssumption, Parts
     DEF Return, ReturnMakes, Handling, Rest, Call, Idle, Row
<1>2. calls' = [calls EXCEPT ![h] = c]
  BY DEF Return
<1>3. Becomes(h, c)
  BY <1>1, <1>2, Parts, Replaced
<1>. QED BY <1>1, <1>3 DEF Return, ReturnMakes, Idle, SameCall, Handling, Call
-----------------------------------------------------------------------------
\* Handler h has gone on after a call to a relay.
Advanced(h, c) ==
  /\ Becomes(h, c) /\ SameCall(h, c) /\ calls[h].pc \in Registering
  /\ c.pc = "done" \/ (c.pc = "backup relay" /\ c.backup # None)

\* What a relay makes of a request.
Answers(m) ==
  /\ m \in RelayRequest /\ wire' = wire \ {m} /\ UNCHANGED <<rows, playing>>
  /\ \/ relay' = relay
     \/ m.op = "start" /\ relay' = [relay EXCEPT ![m.to] = @ \cup {m.session}]
     \/ relay' = [relay EXCEPT ![m.to] = @ \ {m.session}]

\* The relay acts on a request.
LEMMA RelayAnswers ==
  ASSUME TypeOK, NEW m \in wire, RelayHandles(m)
  PROVE  Answers(m)
<1>1. m \in RelayRequest
  BY Parts DEF Rest
<1>. QED BY <1>1 DEF RelayHandles, Answers

\* Handlers whose calls are as they were, but for one that has gone on.
Noticed ==
  calls' = calls \/ \E h \in Handlers : \E c \in Call : Advanced(h, c)

\* The handler of the request goes on, or does not notice.
LEMMA RelayNoticed ==
  ASSUME TypeOK, NEW m \in wire, RelayHandles(m)
  PROVE  Noticed
<1>1. m.from \in Handlers
  BY Parts DEF Rest, RelayRequest
<1>2. CASE Waiting(m.from) /\ NextLeg(m.from)
  <2>1. calls[m.from].pc \in Registering
    BY <1>2 DEF Waiting, Registering
  <2>2. PICK c \in Call :
          /\ Becomes(m.from, c) /\ SameCall(m.from, c)
          /\ c.pc = "done" \/ (c.pc = "backup relay" /\ c.backup # None)
    BY <1>1, <1>2, Parts, Legs
  <2>. QED BY <1>1, <2>1, <2>2 DEF Advanced, Noticed
<1>3. CASE calls' = calls
  BY <1>3 DEF Noticed
<1>. QED BY <1>2, <1>3 DEF RelayHandles

\* While the rows stay, the other handlers know what they knew.
LEMMA OthersPlaced ==
  ASSUME Placed, rows' = rows, NEW h \in Handlers, NEW c \in Call,
         Becomes(h, c),
         PlacedCall(c)'
  PROVE  \A g \in Handlers : PlacedCall(calls[g])'
<1> SUFFICES ASSUME NEW g \in Handlers PROVE PlacedCall(calls[g])'
  OBVIOUS
<1>1. CASE g = h
  BY <1>1 DEF Becomes
<1>2. CASE g # h
  <2>1. calls'[g] = calls[g] /\ PlacedCall(calls[g])
    BY <1>2 DEF Becomes, Placed
  <2>. QED BY <2>1 DEF PlacedCall
<1>. QED BY <1>1, <1>2

\* While the rows stay, what the others found stays true.
LEMMA OthersClear ==
  ASSUME Single, rows' = rows, NEW h \in Handlers, NEW c \in Call,
         Becomes(h, c),
         ClearCall(c)'
  PROVE  \A g \in Handlers : ClearCall(calls[g])'
  BY DEF Single, Becomes, ClearCall, ActiveOf

\* The same user has the call.
LEMMA AloneKept ==
  ASSUME Alone, NEW h \in Handlers, NEW c \in Call, Becomes(h, c),
         c.user \in {None, calls[h].user}
  PROVE  Alone'
  BY DEF Alone, Becomes


-----------------------------------------------------------------------------
\* Every step keeps what a handler at a program point has learnt.
LEMMA HandlingStep == TypeOK /\ [Next]_vars => Handling'
<1> SUFFICES ASSUME TypeOK, [Next]_vars PROVE Handling' OBVIOUS
<1>0. Rest /\ Handling
  BY Parts
<1>1. ASSUME NEW h \in Handlers, NEW u \in Users, NEW n \in Nodes,
             NEW multipath \in BOOLEAN, BeginStart(h, u, n, multipath)
      PROVE  Handling'
  <2>1. PICK c \in Call : BeginStartMakes(h, c, u, n, multipath)
    BY <1>1, BeginStartCall
  <2>2. CallSet(c)
    BY <1>0, <2>1
       DEF BeginStartMakes, SameCall, CallSet, Call, Handling, Registering, Idle
  <2>. QED BY <1>0, <2>1, <2>2 DEF BeginStartMakes, Becomes, Handling
<1>2. ASSUME NEW h \in Handlers, NEW s \in Sessions, BeginStop(h, s)
      PROVE  Handling'
  <2>1. PICK c \in Call : BeginStopMakes(h, c, s)
    BY <1>2, BeginStopCall
  <2>2. CallSet(c)
    BY <1>0, <2>1
       DEF BeginStopMakes, SameCall, CallSet, Call, Handling, Registering, Idle
  <2>. QED BY <1>0, <2>1, <2>2 DEF BeginStopMakes, Becomes, Handling
<1>3. ASSUME NEW h \in Handlers, NEW s \in Sessions, BeginAdminStop(h, s)
      PROVE  Handling'
  <2>1. PICK c \in Call : BeginAdminStopMakes(h, c, s)
    BY <1>3, BeginAdminStopCall
  <2>2. CallSet(c)
    BY <1>0, <2>1
       DEF BeginAdminStopMakes, SameCall, CallSet, Call, Handling, Registering,
           Idle
  <2>. QED BY <1>0, <2>1, <2>2 DEF BeginAdminStopMakes, Becomes, Handling
<1>4. ASSUME NEW h \in Handlers, CheckActive(h)
      PROVE  Handling'
  <2>1. PICK c \in Call : CheckActiveMakes(h, c)
    BY <1>4, CheckActiveCall
  <2>2. CallSet(c)
    BY <1>0, <2>1
       DEF CheckActiveMakes, SameCall, CallSet, Call, Handling, Registering,
           Idle
  <2>. QED BY <1>0, <2>1, <2>2 DEF CheckActiveMakes, Becomes, Handling
<1>5. ASSUME NEW h \in Handlers, FindBackup(h)
      PROVE  Handling'
  <2>1. PICK c \in Call : FindBackupMakes(h, c)
    BY <1>5, FindBackupCall
  <2>2. CallSet(c)
    BY <1>0, <2>1
       DEF FindBackupMakes, SameCall, CallSet, Call, Handling, Registering, Idle
  <2>. QED BY <1>0, <2>1, <2>2 DEF FindBackupMakes, Becomes, Handling
<1>6. ASSUME NEW h \in Handlers, NEW s \in Sessions, Commit(h, s)
      PROVE  Handling'
  <2>1. PICK c \in Call : CommitMakes(h, c, s)
    BY <1>6, CommitCall
  <2>2. CallSet(c)
    BY <1>0, <2>1
       DEF CommitMakes, SameCall, CallSet, Call, Handling, Registering, Idle
  <2>. QED BY <1>0, <2>1, <2>2 DEF CommitMakes, Becomes, Handling
<1>7. ASSUME NEW h \in Handlers, LoadActive(h)
      PROVE  Handling'
  <2>1. PICK c \in Call : LoadActiveMakes(h, c)
    BY <1>7, LoadActiveCall
  <2>2. CallSet(c)
    BY <1>0, <2>1
       DEF LoadActiveMakes, SameCall, CallSet, Call, Handling, Registering, Idle
  <2>. QED BY <1>0, <2>1, <2>2 DEF LoadActiveMakes, Becomes, Handling
<1>8. ASSUME NEW h \in Handlers, CommitStop(h)
      PROVE  Handling'
  <2>1. PICK c \in Call : CommitStopMakes(h, c)
    BY <1>8, CommitStopCall
  <2>2. CallSet(c)
    BY <1>0, <2>1
       DEF CommitStopMakes, SameCall, CallSet, Call, Handling, Registering, Idle
  <2>. QED BY <1>0, <2>1, <2>2 DEF CommitStopMakes, Becomes, Handling
<1>9. ASSUME NEW h \in Handlers, CallRelay(h)
      PROVE  Handling'
  <2>1. PICK c \in Call : CallRelayMakes(h, c)
    BY <1>9, CallRelayCall
  <2>2. CallSet(c)
    BY <1>0, <2>1
       DEF CallRelayMakes, SameCall, CallSet, Call, Handling, Registering, Idle
  <2>. QED BY <1>0, <2>1, <2>2 DEF CallRelayMakes, Becomes, Handling
<1>10. ASSUME NEW h \in Handlers, TimesOut(h)
      PROVE  Handling'
  <2>1. PICK c \in Call : TimesOutMakes(h, c)
    BY <1>10, TimesOutCall
  <2>2. CallSet(c)
    BY <1>0, <2>1
       DEF TimesOutMakes, SameCall, CallSet, Call, Handling, Registering, Idle
  <2>. QED BY <1>0, <2>1, <2>2 DEF TimesOutMakes, Becomes, Handling
<1>11. ASSUME NEW h \in Handlers, Return(h)
      PROVE  Handling'
  <2>1. PICK c \in Call : ReturnMakes(h, c)
    BY <1>11, ReturnCall
  <2>2. CallSet(c)
    BY <1>0, <2>1
       DEF ReturnMakes, SameCall, CallSet, Call, Handling, Registering, Idle
  <2>. QED BY <1>0, <2>1, <2>2 DEF ReturnMakes, Becomes, Handling
<1>12. ASSUME NEW m \in wire, RelayHandles(m)
      PROVE  Handling'
  <2>1. m \in RelayRequest /\ wire' = wire \ {m} /\ UNCHANGED <<rows, playing>>
    BY <1>12, RelayAnswers DEF Answers
  <2>2. ASSUME calls' = calls PROVE Handling'
    BY <1>0, <2>2 DEF Handling
  <2>3. ASSUME NEW h \in Handlers, NEW c \in Call, Advanced(h, c)
        PROVE  Handling'
    <3>1. CallSet(c)
      BY <1>0, <2>3 DEF Advanced, SameCall, CallSet, Call, Handling, Registering
    <3>. QED BY <1>0, <2>3, <3>1 DEF Advanced, Becomes, Handling
  <2>4. Handling'
    BY <1>12, <2>2, <2>3, RelayNoticed DEF Noticed
  <2>. QED BY <2>4
<1>13. ASSUME NEW m \in wire, Lose(m)
      PROVE  Handling'
  BY <1>0, <1>13 DEF Lose, Handling
<1>14. ASSUME NEW n \in Nodes, RelayRestarts(n)
      PROVE  Handling'
  BY <1>0, <1>14 DEF RelayRestarts, Handling
<1>15. ASSUME NEW n \in Nodes, NEW s \in Sessions, RelayExpires(n, s)
      PROVE  Handling'
  BY <1>0, <1>15 DEF RelayExpires, Handling
<1>16. ASSUME NEW s \in Sessions, PlayerLeaves(s)
      PROVE  Handling'
  BY <1>0, <1>16 DEF PlayerLeaves, Handling
<1>17. CASE UNCHANGED vars
  BY <1>0, <1>17 DEF vars, Handling
<1>. QED
  BY <1>1, <1>2, <1>3, <1>4, <1>5, <1>6, <1>7, <1>8,
     <1>9, <1>10, <1>11, <1>12, <1>13, <1>14, <1>15, <1>16,
     <1>17
     DEF Next, Caller, Start, Stop

\* Every step keeps the rows that stops have found.
LEMMA LearntStep == TypeOK /\ Learnt /\ [Next]_vars => Learnt'
<1> SUFFICES ASSUME TypeOK /\ Learnt, [Next]_vars PROVE Learnt' OBVIOUS
<1>0. Rest /\ Handling
  BY Parts
<1>1. ASSUME NEW h \in Handlers, NEW u \in Users, NEW n \in Nodes,
             NEW multipath \in BOOLEAN, BeginStart(h, u, n, multipath)
      PROVE  Learnt'
  <2>1. PICK c \in Call : BeginStartMakes(h, c, u, n, multipath)
    BY <1>1, BeginStartCall
  <2>. QED BY <1>0, <2>1
              DEF BeginStartMakes, SameCall, Becomes, Handling, CallSet,
                  Registering, Idle, Learnt
<1>2. ASSUME NEW h \in Handlers, NEW s \in Sessions, BeginStop(h, s)
      PROVE  Learnt'
  <2>1. PICK c \in Call : BeginStopMakes(h, c, s)
    BY <1>2, BeginStopCall
  <2>. QED BY <1>0, <2>1
              DEF BeginStopMakes, SameCall, Becomes, Handling, CallSet,
                  Registering, Idle, Learnt
<1>3. ASSUME NEW h \in Handlers, NEW s \in Sessions, BeginAdminStop(h, s)
      PROVE  Learnt'
  <2>1. PICK c \in Call : BeginAdminStopMakes(h, c, s)
    BY <1>3, BeginAdminStopCall
  <2>. QED BY <1>0, <2>1
              DEF BeginAdminStopMakes, SameCall, Becomes, Handling, CallSet,
                  Registering, Idle, Learnt
<1>4. ASSUME NEW h \in Handlers, CheckActive(h)
      PROVE  Learnt'
  <2>1. PICK c \in Call : CheckActiveMakes(h, c)
    BY <1>4, CheckActiveCall
  <2>. QED BY <1>0, <2>1
              DEF CheckActiveMakes, SameCall, Becomes, Handling, CallSet,
                  Registering, Idle, Learnt
<1>5. ASSUME NEW h \in Handlers, FindBackup(h)
      PROVE  Learnt'
  <2>1. PICK c \in Call : FindBackupMakes(h, c)
    BY <1>5, FindBackupCall
  <2>. QED BY <1>0, <2>1
              DEF FindBackupMakes, SameCall, Becomes, Handling, CallSet,
                  Registering, Idle, Learnt
<1>6. ASSUME NEW h \in Handlers, NEW s \in Sessions, Commit(h, s)
      PROVE  Learnt'
  <2>1. PICK c \in Call : CommitMakes(h, c, s)
    BY <1>6, CommitCall
  <2>2. \A t \in Sessions : rows[t].status # "none" => rows'[t].status # "none"
    BY <1>0, <2>1 DEF CommitMakes, Placement, Rest
  <2>3. \A g \in Handlers : calls[g].pc = "stop" => calls[g].session \in Sessions
    BY <1>0 DEF Handling, CallSet
  <2>. QED BY <2>1, <2>2, <2>3 DEF CommitMakes, Becomes, Learnt
<1>7. ASSUME NEW h \in Handlers, LoadActive(h)
      PROVE  Learnt'
  <2>1. PICK c \in Call : LoadActiveMakes(h, c)
    BY <1>7, LoadActiveCall
  <2>. QED BY ZenonT(30), <1>0, <2>1
              DEF LoadActiveMakes, SameCall, Becomes, Handling, CallSet,
                  Registering, Idle, Learnt
<1>8. ASSUME NEW h \in Handlers, CommitStop(h)
      PROVE  Learnt'
  <2>1. PICK c \in Call : CommitStopMakes(h, c)
    BY <1>8, CommitStopCall
  <2>2. calls[h].session \in Sessions /\ rows[calls[h].session].status # "none"
    BY <1>0, <2>1 DEF CommitStopMakes, Handling, CallSet, Learnt
  <2>. QED BY <1>0, <2>1, <2>2
              DEF CommitStopMakes, SameCall, Becomes, Rest, Row, Learnt
<1>9. ASSUME NEW h \in Handlers, CallRelay(h)
      PROVE  Learnt'
  <2>1. PICK c \in Call : CallRelayMakes(h, c)
    BY <1>9, CallRelayCall
  <2>. QED BY ZenonT(30), <1>0, <2>1
              DEF CallRelayMakes, SameCall, Becomes, Handling, CallSet,
                  Registering, Idle, Learnt
<1>10. ASSUME NEW h \in Handlers, TimesOut(h)
      PROVE  Learnt'
  <2>1. PICK c \in Call : TimesOutMakes(h, c)
    BY <1>10, TimesOutCall
  <2>. QED BY ZenonT(30), <1>0, <2>1
              DEF TimesOutMakes, SameCall, Becomes, Handling, CallSet,
                  Registering, Idle, Learnt
<1>11. ASSUME NEW h \in Handlers, Return(h)
      PROVE  Learnt'
  <2>1. PICK c \in Call : ReturnMakes(h, c)
    BY <1>11, ReturnCall
  <2>. QED BY <1>0, <2>1
              DEF ReturnMakes, SameCall, Becomes, Handling, CallSet,
                  Registering, Idle, Learnt
<1>12. ASSUME NEW m \in wire, RelayHandles(m)
      PROVE  Learnt'
  <2>1. m \in RelayRequest /\ wire' = wire \ {m} /\ UNCHANGED <<rows, playing>>
    BY <1>12, RelayAnswers DEF Answers
  <2>2. ASSUME calls' = calls PROVE Learnt'
    BY <2>1, <2>2 DEF Learnt
  <2>3. ASSUME NEW h \in Handlers, NEW c \in Call, Advanced(h, c)
        PROVE  Learnt'
    BY ZenonT(30), <1>0, <2>1, <2>3
       DEF Advanced, SameCall, Becomes, Handling, CallSet, Registering, Learnt
  <2>4. Learnt'
    BY <1>12, <2>2, <2>3, RelayNoticed DEF Noticed
  <2>. QED BY <2>4
<1>13. ASSUME NEW m \in wire, Lose(m)
      PROVE  Learnt'
  BY <1>0, <1>13 DEF Lose, Learnt
<1>14. ASSUME NEW n \in Nodes, RelayRestarts(n)
      PROVE  Learnt'
  BY <1>0, <1>14 DEF RelayRestarts, Learnt
<1>15. ASSUME NEW n \in Nodes, NEW s \in Sessions, RelayExpires(n, s)
      PROVE  Learnt'
  BY <1>0, <1>15 DEF RelayExpires, Learnt
<1>16. ASSUME NEW s \in Sessions, PlayerLeaves(s)
      PROVE  Learnt'
  BY <1>0, <1>16 DEF PlayerLeaves, Learnt
<1>17. CASE UNCHANGED vars
  BY <1>0, <1>17 DEF vars, Learnt
<1>. QED
  BY <1>1, <1>2, <1>3, <1>4, <1>5, <1>6, <1>7, <1>8,
     <1>9, <1>10, <1>11, <1>12, <1>13, <1>14, <1>15, <1>16,
     <1>17
     DEF Next, Caller, Start, Stop

\* Every step keeps the other types.
LEMMA RestStep == TypeOK /\ Learnt /\ Shaped /\ [Next]_vars => (Rest /\ Shaped)'
<1> SUFFICES ASSUME TypeOK /\ Learnt /\ Shaped, [Next]_vars
             PROVE (Rest /\ Shaped)'
  OBVIOUS
<1>0. Rest /\ Handling
  BY Parts
<1>1. ASSUME NEW h \in Handlers, NEW u \in Users, NEW n \in Nodes,
             NEW multipath \in BOOLEAN, BeginStart(h, u, n, multipath)
      PROVE  (Rest /\ Shaped)'
  <2>1. PICK c \in Call : BeginStartMakes(h, c, u, n, multipath)
    BY <1>1, BeginStartCall
  <2>. QED BY <1>0, <2>1 DEF BeginStartMakes, Rest, Shaped
<1>2. ASSUME NEW h \in Handlers, NEW s \in Sessions, BeginStop(h, s)
      PROVE  (Rest /\ Shaped)'
  <2>1. PICK c \in Call : BeginStopMakes(h, c, s)
    BY <1>2, BeginStopCall
  <2>. QED BY <1>0, <2>1 DEF BeginStopMakes, Rest, Shaped
<1>3. ASSUME NEW h \in Handlers, NEW s \in Sessions, BeginAdminStop(h, s)
      PROVE  (Rest /\ Shaped)'
  <2>1. PICK c \in Call : BeginAdminStopMakes(h, c, s)
    BY <1>3, BeginAdminStopCall
  <2>. QED BY <1>0, <2>1 DEF BeginAdminStopMakes, Rest, Shaped
<1>4. ASSUME NEW h \in Handlers, CheckActive(h)
      PROVE  (Rest /\ Shaped)'
  <2>1. PICK c \in Call : CheckActiveMakes(h, c)
    BY <1>4, CheckActiveCall
  <2>. QED BY <1>0, <2>1 DEF CheckActiveMakes, Rest, Shaped
<1>5. ASSUME NEW h \in Handlers, FindBackup(h)
      PROVE  (Rest /\ Shaped)'
  <2>1. PICK c \in Call : FindBackupMakes(h, c)
    BY <1>5, FindBackupCall
  <2>. QED BY <1>0, <2>1 DEF FindBackupMakes, Rest, Shaped
<1>6. ASSUME NEW h \in Handlers, NEW s \in Sessions, Commit(h, s)
      PROVE  (Rest /\ Shaped)'
  <2>1. PICK c \in Call : CommitMakes(h, c, s)
    BY <1>6, CommitCall
  <2>2. c.user \in Users /\ c.node \in Nodes /\ c.backup \in Nodes \cup {None}
    BY <1>0, <2>1 DEF CommitMakes, Handling, CallSet, Call
  <2>3. Placement(c) \in Row
    BY <2>2 DEF Placement, Row
  <2>. QED BY <1>0, <2>1, <2>2, <2>3
              DEF CommitMakes, Placement, Rest, Shaped, NoRow
<1>7. ASSUME NEW h \in Handlers, LoadActive(h)
      PROVE  (Rest /\ Shaped)'
  <2>1. PICK c \in Call : LoadActiveMakes(h, c)
    BY <1>7, LoadActiveCall
  <2>. QED BY <1>0, <2>1 DEF LoadActiveMakes, Rest, Shaped
<1>8. ASSUME NEW h \in Handlers, CommitStop(h)
      PROVE  (Rest /\ Shaped)'
  <2>1. PICK c \in Call : CommitStopMakes(h, c)
    BY <1>8, CommitStopCall
  <2>2. c.session \in Sessions /\ calls[h].pc = "stop"
    BY <1>0, <2>1 DEF CommitStopMakes, SameCall, Handling, CallSet
  <2>3. rows[c.session].status # "none"
    BY <1>0, <2>1, <2>2 DEF CommitStopMakes, SameCall, Learnt
  <2>. QED BY <1>0, <2>1, <2>2, <2>3
              DEF CommitStopMakes, Rest, Shaped, Row, NoRow
<1>9. ASSUME NEW h \in Handlers, CallRelay(h)
      PROVE  (Rest /\ Shaped)'
  <2>1. PICK c \in Call : CallRelayMakes(h, c)
    BY <1>9, CallRelayCall
  <2>2. Request(h) \in RelayRequest
    BY <1>0, <2>1, RequestTyped DEF CallRelayMakes
  <2>. QED BY <1>0, <2>1, <2>2 DEF CallRelayMakes, Rest, Shaped
<1>10. ASSUME NEW h \in Handlers, TimesOut(h)
      PROVE  (Rest /\ Shaped)'
  <2>1. PICK c \in Call : TimesOutMakes(h, c)
    BY <1>10, TimesOutCall
  <2>. QED BY <1>0, <2>1 DEF TimesOutMakes, Rest, Shaped
<1>11. ASSUME NEW h \in Handlers, Return(h)
      PROVE  (Rest /\ Shaped)'
  <2>1. PICK c \in Call : ReturnMakes(h, c)
    BY <1>11, ReturnCall
  <2>2. playing' \subseteq Sessions
    BY <1>0, <1>11 DEF Return, Rest, Learnt
  <2>. QED BY <1>0, <2>1, <2>2 DEF ReturnMakes, Rest, Shaped
<1>12. ASSUME NEW m \in wire, RelayHandles(m)
      PROVE  (Rest /\ Shaped)'
  <2>1. m \in RelayRequest /\ wire' = wire \ {m} /\ UNCHANGED <<rows, playing>>
    BY <1>12, RelayAnswers DEF Answers
  <2>2. \/ relay' = relay
        \/ relay' = [relay EXCEPT ![m.to] = @ \cup {m.session}]
        \/ relay' = [relay EXCEPT ![m.to] = @ \ {m.session}]
    BY <1>12, RelayAnswers DEF Answers
  <2>3. m.session \in Sessions /\ relay \in [Nodes -> SUBSET Sessions]
    BY <1>0, <2>1 DEF RelayRequest, Rest
  <2>4. relay' \in [Nodes -> SUBSET Sessions]
    BY <2>2, <2>3
  <2>. QED BY <1>0, <2>1, <2>4 DEF Rest, Shaped
<1>13. ASSUME NEW m \in wire, Lose(m)
      PROVE  (Rest /\ Shaped)'
  BY <1>0, <1>13 DEF Lose, Rest, Shaped
<1>14. ASSUME NEW n \in Nodes, RelayRestarts(n)
      PROVE  (Rest /\ Shaped)'
  BY <1>0, <1>14 DEF RelayRestarts, Rest, Shaped
<1>15. ASSUME NEW n \in Nodes, NEW s \in Sessions, RelayExpires(n, s)
      PROVE  (Rest /\ Shaped)'
  BY <1>0, <1>15 DEF RelayExpires, Rest, Shaped
<1>16. ASSUME NEW s \in Sessions, PlayerLeaves(s)
      PROVE  (Rest /\ Shaped)'
  BY <1>0, <1>16 DEF PlayerLeaves, Rest, Shaped
<1>17. CASE UNCHANGED vars
  BY <1>0, <1>17 DEF vars, Rest, Shaped
<1>. QED
  BY <1>1, <1>2, <1>3, <1>4, <1>5, <1>6, <1>7, <1>8,
     <1>9, <1>10, <1>11, <1>12, <1>13, <1>14, <1>15, <1>16,
     <1>17
     DEF Next, Caller, Start, Stop

\* Every step keeps the handlers, the wire and the relays true to the rows.
LEMMA PlacedStep == TypeOK /\ Shaped /\ Placed /\ [Next]_vars => Placed'
<1> SUFFICES ASSUME TypeOK /\ Shaped /\ Placed, [Next]_vars
             PROVE Placed'
  OBVIOUS
<1>0. Rest /\ Handling
  BY Parts
<1>1. ASSUME NEW h \in Handlers, NEW u \in Users, NEW n \in Nodes,
             NEW multipath \in BOOLEAN, BeginStart(h, u, n, multipath)
      PROVE  Placed'
  <2>1. PICK c \in Call : BeginStartMakes(h, c, u, n, multipath)
    BY <1>1, BeginStartCall
  <2>2. PlacedCall(c)'
    BY <2>1 DEF BeginStartMakes, PlacedCall, Registering
  <2>3. \A g \in Handlers : PlacedCall(calls[g])'
    BY <2>1, <2>2, OthersPlaced DEF BeginStartMakes
  <2>. QED BY <2>1, <2>3 DEF BeginStartMakes, Placed, Serves
<1>2. ASSUME NEW h \in Handlers, NEW s \in Sessions, BeginStop(h, s)
      PROVE  Placed'
  <2>1. PICK c \in Call : BeginStopMakes(h, c, s)
    BY <1>2, BeginStopCall
  <2>2. PlacedCall(c)'
    BY <2>1 DEF BeginStopMakes, PlacedCall, Registering
  <2>3. \A g \in Handlers : PlacedCall(calls[g])'
    BY <2>1, <2>2, OthersPlaced DEF BeginStopMakes
  <2>. QED BY <2>1, <2>3 DEF BeginStopMakes, Placed, Serves
<1>3. ASSUME NEW h \in Handlers, NEW s \in Sessions, BeginAdminStop(h, s)
      PROVE  Placed'
  <2>1. PICK c \in Call : BeginAdminStopMakes(h, c, s)
    BY <1>3, BeginAdminStopCall
  <2>2. PlacedCall(c)'
    BY <2>1 DEF BeginAdminStopMakes, PlacedCall, Registering
  <2>3. \A g \in Handlers : PlacedCall(calls[g])'
    BY <2>1, <2>2, OthersPlaced DEF BeginAdminStopMakes
  <2>. QED BY <2>1, <2>3 DEF BeginAdminStopMakes, Placed, Serves
<1>4. ASSUME NEW h \in Handlers, CheckActive(h)
      PROVE  Placed'
  <2>1. PICK c \in Call : CheckActiveMakes(h, c)
    BY <1>4, CheckActiveCall
  <2>2. PlacedCall(c)'
    BY <2>1 DEF CheckActiveMakes, PlacedCall, Registering
  <2>3. \A g \in Handlers : PlacedCall(calls[g])'
    BY <2>1, <2>2, OthersPlaced DEF CheckActiveMakes
  <2>. QED BY <2>1, <2>3 DEF CheckActiveMakes, Placed, Serves
<1>5. ASSUME NEW h \in Handlers, FindBackup(h)
      PROVE  Placed'
  <2>1. PICK c \in Call : FindBackupMakes(h, c)
    BY <1>5, FindBackupCall
  <2>2. PlacedCall(c)'
    BY <2>1 DEF FindBackupMakes, PlacedCall, Registering
  <2>3. \A g \in Handlers : PlacedCall(calls[g])'
    BY <2>1, <2>2, OthersPlaced DEF FindBackupMakes
  <2>. QED BY <2>1, <2>3 DEF FindBackupMakes, Placed, Serves
<1>6. ASSUME NEW h \in Handlers, NEW s \in Sessions, Commit(h, s)
      PROVE  Placed'
  <2>1. PICK c \in Call : CommitMakes(h, c, s)
    BY <1>6, CommitCall
  <2>2. \A t \in Sessions \ {s} : rows'[t] = rows[t]
    BY <1>0, <2>1 DEF CommitMakes, Rest
  <2>3. rows[s].status = "none" /\ rows'[s] = Placement(c) /\ c.session = s
    BY <1>0, <2>1 DEF CommitMakes, Shaped, Used, Rest
  <2>4. PlacedCall(c)'
    BY <2>1, <2>3 DEF CommitMakes, Placement, PlacedCall
  <2>5. \A g \in Handlers \ {h} : PlacedCall(calls[g])'
    <3>1. \A g \in Handlers : calls[g].pc \in Registering => calls[g].session \in Sessions
      BY <1>0 DEF Handling, CallSet, Registering
    <3>. QED BY <2>1, <2>2, <2>3, <3>1
                DEF CommitMakes, Becomes, Placed, PlacedCall
  <2>6. \A t \in Sessions, n \in Nodes : Serves(n, t) => Serves(n, t)'
    BY <2>2, <2>3 DEF Serves
  <2>7. \A m \in wire : m.session \in Sessions /\ m.to \in Nodes
    BY <1>0 DEF Rest, RelayRequest
  <2>8. \A n \in Nodes : relay[n] \subseteq Sessions
    BY <1>0 DEF Rest
  <2>. QED BY <2>1, <2>4, <2>5, <2>6, <2>7, <2>8
              DEF CommitMakes, Becomes, Placed
<1>7. ASSUME NEW h \in Handlers, LoadActive(h)
      PROVE  Placed'
  <2>1. PICK c \in Call : LoadActiveMakes(h, c)
    BY <1>7, LoadActiveCall
  <2>2. PlacedCall(c)'
    BY <2>1 DEF LoadActiveMakes, PlacedCall, Registering
  <2>3. \A g \in Handlers : PlacedCall(calls[g])'
    BY <2>1, <2>2, OthersPlaced DEF LoadActiveMakes
  <2>. QED BY <2>1, <2>3 DEF LoadActiveMakes, Placed, Serves
<1>8. ASSUME NEW h \in Handlers, CommitStop(h)
      PROVE  Placed'
  <2>1. PICK c \in Call : CommitStopMakes(h, c)
    BY <1>8, CommitStopCall
  <2>2. c.session \in Sessions /\ calls[h].pc = "stop" /\ SameCall(h, c)
    BY <1>0, <2>1 DEF CommitStopMakes, SameCall, Handling, CallSet
  <2>3. \A t \in Sessions :
          /\ rows'[t].node = rows[t].node /\ rows'[t].backup = rows[t].backup
          /\ rows[t].status # "none" => rows'[t].status # "none"
    BY <1>0, <2>1, <2>2 DEF CommitStopMakes, Rest, Row
  <2>4. PlacedCall(c)'
    <3>1. c.op \in {"stop", "admin"}
      BY <1>0, <2>2 DEF SameCall, Handling, CallSet
    <3>. QED BY <3>1 DEF PlacedCall
  <2>5. \A g \in Handlers \ {h} : PlacedCall(calls[g])'
    <3>1. \A g \in Handlers : calls[g].pc \in Registering => calls[g].session \in Sessions
      BY <1>0 DEF Handling, CallSet, Registering
    <3>. QED BY <2>1, <2>3, <3>1
                DEF CommitStopMakes, Becomes, Placed, PlacedCall
  <2>6. \A t \in Sessions, n \in Nodes : Serves(n, t) => Serves(n, t)'
    BY <2>3 DEF Serves
  <2>7. \A m \in wire : m.session \in Sessions /\ m.to \in Nodes
    BY <1>0 DEF Rest, RelayRequest
  <2>8. \A n \in Nodes : relay[n] \subseteq Sessions
    BY <1>0 DEF Rest
  <2>. QED BY <2>1, <2>4, <2>5, <2>6, <2>7, <2>8
              DEF CommitStopMakes, Becomes, Placed
<1>9. ASSUME NEW h \in Handlers, CallRelay(h)
      PROVE  Placed'
  <2>1. PICK c \in Call : CallRelayMakes(h, c)
    BY <1>9, CallRelayCall
  <2>2. PlacedCall(c)' /\ PlacedCall(calls[h])
    BY <2>1 DEF CallRelayMakes, SameCall, PlacedCall, Placed, Registering
  <2>3. Request(h).op = "start" => Serves(Request(h).to, Request(h).session)
    <3>1. /\ Request(h).op = calls[h].op /\ Request(h).session = calls[h].session
          /\ Request(h).to \in {calls[h].node, calls[h].backup}
      BY <1>0, <2>1, RequestTyped DEF CallRelayMakes
    <3>. QED BY <2>1, <2>2, <3>1 DEF CallRelayMakes, PlacedCall, Serves
  <2>4. \A g \in Handlers : PlacedCall(calls[g])'
    BY <2>1, <2>2, OthersPlaced DEF CallRelayMakes
  <2>. QED BY <2>1, <2>3, <2>4 DEF CallRelayMakes, Placed, Serves
<1>10. ASSUME NEW h \in Handlers, TimesOut(h)
      PROVE  Placed'
  <2>1. PICK c \in Call : TimesOutMakes(h, c)
    BY <1>10, TimesOutCall
  <2>2. PlacedCall(c)'
    BY <2>1 DEF TimesOutMakes, SameCall, Placed, PlacedCall, Registering
  <2>3. \A g \in Handlers : PlacedCall(calls[g])'
    BY <2>1, <2>2, OthersPlaced DEF TimesOutMakes
  <2>. QED BY <2>1, <2>3 DEF TimesOutMakes, Placed, Serves
<1>11. ASSUME NEW h \in Handlers, Return(h)
      PROVE  Placed'
  <2>1. PICK c \in Call : ReturnMakes(h, c)
    BY <1>11, ReturnCall
  <2>2. PlacedCall(c)'
    BY <2>1 DEF ReturnMakes, PlacedCall, Registering
  <2>3. \A g \in Handlers : PlacedCall(calls[g])'
    BY <2>1, <2>2, OthersPlaced DEF ReturnMakes
  <2>. QED BY <2>1, <2>3 DEF ReturnMakes, Placed, Serves
<1>12. ASSUME NEW m \in wire, RelayHandles(m)
      PROVE  Placed'
  <2>1. m \in RelayRequest /\ wire' = wire \ {m} /\ UNCHANGED <<rows, playing>>
    BY <1>12, RelayAnswers DEF Answers
  <2>2. ASSUME calls' = calls PROVE \A g \in Handlers : PlacedCall(calls[g])'
    BY <2>1, <2>2 DEF Placed, PlacedCall
  <2>3. ASSUME NEW h \in Handlers, NEW c \in Call, Advanced(h, c)
        PROVE  \A g \in Handlers : PlacedCall(calls[g])'
    <3>1. PlacedCall(c)'
      BY <2>1, <2>3 DEF Advanced, SameCall, Placed, PlacedCall, Registering
    <3>. QED BY <2>1, <2>3, <3>1, OthersPlaced DEF Advanced
  <2>4. \A g \in Handlers : PlacedCall(calls[g])'
    BY <1>12, <2>2, <2>3, RelayNoticed DEF Noticed
  <2>5. \A n \in Nodes : \A s \in relay'[n] : Serves(n, s)
    <3>1. \/ relay' = relay
          \/ m.op = "start" /\ relay' = [relay EXCEPT ![m.to] = @ \cup {m.session}]
          \/ relay' = [relay EXCEPT ![m.to] = @ \ {m.session}]
      BY <1>12, RelayAnswers DEF Answers
    <3>2. m.op = "start" => Serves(m.to, m.session)
      BY DEF Placed
    <3>3. relay \in [Nodes -> SUBSET Sessions]
      BY <1>0 DEF Rest
    <3>. QED BY <3>1, <3>2, <3>3 DEF Placed
  <2>. QED BY <2>1, <2>4, <2>5 DEF Placed, Serves
<1>13. ASSUME NEW m \in wire, Lose(m)
      PROVE  Placed'
  BY <1>0, <1>13 DEF Lose, Placed, PlacedCall, Serves
<1>14. ASSUME NEW n \in Nodes, RelayRestarts(n)
      PROVE  Placed'
  BY <1>0, <1>14 DEF RelayRestarts, Placed, PlacedCall, Serves
<1>15. ASSUME NEW n \in Nodes, NEW s \in Sessions, RelayExpires(n, s)
      PROVE  Placed'
  BY <1>0, <1>15 DEF RelayExpires, Placed, PlacedCall, Serves
<1>16. ASSUME NEW s \in Sessions, PlayerLeaves(s)
      PROVE  Placed'
  BY <1>0, <1>16 DEF PlayerLeaves, Placed, PlacedCall, Serves
<1>17. CASE UNCHANGED vars
  BY <1>0, <1>17 DEF vars, Placed, PlacedCall, Serves
<1>. QED
  BY <1>1, <1>2, <1>3, <1>4, <1>5, <1>6, <1>7, <1>8,
     <1>9, <1>10, <1>11, <1>12, <1>13, <1>14, <1>15, <1>16,
     <1>17
     DEF Next, Caller, Start, Stop

\* Every step keeps the backups apart.
LEMMA ChosenStep == TypeOK /\ Learnt /\ Chosen /\ [Next]_vars => Chosen'
<1> SUFFICES ASSUME TypeOK /\ Learnt /\ Chosen, [Next]_vars
             PROVE Chosen'
  OBVIOUS
<1>0. Rest /\ Handling
  BY Parts
<1>1. ASSUME NEW h \in Handlers, NEW u \in Users, NEW n \in Nodes,
             NEW multipath \in BOOLEAN, BeginStart(h, u, n, multipath)
      PROVE  Chosen'
  <2>1. PICK c \in Call : BeginStartMakes(h, c, u, n, multipath)
    BY <1>1, BeginStartCall
  <2>2. ChosenCall(c)
    BY <2>1 DEF BeginStartMakes, ChosenCall
  <2>. QED BY <2>1, <2>2 DEF BeginStartMakes, Becomes, Chosen
<1>2. ASSUME NEW h \in Handlers, NEW s \in Sessions, BeginStop(h, s)
      PROVE  Chosen'
  <2>1. PICK c \in Call : BeginStopMakes(h, c, s)
    BY <1>2, BeginStopCall
  <2>2. ChosenCall(c)
    BY <2>1 DEF BeginStopMakes, ChosenCall
  <2>. QED BY <2>1, <2>2 DEF BeginStopMakes, Becomes, Chosen
<1>3. ASSUME NEW h \in Handlers, NEW s \in Sessions, BeginAdminStop(h, s)
      PROVE  Chosen'
  <2>1. PICK c \in Call : BeginAdminStopMakes(h, c, s)
    BY <1>3, BeginAdminStopCall
  <2>2. ChosenCall(c)
    BY <2>1 DEF BeginAdminStopMakes, ChosenCall
  <2>. QED BY <2>1, <2>2 DEF BeginAdminStopMakes, Becomes, Chosen
<1>4. ASSUME NEW h \in Handlers, CheckActive(h)
      PROVE  Chosen'
  <2>1. PICK c \in Call : CheckActiveMakes(h, c)
    BY <1>4, CheckActiveCall
  <2>2. ChosenCall(c)
    BY <2>1 DEF CheckActiveMakes, SameCall, Chosen, ChosenCall, Apart
  <2>. QED BY <2>1, <2>2 DEF CheckActiveMakes, Becomes, Chosen
<1>5. ASSUME NEW h \in Handlers, FindBackup(h)
      PROVE  Chosen'
  <2>1. PICK c \in Call : FindBackupMakes(h, c)
    BY <1>5, FindBackupCall
  <2>2. ChosenCall(c)
    BY <2>1 DEF FindBackupMakes, ChosenCall
  <2>. QED BY <2>1, <2>2 DEF FindBackupMakes, Becomes, Chosen
<1>6. ASSUME NEW h \in Handlers, NEW s \in Sessions, Commit(h, s)
      PROVE  Chosen'
  <2>1. PICK c \in Call : CommitMakes(h, c, s)
    BY <1>6, CommitCall
  <2>2. rows' = [rows EXCEPT ![s] = Placement(c)] /\ Apart(c.node, c.backup)
    BY <2>1 DEF CommitMakes, Chosen, ChosenCall
  <2>3. rows'[s].node = c.node /\ rows'[s].backup = c.backup
    BY <1>0, <2>2 DEF Rest, Placement
  <2>4. \A t \in Sessions \ {s} : rows'[t] = rows[t]
    BY <1>0, <2>2 DEF Rest
  <2>5. ChosenCall(c)
    BY <2>1 DEF CommitMakes, ChosenCall
  <2>. QED BY <2>1, <2>2, <2>3, <2>4, <2>5 DEF CommitMakes, Becomes, Chosen
<1>7. ASSUME NEW h \in Handlers, LoadActive(h)
      PROVE  Chosen'
  <2>1. PICK c \in Call : LoadActiveMakes(h, c)
    BY <1>7, LoadActiveCall
  <2>2. ChosenCall(c)
    BY <2>1 DEF LoadActiveMakes, ChosenCall
  <2>. QED BY <2>1, <2>2 DEF LoadActiveMakes, Becomes, Chosen
<1>8. ASSUME NEW h \in Handlers, CommitStop(h)
      PROVE  Chosen'
  <2>1. PICK c \in Call : CommitStopMakes(h, c)
    BY <1>8, CommitStopCall
  <2>2. c.session \in Sessions /\ rows[c.session].status # "none"
    BY <1>0, <2>1 DEF CommitStopMakes, SameCall, Handling, CallSet, Learnt
  <2>3. \A t \in Sessions :
          /\ rows'[t].node = rows[t].node /\ rows'[t].backup = rows[t].backup
          /\ rows'[t].status # "none" => rows[t].status # "none"
    BY <1>0, <2>1, <2>2 DEF CommitStopMakes, Rest, Row
  <2>4. ChosenCall(c)
    BY <2>1 DEF CommitStopMakes, ChosenCall
  <2>. QED BY <2>1, <2>3, <2>4 DEF CommitStopMakes, Becomes, Chosen
<1>9. ASSUME NEW h \in Handlers, CallRelay(h)
      PROVE  Chosen'
  <2>1. PICK c \in Call : CallRelayMakes(h, c)
    BY <1>9, CallRelayCall
  <2>2. ChosenCall(c)
    BY <2>1 DEF CallRelayMakes, ChosenCall, Registering
  <2>. QED BY <2>1, <2>2 DEF CallRelayMakes, Becomes, Chosen
<1>10. ASSUME NEW h \in Handlers, TimesOut(h)
      PROVE  Chosen'
  <2>1. PICK c \in Call : TimesOutMakes(h, c)
    BY <1>10, TimesOutCall
  <2>2. ChosenCall(c)
    BY <2>1 DEF TimesOutMakes, ChosenCall, Registering
  <2>. QED BY <2>1, <2>2 DEF TimesOutMakes, Becomes, Chosen
<1>11. ASSUME NEW h \in Handlers, Return(h)
      PROVE  Chosen'
  <2>1. PICK c \in Call : ReturnMakes(h, c)
    BY <1>11, ReturnCall
  <2>2. ChosenCall(c)
    BY <2>1 DEF ReturnMakes, ChosenCall
  <2>. QED BY <2>1, <2>2 DEF ReturnMakes, Becomes, Chosen
<1>12. ASSUME NEW m \in wire, RelayHandles(m)
      PROVE  Chosen'
  <2>1. m \in RelayRequest /\ wire' = wire \ {m} /\ UNCHANGED <<rows, playing>>
    BY <1>12, RelayAnswers DEF Answers
  <2>2. ASSUME calls' = calls PROVE \A g \in Handlers : ChosenCall(calls[g])'
    BY <2>2 DEF Chosen
  <2>3. ASSUME NEW h \in Handlers, NEW c \in Call, Advanced(h, c)
        PROVE  \A g \in Handlers : ChosenCall(calls[g])'
    BY <2>3 DEF Advanced, Becomes, Chosen, ChosenCall
  <2>4. \A g \in Handlers : ChosenCall(calls[g])'
    BY <1>12, <2>2, <2>3, RelayNoticed DEF Noticed
  <2>. QED BY <2>1, <2>4 DEF Chosen
<1>13. ASSUME NEW m \in wire, Lose(m)
      PROVE  Chosen'
  BY <1>0, <1>13 DEF Lose, Chosen
<1>14. ASSUME NEW n \in Nodes, RelayRestarts(n)
      PROVE  Chosen'
  BY <1>0, <1>14 DEF RelayRestarts, Chosen
<1>15. ASSUME NEW n \in Nodes, NEW s \in Sessions, RelayExpires(n, s)
      PROVE  Chosen'
  BY <1>0, <1>15 DEF RelayExpires, Chosen
<1>16. ASSUME NEW s \in Sessions, PlayerLeaves(s)
      PROVE  Chosen'
  BY <1>0, <1>16 DEF PlayerLeaves, Chosen
<1>17. CASE UNCHANGED vars
  BY <1>0, <1>17 DEF vars, Chosen
<1>. QED
  BY <1>1, <1>2, <1>3, <1>4, <1>5, <1>6, <1>7, <1>8,
     <1>9, <1>10, <1>11, <1>12, <1>13, <1>14, <1>15, <1>16,
     <1>17
     DEF Next, Caller, Start, Stop

\* Every step keeps a user's calls apart and the active session single.
LEMMA SingleStep ==
  ASSUME OneCallPerUser
  PROVE  TypeOK /\ Single /\ [Next]_vars => Single'
<1> SUFFICES ASSUME TypeOK /\ Single, [Next]_vars PROVE Single' OBVIOUS
<1>0. Rest /\ Handling
  BY Parts
<1>1. ASSUME NEW h \in Handlers, NEW u \in Users, NEW n \in Nodes,
             NEW multipath \in BOOLEAN, BeginStart(h, u, n, multipath)
      PROVE  Single'
  <2>1. PICK c \in Call : BeginStartMakes(h, c, u, n, multipath)
    BY <1>1, BeginStartCall
  <2>2. ClearCall(c)' /\ Alone'
    BY <2>1 DEF BeginStartMakes, Becomes, ClearCall, Single, Alone
  <2>. QED BY <2>1, <2>2
              DEF BeginStartMakes, Becomes, Single, ClearCall, ActiveOf
<1>2. ASSUME NEW h \in Handlers, NEW s \in Sessions, BeginStop(h, s)
      PROVE  Single'
  <2>1. PICK c \in Call : BeginStopMakes(h, c, s)
    BY <1>2, BeginStopCall
  <2>2. ClearCall(c)' /\ Alone'
    BY <2>1 DEF BeginStopMakes, Becomes, ClearCall, Single, Alone
  <2>. QED BY <2>1, <2>2
              DEF BeginStopMakes, Becomes, Single, ClearCall, ActiveOf
<1>3. ASSUME NEW h \in Handlers, NEW s \in Sessions, BeginAdminStop(h, s)
      PROVE  Single'
  <2>1. PICK c \in Call : BeginAdminStopMakes(h, c, s)
    BY <1>3, BeginAdminStopCall
  <2>2. ClearCall(c)'
    BY <2>1 DEF BeginAdminStopMakes, SameCall, ClearCall, Single, ActiveOf
  <2>3. Alone'
    BY <2>1, AloneKept DEF BeginAdminStopMakes, SameCall, Single
  <2>4. \A g \in Handlers : ClearCall(calls[g])'
    BY <2>1, <2>2, OthersClear DEF BeginAdminStopMakes
  <2>. QED BY <2>1, <2>3, <2>4 DEF BeginAdminStopMakes, Single, ActiveOf
<1>4. ASSUME NEW h \in Handlers, CheckActive(h)
      PROVE  Single'
  <2>1. PICK c \in Call : CheckActiveMakes(h, c)
    BY <1>4, CheckActiveCall
  <2>2. ClearCall(c)'
    BY <2>1 DEF CheckActiveMakes, SameCall, ClearCall, Single, ActiveOf
  <2>3. Alone'
    BY <2>1, AloneKept DEF CheckActiveMakes, SameCall, Single
  <2>4. \A g \in Handlers : ClearCall(calls[g])'
    BY <2>1, <2>2, OthersClear DEF CheckActiveMakes
  <2>. QED BY <2>1, <2>3, <2>4 DEF CheckActiveMakes, Single, ActiveOf
<1>5. ASSUME NEW h \in Handlers, FindBackup(h)
      PROVE  Single'
  <2>1. PICK c \in Call : FindBackupMakes(h, c)
    BY <1>5, FindBackupCall
  <2>2. ClearCall(c)'
    BY <2>1 DEF FindBackupMakes, SameCall, ClearCall, Single, ActiveOf
  <2>3. Alone'
    BY <2>1, AloneKept DEF FindBackupMakes, SameCall, Single
  <2>4. \A g \in Handlers : ClearCall(calls[g])'
    BY <2>1, <2>2, OthersClear DEF FindBackupMakes
  <2>. QED BY <2>1, <2>3, <2>4 DEF FindBackupMakes, Single, ActiveOf
<1>6. ASSUME NEW h \in Handlers, NEW s \in Sessions, Commit(h, s)
      PROVE  Single'
  <2>1. PICK c \in Call : CommitMakes(h, c, s)
    BY <1>6, CommitCall
  <2>2. c.user \in Users /\ c.user # None /\ c.user = calls[h].user
    BY <1>0, <2>1, ServiceAssumption DEF CommitMakes, Handling, CallSet
  <2>3. ActiveOf(c.user) = {}
    BY <2>1 DEF CommitMakes, Single, ClearCall
  <2>4. rows' = [rows EXCEPT ![s] = Placement(c)] /\ rows'[s].user = c.user
    BY <1>0, <2>1 DEF CommitMakes, Rest, Placement
  <2>5. \A u : ActiveOf(u)' = IF u = c.user THEN {s} ELSE ActiveOf(u) \ {s}
    <3>1. \A t \in Sessions \ {s} : rows'[t] = rows[t]
      BY <1>0, <2>4 DEF Rest
    <3>2. rows'[s].status = "active"
      BY <1>0, <2>4 DEF Rest, Placement
    <3>. QED BY <2>3, <2>4, <3>1, <3>2 DEF ActiveOf
  <2>6. Alone'
    BY <2>1, AloneKept DEF CommitMakes, Single
  <2>7. ClearCall(c)'
    BY <2>1 DEF CommitMakes, ClearCall
  <2>8. \A g \in Handlers \ {h} : ClearCall(calls[g])'
    <3>1. \A g \in Handlers \ {h} : calls'[g] = calls[g] /\ calls[g].user # c.user
      BY <2>1, <2>2 DEF CommitMakes, Becomes, Single, Alone
    <3>. QED BY <2>5, <3>1 DEF Single, ClearCall
  <2>9. \A u \in Users : \A x, y \in ActiveOf(u)' : x = y
    BY <2>5 DEF Single
  <2>. QED BY <2>1, <2>6, <2>7, <2>8, <2>9 DEF CommitMakes, Becomes, Single
<1>7. ASSUME NEW h \in Handlers, LoadActive(h)
      PROVE  Single'
  <2>1. PICK c \in Call : LoadActiveMakes(h, c)
    BY <1>7, LoadActiveCall
  <2>2. ClearCall(c)'
    BY <2>1 DEF LoadActiveMakes, SameCall, ClearCall, Single, ActiveOf
  <2>3. Alone'
    BY <2>1, AloneKept DEF LoadActiveMakes, SameCall, Single
  <2>4. \A g \in Handlers : ClearCall(calls[g])'
    BY <2>1, <2>2, OthersClear DEF LoadActiveMakes
  <2>. QED BY <2>1, <2>3, <2>4 DEF LoadActiveMakes, Single, ActiveOf
<1>8. ASSUME NEW h \in Handlers, CommitStop(h)
      PROVE  Single'
  <2>1. PICK c \in Call : CommitStopMakes(h, c)
    BY <1>8, CommitStopCall
  <2>2. c.session \in Sessions
    BY <1>0, <2>1 DEF CommitStopMakes, SameCall, Handling, CallSet
  <2>3. \A t \in Sessions : rows'[t].user = rows[t].user
                              /\ (rows'[t].status = "active" => rows[t].status = "active")
    BY <1>0, <2>1, <2>2 DEF CommitStopMakes, Rest, Row
  <2>4. \A u : ActiveOf(u)' \subseteq ActiveOf(u)
    BY <2>3 DEF ActiveOf
  <2>5. Alone' /\ ClearCall(c)'
    BY <2>1, AloneKept DEF CommitStopMakes, SameCall, ClearCall, Single
  <2>6. \A g \in Handlers \ {h} : ClearCall(calls[g])'
    BY <2>1, <2>4 DEF CommitStopMakes, Becomes, Single, ClearCall
  <2>. QED BY <2>1, <2>4, <2>5, <2>6 DEF CommitStopMakes, Becomes, Single
<1>9. ASSUME NEW h \in Handlers, CallRelay(h)
      PROVE  Single'
  <2>1. PICK c \in Call : CallRelayMakes(h, c)
    BY <1>9, CallRelayCall
  <2>2. ClearCall(c)'
    BY <2>1 DEF CallRelayMakes, SameCall, ClearCall, Single, ActiveOf
  <2>3. Alone'
    BY <2>1, AloneKept DEF CallRelayMakes, SameCall, Single
  <2>4. \A g \in Handlers : ClearCall(calls[g])'
    BY <2>1, <2>2, OthersClear DEF CallRelayMakes
  <2>. QED BY <2>1, <2>3, <2>4 DEF CallRelayMakes, Single, ActiveOf
<1>10. ASSUME NEW h \in Handlers, TimesOut(h)
      PROVE  Single'
  <2>1. PICK c \in Call : TimesOutMakes(h, c)
    BY <1>10, TimesOutCall
  <2>2. ClearCall(c)'
    BY <2>1 DEF TimesOutMakes, SameCall, ClearCall, Single, ActiveOf
  <2>3. Alone'
    BY <2>1, AloneKept DEF TimesOutMakes, SameCall, Single
  <2>4. \A g \in Handlers : ClearCall(calls[g])'
    BY <2>1, <2>2, OthersClear DEF TimesOutMakes
  <2>. QED BY <2>1, <2>3, <2>4 DEF TimesOutMakes, Single, ActiveOf
<1>11. ASSUME NEW h \in Handlers, Return(h)
      PROVE  Single'
  <2>1. PICK c \in Call : ReturnMakes(h, c)
    BY <1>11, ReturnCall
  <2>2. ClearCall(c)'
    BY <2>1 DEF ReturnMakes, SameCall, ClearCall, Single, ActiveOf
  <2>3. Alone'
    BY <2>1, AloneKept DEF ReturnMakes, SameCall, Single
  <2>4. \A g \in Handlers : ClearCall(calls[g])'
    BY <2>1, <2>2, OthersClear DEF ReturnMakes
  <2>. QED BY <2>1, <2>3, <2>4 DEF ReturnMakes, Single, ActiveOf
<1>12. ASSUME NEW m \in wire, RelayHandles(m)
      PROVE  Single'
  <2>1. m \in RelayRequest /\ wire' = wire \ {m} /\ UNCHANGED <<rows, playing>>
    BY <1>12, RelayAnswers DEF Answers
  <2>2. ASSUME calls' = calls PROVE Alone' /\ \A g \in Handlers : ClearCall(calls[g])'
    BY <2>1, <2>2 DEF Single, Alone, ClearCall, ActiveOf
  <2>3. ASSUME NEW h \in Handlers, NEW c \in Call, Advanced(h, c)
        PROVE  Alone' /\ \A g \in Handlers : ClearCall(calls[g])'
    <3>1. ClearCall(c)'
      BY <2>3 DEF Advanced, ClearCall
    <3>2. Alone'
      BY <2>3, AloneKept DEF Advanced, SameCall, Single
    <3>. QED BY ZenonT(30), <2>1, <2>3, <3>1, <3>2
                DEF Advanced, Becomes, Single, ClearCall, ActiveOf
  <2>4. Alone' /\ \A g \in Handlers : ClearCall(calls[g])'
    BY <1>12, <2>2, <2>3, RelayNoticed DEF Noticed
  <2>. QED BY <2>1, <2>4 DEF Single, ActiveOf
<1>13. ASSUME NEW m \in wire, Lose(m)
      PROVE  Single'
  BY <1>0, <1>13 DEF Lose, Single, Alone, ClearCall, ActiveOf
<1>14. ASSUME NEW n \in Nodes, RelayRestarts(n)
      PROVE  Single'
  BY <1>0, <1>14 DEF RelayRestarts, Single, Alone, ClearCall, ActiveOf
<1>15. ASSUME NEW n \in Nodes, NEW s \in Sessions, RelayExpires(n, s)
      PROVE  Single'
  BY <1>0, <1>15 DEF RelayExpires, Single, Alone, ClearCall, ActiveOf
<1>16. ASSUME NEW s \in Sessions, PlayerLeaves(s)
      PROVE  Single'
  BY <1>0, <1>16 DEF PlayerLeaves, Single, Alone, ClearCall, ActiveOf
<1>17. CASE UNCHANGED vars
  BY <1>0, <1>17 DEF vars, Single, Alone, ClearCall, ActiveOf
<1>. QED
  BY <1>1, <1>2, <1>3, <1>4, <1>5, <1>6, <1>7, <1>8,
     <1>9, <1>10, <1>11, <1>12, <1>13, <1>14, <1>15, <1>16,
     <1>17
     DEF Next, Caller, Start, Stop

-----------------------------------------------------------------------------
\* What holds whatever the callers do.
Typed == TypeOK /\ Learnt /\ Shaped

\* At the start there is nothing.
LEMMA AtStart == Init => Typed /\ Placed /\ Chosen /\ Single
<1> SUFFICES ASSUME Init PROVE Typed /\ Placed /\ Chosen /\ Single OBVIOUS
<1> USE DEF Init
<1>1. Idle \in Call /\ Idle.pc = "idle" /\ Idle.op = "none" /\ Idle.user = None
      /\ NoRow \in Row /\ NoRow.status = "none"
  BY DEF Idle, Call, NoRow, Row
<1>2. Handling /\ Learnt
  BY <1>1 DEF Handling, CallSet, Learnt
<1>3. Rest /\ Shaped
  BY <1>1 DEF Rest, Shaped
<1>4. Placed /\ Chosen
  BY <1>1 DEF Placed, PlacedCall, Registering, Chosen, ChosenCall
<1>5. Single
  BY <1>1 DEF Single, Alone, ClearCall, ActiveOf
<1>. QED BY <1>2, <1>3, <1>4, <1>5, Parts DEF Typed

\* Every step keeps the types.
LEMMA TypedStep == Typed /\ [Next]_vars => Typed'
<1> SUFFICES ASSUME Typed, [Next]_vars PROVE Typed' OBVIOUS
<1>1. Handling' /\ Learnt' /\ Rest' /\ Shaped'
  BY HandlingStep, LearntStep, RestStep DEF Typed
<1>. QED BY <1>1, PartsNext DEF Typed

\* Type correctness of the table, the handlers, the wire and the relays.
THEOREM ServiceTyped == Spec => []TypeOK
<1>1. Spec => []Typed
  BY AtStart, TypedStep, PTL DEF Spec
<1>2. Typed => TypeOK
  BY DEF Typed
<1>. QED BY <1>1, <1>2, PTL

\* A relay serves only sessions of the table that were placed on it, whatever
\* requests are lost, late or overtaken (session_service.py:75-95).
THEOREM ServesPlaced == Spec => []RegisteredWasPlaced
<1>1. Typed /\ Placed /\ [Next]_vars => Placed'
  BY PlacedStep DEF Typed
<1>2. Spec => []Placed
  BY <1>1, AtStart, TypedStep, PTL DEF Spec
<1>3. Placed => RegisteredWasPlaced
  BY DEF Placed, Serves, RegisteredWasPlaced, NoRow
<1>. QED BY <1>2, <1>3, PTL

\* A backup is another node, and elsewhere when there is one elsewhere
\* (node_service.py:18-38).
THEOREM BackupsApart == Spec => []BackupElsewhere
<1>1. Typed /\ Chosen /\ [Next]_vars => Chosen'
  BY ChosenStep DEF Typed
<1>2. Spec => [](Typed /\ Chosen)
  BY <1>1, AtStart, TypedStep, PTL DEF Spec
<1>3. Typed /\ Chosen => BackupElsewhere
  BY DEF Typed, Shaped, Chosen, Apart, BackupElsewhere, Used
<1>. QED BY <1>2, <1>3, PTL

\* While no two calls of one user overlap, a user has at most one active
\* session, whatever administrators and relays do (session_service.py:42-51).
THEOREM OneSession ==
  ASSUME OneCallPerUser
  PROVE  Spec => []OneActivePerUser
<1>1. Typed /\ Single /\ [Next]_vars => Single'
  BY SingleStep DEF Typed
<1>2. Spec => []Single
  BY <1>1, AtStart, TypedStep, PTL DEF Spec
<1>3. Single => OneActivePerUser
  <2> SUFFICES ASSUME Single, NEW u \in Users
               PROVE  Cardinality(ActiveOf(u)) <= 1
    BY DEF OneActivePerUser
  <2>1. CASE ActiveOf(u) = {}
    BY <2>1, FS_EmptySet
  <2>2. CASE ActiveOf(u) # {}
    <3>1. PICK s \in ActiveOf(u) : ActiveOf(u) = {s}
      BY <2>2 DEF Single
    <3>2. Cardinality({s}) = 1
      BY FS_Singleton, Zenon
    <3>. QED BY <3>1, <3>2
  <2>. QED BY <2>1, <2>2
<1>. QED BY <1>2, <1>3, PTL
-----------------------------------------------------------------------------
\* The commit of a start opens a session.
LEMMA CommitOpens ==
  ASSUME TypeOK, Shaped, Chosen, Single, NEW h \in Handlers, NEW s \in Sessions,
         Commit(h, s)
  PROVE  \E u \in Users, n \in Nodes, b \in Nodes \cup {None} : Book!Open(s, u, n, b)
<1>1. PICK c \in Call : CommitMakes(h, c, s)
  BY CommitCall
<1>2. c.user \in Users /\ c.node \in Nodes /\ c.backup \in Nodes \cup {None}
  BY <1>1, Parts DEF CommitMakes, Handling, CallSet, Call
<1>3. ActiveOf(c.user) = {} /\ Apart(c.node, c.backup)
  BY <1>1 DEF CommitMakes, Single, ClearCall, Chosen, ChosenCall
<1>4. rows[s] = NoRow
  BY <1>1 DEF CommitMakes, Used
<1>5. Book!Open(s, c.user, c.node, c.backup)
  BY <1>1, <1>3, <1>4 DEF CommitMakes, Placement, Book!Open, Book!NoRow, NoRow,
     Book!ActiveOf, ActiveOf, Book!Apart, Apart
<1>. QED BY <1>2, <1>5

\* The commit of a stop closes it, or it was closed before.
LEMMA CommitStopCloses ==
  ASSUME TypeOK, Learnt, NEW h \in Handlers, CommitStop(h)
  PROVE  (\E s \in Sessions : Book!Close(s)) \/ UNCHANGED Book!vars
<1> DEFINE s == calls[h].session
<1>1. calls[h].pc = "stop" /\ s \in Sessions /\ UNCHANGED relay
      /\ rows' = [rows EXCEPT ![s].status = "stopped"]
  BY Parts DEF CommitStop, Handling, CallSet
<1>2. rows[s] \in Row /\ rows \in [Sessions -> Row] /\ rows[s].status # "none"
  BY <1>1, Parts DEF Learnt, Rest
<1>3. CASE rows[s].status = "active"
  BY <1>1, <1>3 DEF Book!Close
<1>4. CASE rows[s].status = "stopped"
  <2>1. [rows[s] EXCEPT !.status = "stopped"] = rows[s]
    BY <1>2, <1>4 DEF Row
  <2>2. rows' = rows
    BY <1>1, <1>2, <2>1
  <2>. QED BY <1>1, <2>2 DEF Book!vars
<1>. QED BY <1>2, <1>3, <1>4 DEF Row

\* A relay that acts on a request serves what was placed on it, or less.
LEMMA RelayServes ==
  ASSUME TypeOK, Placed, NEW m \in wire, RelayHandles(m)
  PROVE  \/ \E n \in Nodes, s \in Sessions : Book!Serve(n, s)
         \/ \E n \in Nodes, gone \in SUBSET Sessions : Book!Abandon(n, gone)
         \/ UNCHANGED Book!vars
<1>1. Answers(m)
  BY RelayAnswers
<1>2. m.to \in Nodes /\ m.session \in Sessions /\ UNCHANGED rows
  BY <1>1 DEF Answers, RelayRequest
<1>3. CASE relay' = relay
  BY <1>2, <1>3 DEF Book!vars
<1>4. CASE m.op = "start" /\ relay' = [relay EXCEPT ![m.to] = @ \cup {m.session}]
  <2>1. Book!Serve(m.to, m.session)
    BY <1>2, <1>4 DEF Placed, Serves, Book!Serve
  <2>. QED BY <1>2, <2>1
<1>5. CASE relay' = [relay EXCEPT ![m.to] = @ \ {m.session}]
  <2>1. Book!Abandon(m.to, {m.session})
    BY <1>2, <1>5 DEF Book!Abandon
  <2>2. {m.session} \in SUBSET Sessions
    BY <1>2
  <2>. QED BY <1>2, <2>1, <2>2
<1>. QED BY <1>1, <1>3, <1>4, <1>5 DEF Answers

\* A relay that forgets sessions by itself abandons them.
LEMMA RelayAbandons ==
  ASSUME TypeOK, NEW n \in Nodes,
         RelayRestarts(n) \/ \E s \in Sessions : RelayExpires(n, s)
  PROVE  \E gone \in SUBSET Sessions : Book!Abandon(n, gone)
<1>1. relay \in [Nodes -> SUBSET Sessions] /\ UNCHANGED rows
  BY Parts DEF Rest, RelayRestarts, RelayExpires
<1>2. CASE RelayRestarts(n)
  <2>1. Book!Abandon(n, relay[n])
    BY <1>1, <1>2 DEF RelayRestarts, Book!Abandon
  <2>. QED BY <1>1, <2>1
<1>3. ASSUME NEW s \in Sessions, RelayExpires(n, s)
      PROVE  \E gone \in SUBSET Sessions : Book!Abandon(n, gone)
  <2>1. Book!Abandon(n, {s})
    BY <1>1, <1>3 DEF RelayExpires, Book!Abandon
  <2>. QED BY <2>1
<1>. QED BY <1>2, <1>3

\* Every step of the service is one of the ledger's, or does not show in it.
LEMMA LedgerStep ==
  ASSUME TypeOK, Learnt, Shaped, Placed, Chosen, Single, [Next]_vars
  PROVE  [Book!Next]_(Book!vars)
<1>1. ASSUME NEW h \in Handlers, Caller(h) \/ Start(h) \/ Stop(h) \/ CallRelay(h)
                                 \/ TimesOut(h) \/ Return(h)
      PROVE  [Book!Next]_(Book!vars)
  <2>1. ASSUME NEW s \in Sessions, Commit(h, s) PROVE Book!Next
    BY <2>1, CommitOpens DEF Book!Next
  <2>2. CASE CommitStop(h)
    BY <2>2, CommitStopCloses DEF Book!Next
  <2>3. CASE \/ Caller(h) \/ CheckActive(h) \/ FindBackup(h) \/ LoadActive(h)
             \/ CallRelay(h) \/ TimesOut(h) \/ Return(h)
    BY <2>3 DEF Caller, BeginStart, BeginStop, BeginAdminStop, CheckActive, FindBackup,
       LoadActive, CallRelay, TimesOut, Return, Book!vars
  <2>. QED BY <1>1, <2>1, <2>2, <2>3 DEF Start, Stop
<1>2. ASSUME NEW m \in wire, RelayHandles(m) \/ Lose(m)
      PROVE  [Book!Next]_(Book!vars)
  BY <1>2, RelayServes DEF Book!Next, Lose, Book!vars
<1>3. ASSUME NEW n \in Nodes, RelayRestarts(n) \/ \E s \in Sessions : RelayExpires(n, s)
      PROVE  Book!Next
  BY <1>3, RelayAbandons DEF Book!Next
<1>4. CASE UNCHANGED vars \/ \E s \in Sessions : PlayerLeaves(s)
  BY <1>4 DEF vars, PlayerLeaves, Book!vars
<1>. QED BY <1>1, <1>2, <1>3, <1>4 DEF Next

\* While no two calls of one user overlap, the service implements the ledger: its
\* sessions open and close at once, for good and one at a time, and the relays
\* serve only what was placed on them, whatever becomes of the messages.
THEOREM ServiceIsLedger ==
  ASSUME OneCallPerUser
  PROVE  Spec => IsLedger
<1>1. Init => Book!Init
  BY DEF Init, Book!Init, NoRow, Book!NoRow
<1>2. Typed /\ Placed /\ Chosen /\ Single /\ [Next]_vars
        => Placed' /\ Chosen' /\ Single' /\ [Book!Next]_(Book!vars)
  BY PlacedStep, ChosenStep, SingleStep, LedgerStep DEF Typed
<1>. QED BY <1>1, <1>2, AtStart, TypedStep, PTL DEF Spec, IsLedger, Book!Spec
=============================================================================
