--------------------------- MODULE SessionService ---------------------------
(***************************************************************************)
(* The control plane's session service (api/app/services/                  *)
(* session_service.py) with its three entry points: start and stop for     *)
(* users (api/app/routers/sessions.py) and stop for administrators         *)
(* (api/app/routers/admin.py); and its calls to the relays                 *)
(* (api/app/services/relay_client.py), as seen from the API.               *)
(*                                                                         *)
(* Handlers run concurrently: each await on the database or on a relay is  *)
(* a point where another handler may run, so each query, each commit and   *)
(* each HTTP call is a step of its own.  A call to a relay may be lost,    *)
(* answered late or not at all; the handler gives up after five seconds    *)
(* and goes on, whatever the outcome, and the request may still arrive.    *)
(*                                                                         *)
(* A session's token is drawn at random from 2^31 - 1 values; the model    *)
(* takes tokens to be distinct and lets the session stand for its token.   *)
(***************************************************************************)
EXTENDS Naturals, FiniteSets

CONSTANTS
  Users,
  Nodes,          \* relay nodes with status "active"
  Location,       \* the location of each node
  Sessions,       \* rows of the sessions table (a bound on starts)
  Handlers,       \* requests the API is serving at a time
  OneCallPerUser, \* TRUE: a user's calls never overlap
  Admins,         \* TRUE: administrators stop sessions too
  Late,           \* TRUE: relay calls may be lost or time out
  None

ASSUME ServiceAssumption ==
  /\ None \notin Users \cup Nodes \cup Sessions
  /\ OneCallPerUser \in BOOLEAN /\ Admins \in BOOLEAN /\ Late \in BOOLEAN
  /\ IsFiniteSet(Sessions) /\ IsFiniteSet(Nodes) /\ IsFiniteSet(Handlers)

VARIABLES
  rows,     \* the sessions table
  calls,    \* the local state of each handler
  wire,     \* HTTP requests on their way to a relay
  relay,    \* node |-> sessions registered there (relay/src/session.rs)
  playing   \* sessions whose client is sending packets

vars == <<rows, calls, wire, relay, playing>>

NoRow == [user |-> None, node |-> None, backup |-> None, status |-> "none"]

Idle == [pc |-> "idle", op |-> "none", user |-> None, node |-> None,
         multipath |-> FALSE, session |-> None, backup |-> None]

Used == {s \in Sessions : rows[s] # NoRow}
ActiveOf(u) == {s \in Sessions : rows[s].user = u /\ rows[s].status = "active"}

\* Calls that may still create a row.
Starting == {h \in Handlers : calls[h].pc \in {"check", "backup", "commit"}}

Goto(h, label) == calls' = [calls EXCEPT ![h].pc = label]

\* scalar_one_or_none(): None, the one element, or an exception.
Raises(S) == Cardinality(S) > 1
OneOrNone(S) == IF S = {} THEN None ELSE CHOOSE x \in S : TRUE
-----------------------------------------------------------------------------
(* start_session.                                                          *)

BeginStart(h, u, n, multipath) ==
  /\ calls[h].pc = "idle"
  /\ OneCallPerUser => \A g \in Handlers : calls[g].user # u
  /\ Cardinality(Used) + Cardinality(Starting) < Cardinality(Sessions)
  /\ calls' = [calls EXCEPT ![h] =
                 [Idle EXCEPT !.pc = "check", !.op = "start", !.user = u,
                              !.node = n, !.multipath = multipath]]
  /\ UNCHANGED <<rows, wire, relay, playing>>

\* A fault: the query looks for an active session on the same node.
CheckActiveOnNode(h) ==
  LET mine == {s \in ActiveOf(calls[h].user) : rows[s].node = calls[h].node} IN
  /\ calls[h].pc = "check"
  /\ Goto(h, IF Raises(mine) THEN "crashed"
             ELSE IF mine # {} THEN "refused"
             ELSE IF calls[h].multipath THEN "backup" ELSE "commit")
  /\ UNCHANGED <<rows, wire, relay, playing>>

\* The user must have no active session; with two of them the query raises.
CheckActive(h) ==
  LET mine == ActiveOf(calls[h].user) IN
  /\ calls[h].pc = "check"
  /\ Goto(h, IF Raises(mine) THEN "crashed"
             ELSE IF mine # {} THEN "refused"
             ELSE IF calls[h].multipath THEN "backup" ELSE "commit")
  /\ UNCHANGED <<rows, wire, relay, playing>>

Others(n) == Nodes \ {n}

\* A fault: the comparison of the locations is inverted.
Nearby(n) == {m \in Others(n) : Location[m] = Location[n]}

Elsewhere(n) == {m \in Others(n) : Location[m] # Location[n]}

\* find_backup_node: another node, in another location if there is one.
FindBackup(h) ==
  LET n == calls[h].node
      found == IF Elsewhere(n) # {} THEN Elsewhere(n) ELSE Others(n) IN
  /\ calls[h].pc = "backup"
  /\ calls' = IF Raises(found)
              THEN [calls EXCEPT ![h].pc = "crashed"]
              ELSE [calls EXCEPT ![h].pc = "commit",
                                 ![h].backup = OneOrNone(found)]
  /\ UNCHANGED <<rows, wire, relay, playing>>

\* A fault: the relays are told before the row is committed.
CommitAfterwards(h, s) ==
  /\ calls[h].pc = "commit"
  /\ s \notin Used
  /\ wire' = wire \cup {[from |-> h, to |-> calls[h].node, op |-> "start",
                         session |-> s]}
  /\ calls' = [calls EXCEPT ![h].pc = "waitPrimary", ![h].session = s]
  /\ UNCHANGED <<rows, relay, playing>>

Commit(h, s) ==
  /\ calls[h].pc = "commit"
  /\ s \notin Used
  /\ rows' = [rows EXCEPT ![s] =
                [user |-> calls[h].user, node |-> calls[h].node,
                 backup |-> calls[h].backup, status |-> "active"]]
  /\ calls' = [calls EXCEPT ![h].pc = "primary", ![h].session = s]
  /\ UNCHANGED <<wire, relay, playing>>
-----------------------------------------------------------------------------
(* stop_session, for the owner and for an administrator.                   *)

\* A fault: the client goes on sending.
BeginStopPlaying(h, s) ==
  /\ calls[h].pc = "idle"
  /\ s \in Used
  /\ OneCallPerUser => \A g \in Handlers : calls[g].user # rows[s].user
  /\ calls' = [calls EXCEPT ![h] =
                 [Idle EXCEPT !.pc = "load", !.op = "stop",
                              !.user = rows[s].user, !.session = s]]
  /\ UNCHANGED <<rows, wire, relay, playing>>

\* The client stops its data path before it calls stop.
BeginStop(h, s) ==
  /\ calls[h].pc = "idle"
  /\ s \in Used
  /\ OneCallPerUser => \A g \in Handlers : calls[g].user # rows[s].user
  /\ calls' = [calls EXCEPT ![h] =
                 [Idle EXCEPT !.pc = "load", !.op = "stop",
                              !.user = rows[s].user, !.session = s]]
  /\ playing' = playing \ {s}
  /\ UNCHANGED <<rows, wire, relay>>

BeginAdminStop(h, s) ==
  /\ Admins
  /\ calls[h].pc = "idle"
  /\ s \in Used
  /\ calls' = [calls EXCEPT ![h] =
                 [Idle EXCEPT !.pc = "load", !.op = "admin", !.session = s]]
  /\ UNCHANGED <<rows, wire, relay, playing>>

\* A fault: the row's node is not read.
LoadActiveOnly(h) ==
  /\ calls[h].pc = "load"
  /\ Goto(h, IF rows[calls[h].session].status = "active"
             THEN "stop" ELSE "refused")
  /\ UNCHANGED <<rows, wire, relay, playing>>

LoadActive(h) ==
  LET row == rows[calls[h].session] IN
  /\ calls[h].pc = "load"
  /\ calls' = IF row.status = "active"
              THEN [calls EXCEPT ![h].pc = "stop", ![h].node = row.node,
                                 ![h].backup = row.backup]
              ELSE [calls EXCEPT ![h].pc = "refused"]
  /\ UNCHANGED <<rows, wire, relay, playing>>

\* The owner's stop goes on to the relays, the administrator's returns.
CommitStop(h) ==
  /\ calls[h].pc = "stop"
  /\ rows' = [rows EXCEPT ![calls[h].session].status = "stopped"]
  /\ Goto(h, IF calls[h].op = "admin" THEN "done" ELSE "primary")
  /\ UNCHANGED <<wire, relay, playing>>
-----------------------------------------------------------------------------
(* register_session_on_relay and unregister_session_on_relay: to the       *)
(* primary first, then to the backup when there is one.                    *)

Request(h) ==
  [from |-> h, op |-> calls[h].op, session |-> calls[h].session,
   to |-> IF calls[h].pc \in {"primary", "waitPrimary"} THEN calls[h].node
                                                        ELSE calls[h].backup]

Waiting(h) == calls[h].pc \in {"waitPrimary", "waitBackup"}

\* After an answer, or without one.
NextLeg(h) ==
  Goto(h, IF calls[h].pc = "waitPrimary" /\ calls[h].backup # None
          THEN "backup relay" ELSE "done")

CallRelay(h) ==
  /\ calls[h].pc \in {"primary", "backup relay"}
  /\ wire' = wire \cup {Request(h)}
  /\ Goto(h, IF calls[h].pc = "primary" THEN "waitPrimary" ELSE "waitBackup")
  /\ UNCHANGED <<rows, relay, playing>>

\* A fault: only an unsent request times out.
TimesOutConnecting(h) ==
  /\ Late /\ Waiting(h) /\ Request(h) \in wire
  /\ NextLeg(h)
  /\ UNCHANGED <<rows, wire, relay, playing>>

TimesOut(h) ==
  /\ Late /\ Waiting(h)
  /\ NextLeg(h)
  /\ UNCHANGED <<rows, wire, relay, playing>>

Lose(m) ==
  /\ Late
  /\ m \in wire
  /\ wire' = wire \ {m}
  /\ UNCHANGED <<rows, calls, relay, playing>>

\* The relay acts on a request: it may refuse to register (relay full, no
\* port).  The answer reaches the handler if that is still waiting for it,
\* and may be lost.
RelayHandles(m) ==
  /\ m \in wire
  /\ wire' = wire \ {m}
  /\ relay' \in IF m.op = "start"
                THEN {relay, [relay EXCEPT ![m.to] = @ \cup {m.session}]}
                ELSE {[relay EXCEPT ![m.to] = @ \ {m.session}]}
  /\ \/ Waiting(m.from) /\ Request(m.from) = m /\ NextLeg(m.from)
     \/ /\ Late \/ ~Waiting(m.from) \/ Request(m.from) # m
        /\ UNCHANGED calls
  /\ UNCHANGED <<rows, playing>>

\* The client has its answer and starts to send (start), or forgets it.
Return(h) ==
  /\ calls[h].pc \in {"done", "refused", "crashed"}
  /\ calls' = [calls EXCEPT ![h] = Idle]
  /\ playing' \in IF calls[h].pc = "done" /\ calls[h].op = "start"
                  THEN {playing, playing \cup {calls[h].session}}
                  ELSE {playing}
  /\ UNCHANGED <<rows, wire, relay>>
-----------------------------------------------------------------------------
(* The relay on its own.                                                   *)

\* cleanup_stale: nothing has come in for the session for the timeout.
RelayExpires(n, s) ==
  /\ s \in relay[n] /\ s \notin playing
  /\ relay' = [relay EXCEPT ![n] = @ \ {s}]
  /\ UNCHANGED <<rows, calls, wire, playing>>

\* The cache is in memory only.
RelayRestarts(n) ==
  /\ relay[n] # {}
  /\ relay' = [relay EXCEPT ![n] = {}]
  /\ UNCHANGED <<rows, calls, wire, playing>>

\* The player leaves without calling stop.
PlayerLeaves(s) ==
  /\ s \in playing
  /\ playing' = playing \ {s}
  /\ UNCHANGED <<rows, calls, wire, relay>>
-----------------------------------------------------------------------------
Init ==
  /\ rows = [s \in Sessions |-> NoRow]
  /\ calls = [h \in Handlers |-> Idle]
  /\ wire = {}
  /\ relay = [n \in Nodes |-> {}]
  /\ playing = {}

Start(h) ==
  \/ CheckActive(h)
  \/ FindBackup(h)
  \/ \E s \in Sessions : Commit(h, s)

Stop(h) == LoadActive(h) \/ CommitStop(h)

Caller(h) ==
  \/ \E u \in Users, n \in Nodes, m \in BOOLEAN : BeginStart(h, u, n, m)
  \/ \E s \in Sessions : BeginStop(h, s) \/ BeginAdminStop(h, s)

Next ==
  \/ \E h \in Handlers :
       \/ Caller(h) \/ Start(h) \/ Stop(h)
       \/ CallRelay(h) \/ TimesOut(h) \/ Return(h)
  \/ \E m \in wire : RelayHandles(m) \/ Lose(m)
  \/ \E n \in Nodes :
       RelayRestarts(n) \/ \E s \in Sessions : RelayExpires(n, s)
  \/ \E s \in Sessions : PlayerLeaves(s)

Spec == Init /\ [][Next]_vars

(***************************************************************************)
(* Fairness.  The event loop runs every handler that has its answer or     *)
(* whose timeout has passed; a relay serves what reaches it and its        *)
(* cleanup task runs every minute.  Nothing is assumed of users, of        *)
(* administrators or of the network.                                       *)
(***************************************************************************)
FairSpec ==
  /\ Spec
  /\ \A h \in Handlers :
       WF_vars(Start(h) \/ Stop(h) \/ CallRelay(h) \/ TimesOut(h) \/ Return(h))
  /\ WF_vars(\E m \in wire : RelayHandles(m))
  /\ \A n \in Nodes, s \in Sessions : WF_vars(RelayExpires(n, s))
-----------------------------------------------------------------------------
Row == [user : Users \cup {None}, node : Nodes \cup {None},
        backup : Nodes \cup {None}, status : {"none", "active", "stopped"}]

Call ==
  [pc : {"idle", "check", "backup", "commit", "load", "stop", "primary",
         "waitPrimary", "backup relay", "waitBackup", "done", "refused",
         "crashed"},
   op : {"none", "start", "stop", "admin"}, user : Users \cup {None},
   node : Nodes \cup {None}, multipath : BOOLEAN,
   session : Sessions \cup {None}, backup : Nodes \cup {None}]

RelayRequest ==
  [from : Handlers, op : {"start", "stop"}, session : Sessions, to : Nodes]

\* What a handler at a program point has learnt.
CallSet(c) ==
  /\ c.pc \in {"check", "backup", "commit"} =>
       c.op = "start" /\ c.user \in Users /\ c.node \in Nodes
  /\ c.pc \in {"load", "stop"} => c.op \in {"stop", "admin"}
  /\ c.pc \in {"load", "stop", "primary", "waitPrimary", "backup relay",
               "waitBackup"} => c.session \in Sessions
  /\ c.pc \in {"primary", "waitPrimary", "backup relay", "waitBackup"} =>
       c.op \in {"start", "stop"} /\ c.node \in Nodes
  /\ c.pc = "stop" => c.node \in Nodes
  /\ c.pc \in {"backup relay", "waitBackup"} => c.backup \in Nodes

\* Shape of the state.
TypeOK ==
  /\ rows \in [Sessions -> Row]
  /\ \A s \in Sessions :
       rows[s].status # "none" => rows[s].user \in Users /\ rows[s].node \in Nodes
  /\ calls \in [Handlers -> Call] /\ \A h \in Handlers : CallSet(calls[h])
  /\ wire \subseteq RelayRequest
  /\ relay \in [Nodes -> SUBSET Sessions]
  /\ playing \subseteq Sessions

\* A user has at most one active session: the check of
\* session_service.py:42-51 refuses a second one.
OneActivePerUser == \A u \in Users : Cardinality(ActiveOf(u)) <= 1

\* A relay only ever serves sessions the table has and that were placed on it:
\* the row is committed before any relay hears of it (session_service.py:75-95).
RegisteredWasPlaced ==
  \A n \in Nodes : \A s \in relay[n] :
    rows[s] # NoRow /\ n \in {rows[s].node, rows[s].backup}

\* "Backup node must differ from primary" (test_multipath.py:95), and lies in
\* another location when there is one (test_multipath.py:108).
BackupElsewhere ==
  \A s \in Used : rows[s].backup # None =>
    /\ rows[s].backup # rows[s].node
    /\ (\E m \in Nodes : Location[m] # Location[rows[s].node])
         => Location[rows[s].backup] # Location[rows[s].node]

\* Every call returns, whatever the relays and the network do.
CallsReturn == \A h \in Handlers : calls[h].pc # "idle" ~> calls[h].pc = "idle"

\* An administrator's stop of the session has been committed.
AdminStopped(s) ==
  \E h \in Handlers :
    calls[h].op = "admin" /\ calls[h].session = s /\ calls[h].pc = "done"

\* "DashMap cache of valid session_ids. Sync with the API" (03-roadmap.md:88): in
\* the end no relay serves a session that was stopped, even when the request to
\* unregister it was lost or overtaken by the one to register it; except one that
\* an administrator stopped, which no relay is told (admin.py:354), for as long
\* as its client goes on sending.
StoppedLeaveRelays ==
  \A s \in Sessions :
    \/ <>[](rows[s].status = "stopped" => \A n \in Nodes : s \notin relay[n])
    \/ <>AdminStopped(s) /\ <>[](s \in playing)

Book == INSTANCE Ledger WITH serving <- relay

\* While a user's calls do not overlap, the transactions of the handlers and the
\* messages to the relays amount to a ledger: a session is opened by the commit of
\* its start (session_service.py:75), for a user without an active one and apart
\* from its backup, keeps its place, is closed once (session_service.py:117), and
\* only the relays it was placed on ever serve it.
IsLedger == Book!Spec
=============================================================================
