------------------------------- MODULE Boost -------------------------------
(***************************************************************************)
(* The client's boost: the start and stop commands of the window           *)
(* (client/src-tauri/src/commands.rs), the smart monitor that connects and *)
(* disconnects by itself (smart_monitor.rs), and the state they share: the *)
(* active proxy, the id of its session and the tokens of the signed-in     *)
(* user.                                                                   *)
(*                                                                         *)
(* The window's commands and the monitor run concurrently.  A command goes *)
(* on when its page is left, and nothing keeps the window from invoking    *)
(* the next, so commands overlap one another as well.  Every lock of the   *)
(* shared state and every call is a step of its own.                       *)
(*                                                                         *)
(* Of the API the module keeps what the client depends on: a start is      *)
(* refused while the user has an active session (SessionService.tla has    *)
(* the whole handler, with the race of two starts in it).  A session       *)
(* stands for its id and for the proxy started for it.                     *)
(***************************************************************************)
EXTENDS Naturals, FiniteSets

CONSTANTS
  Sessions,  \* sessions the API can create (a bound on starts)
  Games,
  Commands,  \* the window's commands under way at once (a bound)
  AutoConnect,  \* the auto_connect setting
  None

ASSUME BoostAssumption ==
  /\ None \notin Sessions \cup Games
  /\ "monitor" \notin Commands
  /\ AutoConnect \in BOOLEAN

VARIABLES
  signedIn,   \* the client holds tokens
  slot,       \* active_proxy
  sessionId,  \* active_session_id
  running,    \* proxies that run: started and neither stopped nor dropped
  status,     \* the API's sessions of this user
  actors,     \* the local state of each command and of the monitor
  game,       \* the game whose process runs
  detected,   \* last_detected_slug of the monitor
  lost        \* history: active sessions whose id a failure took

client == <<signedIn, slot, sessionId, lost>>
vars == <<signedIn, slot, sessionId, running, status, actors, game, detected,
          lost>>

Actors == Commands \cup {"monitor"}
Idle == [pc |-> "idle", session |-> None]

Active == {s \in Sessions : status[s] = "active"}

At(a, label) == actors[a].pc = label
Become(a, label, s) ==
  actors' = [actors EXCEPT ![a] = [pc |-> label, session |-> s]]
Rest(a) == actors' = [actors EXCEPT ![a] = Idle]
-----------------------------------------------------------------------------
(* Starting: cmd_start_boost and auto_connect.                             *)

\* A command is refused while a proxy is stored; other commands may be under way.
StartBoost(c) ==
  /\ At(c, "idle")
  /\ slot = None /\ signedIn
  /\ Become(c, "call", None)
  /\ UNCHANGED <<client, running, status, game, detected>>

\* The API refuses a second active session; or it cannot be reached.
StartRefused(a) ==
  /\ At(a, "call")
  /\ Rest(a)
  /\ UNCHANGED <<client, running, status, game, detected>>

StartAccepted(a, s) ==
  /\ At(a, "call")
  /\ Active = {} /\ status[s] = "none"
  /\ status' = [status EXCEPT ![s] = "active"]
  /\ Become(a, "answer", s)
  /\ UNCHANGED <<client, running, game, detected>>

OpenProxy(a) ==
  /\ At(a, "answer")
  /\ running' = running \cup {actors[a].session}
  /\ Become(a, "store proxy", actors[a].session)
  /\ UNCHANGED <<client, status, game, detected>>

\* The answer is lost, the relay's address does not parse or a socket cannot be
\* bound: the command returns an error and the session stays active.
OpenFails(a) ==
  /\ At(a, "answer")
  /\ Rest(a)
  /\ lost' = lost \cup {actors[a].session}
  /\ UNCHANGED <<signedIn, slot, sessionId, running, status, game, detected>>

\* A fault: the proxy that was stored before is not stopped.
StoreProxyLeaking(a) ==
  /\ At(a, "store proxy")
  /\ slot' = actors[a].session
  /\ Become(a, "store id", actors[a].session)
  /\ UNCHANGED <<signedIn, sessionId, lost, running, status, game, detected>>

\* Drop stops the proxy that is replaced.
StoreProxy(a) ==
  /\ At(a, "store proxy")
  /\ slot' = actors[a].session
  /\ running' = running \ {slot}
  /\ Become(a, "store id", actors[a].session)
  /\ UNCHANGED <<signedIn, sessionId, lost, status, game, detected>>

StoreId(a) ==
  /\ At(a, "store id")
  /\ sessionId' = actors[a].session
  /\ Rest(a)
  /\ UNCHANGED <<signedIn, slot, lost, running, status, game, detected>>
-----------------------------------------------------------------------------
(* Stopping: cmd_stop_boost and the monitor's auto-disconnect.             *)

StopBoost(c) ==
  /\ At(c, "idle")
  /\ Become(c, "take proxy", None)
  /\ UNCHANGED <<client, running, status, game, detected>>

\* A fault: the proxy is stopped and stays stored.
TakeProxyByRef(a) ==
  /\ At(a, "take proxy")
  /\ running' = running \ {slot}
  /\ Become(a, "take id", None)
  /\ UNCHANGED <<client, status, game, detected>>

TakeProxy(a) ==
  /\ At(a, "take proxy")
  /\ slot' = None
  /\ running' = running \ {slot}
  /\ Become(a, "take id", None)
  /\ UNCHANGED <<signedIn, sessionId, lost, status, game, detected>>

\* Faults: the API is called without an id; only for a stored proxy's session.
TakeIdUnchecked(a) ==
  /\ At(a, "take id")
  /\ sessionId' = None
  /\ Become(a, "call stop", sessionId)
  /\ UNCHANGED <<signedIn, slot, lost, running, status, game, detected>>

TakeIdOfRunning(a) ==
  /\ At(a, "take id")
  /\ sessionId' = None
  /\ IF sessionId \in running THEN Become(a, "call stop", sessionId) ELSE Rest(a)
  /\ UNCHANGED <<signedIn, slot, lost, running, status, game, detected>>

\* Without an id or without tokens there is no call; the id is gone all the same.
TakeId(a) ==
  /\ At(a, "take id")
  /\ sessionId' = None
  /\ IF sessionId # None /\ signedIn
     THEN Become(a, "call stop", sessionId) /\ UNCHANGED lost
     ELSE Rest(a) /\ lost' = lost \cup ({sessionId} \ {None})
  /\ UNCHANGED <<signedIn, slot, running, status, game, detected>>

\* The API refuses to stop a session that is no longer active.
StopAccepted(a) ==
  /\ At(a, "call stop")
  /\ status' = [status EXCEPT ![actors[a].session] =
                   IF @ = "active" THEN "stopped" ELSE @]
  /\ Rest(a)
  /\ UNCHANGED <<client, running, game, detected>>

\* The result of the call is ignored.
StopLost(a) ==
  /\ At(a, "call stop")
  /\ Rest(a)
  /\ lost' = lost \cup {actors[a].session}
  /\ UNCHANGED <<signedIn, slot, sessionId, running, status, game, detected>>
-----------------------------------------------------------------------------
(* The monitor's loop, every ten seconds.                                  *)

PollSignedOut ==
  /\ At("monitor", "idle") /\ ~signedIn
  /\ detected' = None
  /\ UNCHANGED <<client, running, status, actors, game>>

\* A new game: remembered first, connected if nothing is stored, if the setting
\* says so and if there is a node to connect to.
PollDetects ==
  /\ At("monitor", "idle") /\ signedIn
  /\ game \notin {None, detected}
  /\ detected' = game
  /\ IF slot = None /\ AutoConnect
     THEN Become("monitor", "call", None) \/ UNCHANGED actors
     ELSE UNCHANGED actors
  /\ UNCHANGED <<client, running, status, game>>

\* A fault: only a session that is known is ended.
PollClosedById ==
  /\ At("monitor", "idle") /\ signedIn
  /\ game = None /\ detected # None
  /\ detected' = None
  /\ IF sessionId # None THEN Become("monitor", "take proxy", None)
                         ELSE UNCHANGED actors
  /\ UNCHANGED <<client, running, status, game>>

PollClosed ==
  /\ At("monitor", "idle") /\ signedIn
  /\ game = None /\ detected # None
  /\ detected' = None
  /\ IF slot # None THEN Become("monitor", "take proxy", None)
                    ELSE UNCHANGED actors
  /\ UNCHANGED <<client, running, status, game>>
-----------------------------------------------------------------------------
(* The player, the API and the process itself.                             *)

GameStarts(g) ==
  /\ game # g
  /\ game' = g
  /\ UNCHANGED <<client, running, status, actors, detected>>

GameEnds ==
  /\ game # None
  /\ game' = None
  /\ UNCHANGED <<client, running, status, actors, detected>>

SignIn ==
  /\ ~signedIn
  /\ signedIn' = TRUE
  /\ UNCHANGED <<slot, sessionId, lost, running, status, actors, game, detected>>

\* The tokens are cleared when the API no longer accepts them (cmd_get_user),
\* and by cmd_logout, before which the window stops a boost it knows of.
SignOut ==
  /\ signedIn
  /\ signedIn' = FALSE
  /\ UNCHANGED <<slot, sessionId, lost, running, status, actors, game, detected>>

\* An administrator ends the session; the client is not told.
AdminStops(s) ==
  /\ status[s] = "active"
  /\ status' = [status EXCEPT ![s] = "revoked"]
  /\ UNCHANGED <<client, running, actors, game, detected>>

\* The process exits (cmd_quit, the tray, a crash) and is started again; the
\* tokens are on disk, nothing else is.
Restart ==
  /\ slot' = None /\ sessionId' = None /\ running' = {} /\ detected' = None
  /\ actors' = [a \in Actors |-> Idle]
  /\ lost' = lost \cup Active
  /\ UNCHANGED <<signedIn, status, game>>
-----------------------------------------------------------------------------
Init ==
  /\ signedIn \in BOOLEAN
  /\ slot = None /\ sessionId = None /\ running = {} /\ detected = None
  /\ lost = {}
  /\ status = [s \in Sessions |-> "none"]
  /\ actors = [a \in Actors |-> Idle]
  /\ game \in Games \cup {None}

Commanded == \E c \in Commands : StartBoost(c) \/ StopBoost(c)

Starting(a) ==
  \/ StartRefused(a) \/ \E s \in Sessions : StartAccepted(a, s)
  \/ OpenProxy(a) \/ OpenFails(a) \/ StoreProxy(a) \/ StoreId(a)

Stopping(a) == TakeProxy(a) \/ TakeId(a) \/ StopAccepted(a) \/ StopLost(a)

Poll == PollSignedOut \/ PollDetects \/ PollClosed

Environment ==
  \/ \E g \in Games : GameStarts(g)
  \/ GameEnds
  \/ \E s \in Sessions : AdminStops(s)
  \/ SignIn \/ SignOut \/ Restart

Next ==
  \/ Commanded
  \/ \E a \in Actors : Starting(a) \/ Stopping(a)
  \/ Poll
  \/ Environment

Spec == Init /\ [][Next]_vars

(***************************************************************************)
(* Fairness: the runtime polls every actor, the monitor's ticker fires     *)
(* every ten seconds, and a call returns, with an answer or an error.      *)
(* Nothing is assumed of the player.                                       *)
(***************************************************************************)
FairSpec ==
  /\ Spec
  /\ \A a \in Actors : WF_vars(Starting(a) \/ Stopping(a))
  /\ WF_vars(Poll)
-----------------------------------------------------------------------------
Labels ==
  {"idle", "call", "answer", "store proxy", "store id", "take proxy", "take id",
   "call stop"}

Holding == {"answer", "store proxy", "store id", "call stop"}

ActorsOK ==
  /\ actors \in [Actors -> [pc : Labels, session : Sessions \cup {None}]]
  /\ \A a \in Actors : actors[a].session # None <=> actors[a].pc \in Holding

\* Shape of the state: an actor has a session in hand where its program needs one.
TypeOK ==
  /\ signedIn \in BOOLEAN
  /\ slot \in Sessions \cup {None} /\ sessionId \in Sessions \cup {None}
  /\ running \subseteq Sessions
  /\ status \in [Sessions -> {"none", "active", "stopped", "revoked"}]
  /\ lost \subseteq Sessions
  /\ ActorsOK
  /\ game \in Games \cup {None} /\ detected \in Games \cup {None}

\* Sessions an actor has in hand.
InHand == {actors[a].session : a \in Actors} \ {None}

\* No proxy runs unnoticed: it is the stored one or on its way to be stored, even
\* when commands of the window and the monitor all connect (udp_proxy.rs:396, Drop).
NoOrphanProxy ==
  running \subseteq {slot} \cup {actors[a].session :
                                   a \in {b \in Actors : At(b, "store proxy")}}

\* A stored proxy runs: cmd_get_boost_status never finds one that somebody else
\* has stopped (commands.rs:626-632).
StoredRuns == slot # None => slot \in running

\* The client knows the session that the API holds active, so that a later stop
\* can end it, whatever the order in which commands and the monitor store and
\* take proxy and id (commands.rs:611-635).  Only a failure takes an id away: the
\* proxy does not open, the call to stop is lost or cannot be made, the process
\* restarts.  Administrators are excepted: see README.
ActiveIsKnown ==
  (\A s \in Sessions : status[s] # "revoked")
    => Active \subseteq {sessionId} \cup InHand \cup lost

\* "When game closes, auto-disconnects" (smart_monitor.rs:42), for a game that the
\* monitor saw and while the user stays signed in.
ClosedDisconnects ==
  (detected # None /\ game = None)
    ~> (slot = None \/ game # None \/ ~signedIn)
=============================================================================
