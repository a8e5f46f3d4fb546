---------------------------- MODULE SessionCache ----------------------------
(***************************************************************************)
(* The relay's session cache (relay/src/session.rs) and the three callers  *)
(* that mutate it: the HTTP handlers register_session and                  *)
(* unregister_session (relay/src/api.rs) and the stale-session task        *)
(* (relay/src/main.rs).                                                    *)
(*                                                                         *)
(* The cache is two concurrent maps, `sessions` and `port_to_token`, and a *)
(* gauge.  A single operation on one of them is atomic (it runs under a    *)
(* shard lock); the functions that update all three are not, and tokio     *)
(* runs the handlers on several threads.  So every map or gauge operation  *)
(* is one action here, in the order the code performs them.                *)
(*                                                                         *)
(* A forward socket lives for as long as some Arc to it does: in a cache   *)
(* entry, in a local variable of a handler, in a response listener or in   *)
(* the packet the client listener is sending.  The kernel hands out a port *)
(* again only when nobody holds its socket (InUse).                        *)
(***************************************************************************)
EXTENDS Naturals, FiniteSets

CONSTANTS
  Tokens,       \* session tokens the control plane uses
  Ports,        \* local ports the kernel can give a forward socket
  Clients,      \* UDP addresses of players
  GameIps,      \* addresses of game servers
  Requests,     \* what register calls ask for: allowed IPs, default target
  Workers,      \* threads running HTTP handlers
  Cleaner,      \* the cleanup task
  Listeners,    \* slots for spawned response-listener tasks (a bound)
  MaxSessions,  \* RELAY_MAX_SESSIONS
  Serial,       \* TRUE: callers never overlap calls about one token, and
                \* register only a token that has no session
  None          \* Option::None; also the placeholder address 0.0.0.0:0

Procs == Workers \cup {Cleaner}

ASSUME RelayAssumption ==
  /\ None \notin Tokens \cup Ports \cup Clients \cup GameIps
  /\ Cleaner \notin Workers
  /\ Requests \subseteq [ips : SUBSET GameIps, target : GameIps \cup {None}]
  /\ \A r \in Requests : r.target \in r.ips \cup {None}
  /\ MaxSessions \in Nat
  /\ Serial \in BOOLEAN
  /\ IsFiniteSet(Tokens)
  /\ IsFiniteSet(Workers) /\ Workers # {}

VARIABLES
  sessions,   \* token |-> SessionInfo, NoSession when the map has no entry
  portToken,  \* port_to_token: port |-> token or None
  gauge,      \* metrics.active_sessions
  proc,       \* the local state of each handler and of the cleanup task
  todo,       \* stale_tokens collected by cleanup_stale, not yet removed
  lsn,        \* response-listener tasks (module Forwarder)
  fwd,        \* the packet client_listener is sending (module Forwarder)
  bound,      \* history: who last bound the socket of a port, for which IPs
  heard       \* history: addresses that sent a packet carrying a token

cacheVars == <<sessions, portToken, gauge, proc, todo>>
vars == <<sessions, portToken, gauge, proc, todo, lsn, fwd, bound, heard>>

NoSession == [sock |-> None, ips |-> {}, target |-> None, client |-> None,
              fresh |-> FALSE]

\* `fresh` stands for now - last_seen <= session_timeout.
Session == [sock : Ports \cup {None}, ips : SUBSET GameIps,
            target : GameIps \cup {None}, client : Clients \cup {None},
            fresh : BOOLEAN]

Idle == [pc |-> "idle", op |-> "none", token |-> None, ips |-> {},
         target |-> None, port |-> None, len |-> 0]

Present(t) == sessions[t].sock # None
Live == {t \in Tokens : Present(t)}

\* Program points at which a handler's local variable owns a forward socket:
\* the entry taken out by `sessions.remove`, or the socket just bound.
Holding == {"removePort", "evictLen", "evictGauge", "insert"}

InUse(p) ==
  \/ \E t \in Tokens : sessions[t].sock = p
  \/ \E w \in Procs : proc[w].pc \in Holding /\ proc[w].port = p
  \/ \E l \in Listeners : lsn[l].sock = p
  \/ fwd.sock = p

\* Some call about token t has begun and not returned.
Busy(t) == t \in todo \/ \E w \in Procs : proc[w].token = t

Goto(w, label) == proc' = [proc EXCEPT ![w].pc = label]
Return(w) == proc' = [proc EXCEPT ![w] = Idle]

\* A listener slot with no task, and a task that waits on socket p.
Off == [pc |-> "off", sock |-> None, token |-> None, client |-> None]
ListeningOn(p) == [Off EXCEPT !.pc = "recv", !.sock = p]
-----------------------------------------------------------------------------
(* The callers.                                                            *)

\* register_session.  The default target is the first allowed IP with the first
\* port, or None when there is none that parses (default_forward_target).
BeginRegister(w, t, r) ==
  /\ proc[w].pc = "idle"
  /\ Serial => ~Busy(t) /\ ~Present(t)
  /\ proc' = [proc EXCEPT ![w] =
                [Idle EXCEPT !.pc = "check", !.op = "register", !.token = t,
                             !.ips = r.ips, !.target = r.target]]
  /\ UNCHANGED <<sessions, portToken, gauge, todo, lsn, fwd, bound, heard>>

\* A fault: the caller does not wait for its own register call.
BeginUnregisterAnytime(w, t) ==
  /\ proc[w].pc = "idle"
  /\ proc' = [proc EXCEPT ![w] =
                [Idle EXCEPT !.pc = "remove", !.op = "unregister", !.token = t]]
  /\ UNCHANGED <<sessions, portToken, gauge, todo, lsn, fwd, bound, heard>>

\* unregister_session.
BeginUnregister(w, t) ==
  /\ proc[w].pc = "idle"
  /\ Serial => ~Busy(t)
  /\ proc' = [proc EXCEPT ![w] =
                [Idle EXCEPT !.pc = "remove", !.op = "unregister", !.token = t]]
  /\ UNCHANGED <<sessions, portToken, gauge, todo, lsn, fwd, bound, heard>>

\* A fault: the filter compares the wrong way round.
StaleInverted == {t \in Live : sessions[t].fresh}

Stale == {t \in Live : ~sessions[t].fresh}

\* cleanup_stale, first half: collect the tokens of all stale entries.
CollectStale ==
  /\ proc[Cleaner].pc = "idle"
  /\ todo = {}
  /\ Stale # {}
  /\ todo' = Stale
  /\ UNCHANGED <<sessions, portToken, gauge, proc, lsn, fwd, bound, heard>>

\* cleanup_stale, second half: unregister each collected token in turn.
RemoveNextStale(t) ==
  /\ proc[Cleaner].pc = "idle"
  /\ t \in todo
  /\ todo' = todo \ {t}
  /\ proc' = [proc EXCEPT ![Cleaner] =
                [Idle EXCEPT !.pc = "remove", !.op = "cleanup", !.token = t]]
  /\ UNCHANGED <<sessions, portToken, gauge, lsn, fwd, bound, heard>>

\* session_timeout passes with no packet for t.  The timeout (300 s) is far
\* longer than one call of register, so no call that is registering t spans it.
Age(t) ==
  /\ Present(t) /\ sessions[t].fresh
  /\ ~\E w \in Workers : proc[w].op = "register" /\ proc[w].token = t
  /\ sessions' = [sessions EXCEPT ![t].fresh = FALSE]
  /\ UNCHANGED <<portToken, gauge, proc, todo, lsn, fwd, bound, heard>>
-----------------------------------------------------------------------------
(* SessionCache::register, up to its call of unregister.                   *)

\* A fault: off by one.
CheckCapacityLate(w) ==
  /\ proc[w].pc = "check"
  /\ IF Cardinality(Live) > MaxSessions THEN Return(w) ELSE Goto(w, "remove")
  /\ UNCHANGED <<sessions, portToken, gauge, todo, lsn, fwd, bound, heard>>

CheckCapacity(w) ==
  /\ proc[w].pc = "check"
  /\ IF Cardinality(Live) >= MaxSessions THEN Return(w) ELSE Goto(w, "remove")
  /\ UNCHANGED <<sessions, portToken, gauge, todo, lsn, fwd, bound, heard>>

-----------------------------------------------------------------------------
(* SessionCache::unregister, called by all three.                          *)

\* Where unregister returns to.
AfterUnregister(w) ==
  IF proc[w].op = "register"
  THEN proc' = [proc EXCEPT ![w].pc = "bind", ![w].port = None, ![w].len = 0]
  ELSE Return(w)

\* A fault: get() where remove() is meant, the entry stays in the map.
RemoveSessionByGet(w) ==
  LET t == proc[w].token IN
  /\ proc[w].pc = "remove"
  /\ \/ /\ Present(t)
        /\ proc' = [proc EXCEPT ![w].pc = "removePort",
                                ![w].port = sessions[t].sock]
     \/ /\ ~Present(t)
        /\ AfterUnregister(w)
  /\ UNCHANGED <<sessions, portToken, gauge, todo, lsn, fwd, bound, heard>>

\* sessions.remove(&token): only one of several callers gets the entry.
RemoveSession(w) ==
  LET t == proc[w].token IN
  /\ proc[w].pc = "remove"
  /\ \/ /\ Present(t)
        /\ sessions' = [sessions EXCEPT ![t] = NoSession]
        /\ proc' = [proc EXCEPT ![w].pc = "removePort",
                                ![w].port = sessions[t].sock]
     \/ /\ ~Present(t)
        /\ AfterUnregister(w)
        /\ UNCHANGED sessions
  /\ UNCHANGED <<portToken, gauge, todo, lsn, fwd, bound, heard>>

\* A fault: the reverse entry is forgotten.
RemovePortForgotten(w) ==
  /\ proc[w].pc = "removePort"
  /\ Goto(w, "evictLen")
  /\ UNCHANGED <<sessions, portToken, gauge, todo, lsn, fwd, bound, heard>>

RemovePort(w) ==
  /\ proc[w].pc = "removePort"
  /\ portToken' = [portToken EXCEPT ![proc[w].port] = None]
  /\ Goto(w, "evictLen")
  /\ UNCHANGED <<sessions, gauge, todo, lsn, fwd, bound, heard>>

\* self.sessions.len(), the argument of the gauge's set.
ReadLen(w) ==
  /\ proc[w].pc \in {"evictLen", "regLen"}
  /\ proc' = [proc EXCEPT
                ![w].len = Cardinality(Live),
                ![w].pc = IF proc[w].pc = "evictLen" THEN "evictGauge"
                                                     ELSE "regGauge"]
  /\ UNCHANGED <<sessions, portToken, gauge, todo, lsn, fwd, bound, heard>>

SetGauge(w) ==
  /\ gauge' = proc[w].len
  /\ \/ /\ proc[w].pc = "evictGauge"
        /\ AfterUnregister(w)
     \/ /\ proc[w].pc = "regGauge"
        /\ proc' = [proc EXCEPT ![w].pc = "spawn", ![w].len = 0]
  /\ UNCHANGED <<sessions, portToken, todo, lsn, fwd, bound, heard>>
-----------------------------------------------------------------------------
(* SessionCache::register, after unregister, and the rest of the handler.  *)

Bind(w, p) ==
  /\ proc[w].pc = "bind"
  /\ ~InUse(p)
  /\ proc' = [proc EXCEPT ![w].pc = "insert", ![w].port = p]
  /\ bound' = [bound EXCEPT ![p] = [token |-> proc[w].token,
                                    ips |-> proc[w].ips]]
  /\ UNCHANGED <<sessions, portToken, gauge, todo, lsn, fwd, heard>>

\* No free port or descriptor: register gives up, the old entry is gone.
BindFails(w) ==
  /\ proc[w].pc = "bind"
  /\ Return(w)
  /\ UNCHANGED <<sessions, portToken, gauge, todo, lsn, fwd, bound, heard>>

\* Replaces an entry another call inserted meanwhile; that entry is dropped.
InsertSession(w) ==
  /\ proc[w].pc = "insert"
  /\ sessions' = [sessions EXCEPT ![proc[w].token] =
                    [sock |-> proc[w].port, ips |-> proc[w].ips,
                     target |-> proc[w].target, client |-> None,
                     fresh |-> TRUE]]
  /\ Goto(w, "insertPort")
  /\ UNCHANGED <<portToken, gauge, todo, lsn, fwd, bound, heard>>

InsertPort(w) ==
  /\ proc[w].pc = "insertPort"
  /\ portToken' = [portToken EXCEPT ![proc[w].port] = proc[w].token]
  /\ Goto(w, "regLen")
  /\ UNCHANGED <<sessions, gauge, todo, lsn, fwd, bound, heard>>

\* A fault: the entry is taken for granted.
SpawnListenerUnchecked(w) ==
  /\ proc[w].pc = "spawn"
  /\ \E l \in Listeners :
       /\ lsn[l].pc = "off"
       /\ lsn' = [lsn EXCEPT ![l] =
                    ListeningOn(sessions[proc[w].token].sock)]
  /\ Return(w)
  /\ UNCHANGED <<sessions, portToken, gauge, todo, fwd, bound, heard>>

\* The handler looks the token up again and starts a listener on the socket
\* of whatever entry it finds.
SpawnListener(w) ==
  LET t == proc[w].token IN
  /\ proc[w].pc = "spawn"
  /\ \/ /\ ~Present(t)
        /\ UNCHANGED lsn
     \/ /\ Present(t)
        /\ \E l \in Listeners :
             /\ lsn[l].pc = "off"
             /\ lsn' = [lsn EXCEPT ![l] = ListeningOn(sessions[t].sock)]
  /\ Return(w)
  /\ UNCHANGED <<sessions, portToken, gauge, todo, fwd, bound, heard>>
-----------------------------------------------------------------------------
Unregister(w) ==
  RemoveSession(w) \/ RemovePort(w) \/ ReadLen(w) \/ SetGauge(w)

Register(w) ==
  \/ CheckCapacity(w)
  \/ \E p \in Ports : Bind(w, p)
  \/ BindFails(w)
  \/ InsertSession(w)
  \/ InsertPort(w)
  \/ SpawnListener(w)

Cleanup == CollectStale \/ \E t \in Tokens : RemoveNextStale(t)
=============================================================================
