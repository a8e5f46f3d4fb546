------------------------------- MODULE Tokens -------------------------------
(***************************************************************************)
(* The tokens of a signed-in user: the client's copies in memory and in    *)
(* auth.json (client/src-tauri/src/auth.rs), the calls that renew them     *)
(* when the access token has expired (api_client.rs, commands.rs,          *)
(* smart_monitor.rs), and the API's rows of refresh tokens, which a        *)
(* renewal rotates (api/app/routers/auth.py).                              *)
(*                                                                         *)
(* A pair stands for an access token, its refresh token and the row of the *)
(* latter.  An access token may be found expired by any call.  The calls   *)
(* run concurrently: the window awaits none of its own before the next,    *)
(* and the monitor has its thread.                                         *)
(*                                                                         *)
(* What a call does with a renewed pair depends on its kind:               *)
(*   "profile"  saves it, and clears the tokens when the API refuses them  *)
(*   "saver"    saves it (every other command, and the monitor's connect)  *)
(*   "stop"     drops it (cmd_stop_boost and the monitor's disconnect)     *)
(* "login" saves a new pair, "logout" clears, and "gone" is what the API   *)
(* still does for a client that no longer waits.                           *)
(***************************************************************************)
EXTENDS Naturals, FiniteSets

CONSTANTS
  Pairs,    \* pairs the API can issue (a bound on renewals)
  Callers,  \* calls in flight at once (a bound)
  NoPair

ASSUME TokensAssumption == NoPair \notin Pairs

VARIABLES
  row,        \* the state of each pair's refresh token
  renewalOf,  \* the pair that was exchanged for this one
  memory,     \* AppState.tokens
  disk,       \* auth.json
  calls,      \* the calls in flight
  lost,       \* history: pairs whose renewal got lost on the way
  raced,      \* history: pairs that two renewals verified before one revoked
  apart       \* history: a write failed, or two writes overlapped

server == <<row, renewalOf, raced>>
copies == <<memory, disk>>
tokenVars == <<row, renewalOf, memory, disk, calls, lost, raced, apart>>

Kinds == {"profile", "saver", "stop"}
Free == [pc |-> "idle", kind |-> "stop", pair |-> NoPair, new |-> NoPair]

Serving == {"verify", "revoke", "issue", "answer"}
Writing == {"disk", "memory"}

In(c, label) == calls[c].pc = label
Be(c, pc, kind, pair, new) ==
  calls' = [calls EXCEPT ![c] =
              [pc |-> pc, kind |-> kind, pair |-> pair, new |-> new]]
Go(c, label) == Be(c, label, calls[c].kind, calls[c].pair, calls[c].new)
Done(c) == Be(c, "idle", "stop", NoPair, NoPair)
Clear(c) == Be(c, "disk", "stop", NoPair, NoPair)

\* The call holds a pair that it renews or has renewed, and has not saved.
Renewing(c) ==
  /\ calls[c].pair # NoPair
  /\ calls[c].pc \in Serving \cup {"retry", "disk"}

\* Another call is between its two writes.
Between(c) == \E d \in Callers \ {c} : calls[d].pc \in Writing

TokensInit ==
  /\ row = [p \in Pairs |-> "none"]
  /\ renewalOf = [p \in Pairs |-> NoPair]
  /\ memory = NoPair /\ disk = NoPair
  /\ calls = [c \in Callers |-> Free]
  /\ lost = {} /\ raced = {} /\ apart = FALSE
-----------------------------------------------------------------------------
(* Signing in and out.                                                     *)

\* The API stores the new pair and answers; the client then loads the profile
\* and saves, or fails before that (LoginFails).
Login(c, n) ==
  /\ In(c, "idle") /\ row[n] = "none"
  /\ row' = [row EXCEPT ![n] = "valid"]
  /\ Be(c, "retry", "saver", NoPair, n)
  /\ UNCHANGED <<renewalOf, copies, lost, raced, apart>>

Logout(c) ==
  /\ In(c, "idle")
  /\ Clear(c)
  /\ apart' = (apart \/ Between(c))
  /\ UNCHANGED <<server, copies, lost>>
-----------------------------------------------------------------------------
(* with_auto_refresh.                                                      *)

Call(c, kind) ==
  /\ In(c, "idle") /\ memory # NoPair
  /\ Be(c, "try", kind, memory, NoPair)
  /\ UNCHANGED <<server, copies, lost, apart>>

\* The access token is accepted, or the call fails for another reason.
Tried(c) ==
  /\ In(c, "try")
  /\ Done(c)
  /\ UNCHANGED <<server, copies, lost, apart>>

Unauthorized(c) ==
  /\ In(c, "try")
  /\ Go(c, "verify")
  /\ UNCHANGED <<server, copies, lost, apart>>

\* A fault: the query does not ask for tokens that are not revoked.
VerifyAny(c) ==
  /\ In(c, "verify") /\ row[calls[c].pair] \in {"valid", "revoked"}
  /\ raced' = IF \E d \in Callers \ {c} :
                   In(d, "revoke") /\ calls[d].pair = calls[c].pair
              THEN raced \cup {calls[c].pair} ELSE raced
  /\ Go(c, "revoke")
  /\ UNCHANGED <<row, renewalOf, copies, lost, apart>>

Verify(c) ==
  /\ In(c, "verify") /\ row[calls[c].pair] = "valid"
  /\ raced' = IF \E d \in Callers \ {c} :
                   In(d, "revoke") /\ calls[d].pair = calls[c].pair
              THEN raced \cup {calls[c].pair} ELSE raced
  /\ Go(c, "revoke")
  /\ UNCHANGED <<row, renewalOf, copies, lost, apart>>

Revoke(c) ==
  /\ In(c, "revoke")
  /\ row' = [row EXCEPT ![calls[c].pair] = "revoked"]
  /\ Go(c, "issue")
  /\ UNCHANGED <<renewalOf, copies, lost, raced, apart>>

Issue(c, n) ==
  /\ In(c, "issue") /\ row[n] = "none"
  /\ row' = [row EXCEPT ![n] = "valid"]
  /\ renewalOf' = [renewalOf EXCEPT ![n] = calls[c].pair]
  /\ Be(c, "answer", calls[c].kind, calls[c].pair, n)
  /\ UNCHANGED <<copies, lost, raced, apart>>

Answer(c) ==
  /\ In(c, "answer") /\ calls[c].kind # "gone"
  /\ Go(c, "retry")
  /\ UNCHANGED <<server, copies, lost, apart>>

\* The request or its answer is lost, or takes too long: the call returns an
\* error, and what reached the API goes on there.
GiveUp(c) ==
  /\ calls[c].pc \in Serving /\ calls[c].kind # "gone"
  /\ Be(c, calls[c].pc, "gone", calls[c].pair, calls[c].new)
  /\ lost' = lost \cup {calls[c].pair}
  /\ UNCHANGED <<server, copies, apart>>

Forgotten(c) ==
  /\ calls[c].pc \in {"verify", "answer"} /\ calls[c].kind = "gone"
  /\ Done(c)
  /\ UNCHANGED <<server, copies, lost, apart>>

\* Nothing but cmd_get_user acts on a refresh token that is refused.
Refused(c) ==
  /\ In(c, "verify") /\ row[calls[c].pair] # "valid"
  /\ IF calls[c].kind = "profile"
     THEN /\ Clear(c)
          /\ apart' = (apart \/ Between(c))
     ELSE /\ Done(c)
          /\ UNCHANGED apart
  /\ UNCHANGED <<server, copies, lost>>

\* A fault: the renewed pair is not returned with the result.
RetriedDropping(c) ==
  /\ In(c, "retry")
  /\ IF calls[c].pair # NoPair
     THEN Done(c) /\ UNCHANGED apart
     ELSE Go(c, "disk") /\ apart' = (apart \/ Between(c))
  /\ UNCHANGED <<server, copies, lost>>

\* The call is repeated with the new pair; for a login it is the first.
Retried(c) ==
  /\ In(c, "retry")
  /\ IF calls[c].kind = "stop"
     THEN /\ Done(c)
          /\ lost' = lost \cup {calls[c].pair}
          /\ UNCHANGED apart
     ELSE /\ Go(c, "disk")
          /\ apart' = (apart \/ Between(c))
          /\ UNCHANGED lost
  /\ UNCHANGED <<server, copies>>

\* It fails: the new pair goes with the error, and cmd_get_user clears the
\* tokens if it was refused.
RetryFails(c) ==
  /\ In(c, "retry")
  /\ lost' = lost \cup ({calls[c].pair} \ {NoPair})
  /\ \/ /\ Done(c)
        /\ UNCHANGED apart
     \/ /\ calls[c].kind = "profile"
        /\ Clear(c)
        /\ apart' = (apart \/ Between(c))
  /\ UNCHANGED <<server, copies>>
-----------------------------------------------------------------------------
(* Saving (AuthTokens::save) or clearing (AuthTokens::clear) the file, then *)
(* the memory.  NoPair as the new pair clears.                             *)

\* A fault: only the memory is updated.
WriteNothing(c) ==
  /\ In(c, "disk")
  /\ Go(c, "memory")
  /\ UNCHANGED <<server, copies, lost, apart>>

WriteDisk(c) ==
  /\ In(c, "disk")
  /\ disk' = calls[c].new
  /\ Go(c, "memory")
  /\ UNCHANGED <<server, memory, lost, apart>>

\* The error is logged and the file keeps what it had.
WriteFails(c) ==
  /\ In(c, "disk")
  /\ lost' = lost \cup ({disk, calls[c].pair} \ {NoPair})
  /\ apart' = TRUE
  /\ Go(c, "memory")
  /\ UNCHANGED <<server, copies>>

WriteMemory(c) ==
  /\ In(c, "memory")
  /\ memory' = calls[c].new
  /\ Done(c)
  /\ UNCHANGED <<server, disk, lost, apart>>
-----------------------------------------------------------------------------
(* The rest of the world.                                                  *)

Expire(p) ==
  /\ row[p] = "valid"
  /\ row' = [row EXCEPT ![p] = "expired"]
  /\ UNCHANGED <<renewalOf, copies, calls, lost, raced, apart>>

\* The client is closed and started again: it loads auth.json; the API does
\* what it is at.
RestartClient ==
  /\ memory' = disk
  /\ calls' = [c \in Callers |->
       IF calls[c].pc \in Serving
       THEN [pc |-> calls[c].pc, kind |-> "gone", pair |-> calls[c].pair,
             new |-> calls[c].new]
       ELSE Free]
  /\ lost' = lost \cup {calls[c].pair : c \in {d \in Callers : Renewing(d)}}
  /\ apart' = FALSE
  /\ UNCHANGED <<server, disk>>

CallSteps(c) ==
  \/ Tried(c) \/ Unauthorized(c) \/ Verify(c) \/ Revoke(c)
  \/ (\E n \in Pairs : Issue(c, n))
  \/ Answer(c) \/ Refused(c) \/ Forgotten(c)
  \/ Retried(c) \/ RetryFails(c) \/ GiveUp(c)
  \/ WriteDisk(c) \/ WriteFails(c) \/ WriteMemory(c)

TokensNext ==
  \/ \E c \in Callers :
       \/ \E n \in Pairs : Login(c, n)
       \/ \E kind \in Kinds : Call(c, kind)
       \/ Logout(c)
       \/ CallSteps(c)
  \/ \E p \in Pairs : Expire(p)
  \/ RestartClient

TokensSpec == TokensInit /\ [][TokensNext]_tokenVars
-----------------------------------------------------------------------------
(* Properties.                                                             *)

\* The type of the state.
TokensTypeOK ==
  /\ row \in [Pairs -> {"none", "valid", "revoked", "expired"}]
  /\ renewalOf \in [Pairs -> Pairs \cup {NoPair}]
  /\ memory \in Pairs \cup {NoPair}
  /\ disk \in Pairs \cup {NoPair}
  /\ calls \in [Callers ->
       [pc : {"idle", "try", "retry"} \cup Serving \cup Writing,
        kind : Kinds \cup {"gone"},
        pair : Pairs \cup {NoPair}, new : Pairs \cup {NoPair}]]
  /\ lost \subseteq Pairs /\ raced \subseteq Pairs
  /\ apart \in BOOLEAN

\* A saver is on its way with the renewal of p: when it ends, the pair it holds
\* is in the file and in memory.
OnItsWay(p) ==
  \E c \in Callers :
    /\ calls[c].pair = p /\ calls[c].kind # "gone"
    /\ calls[c].pc \in {"revoke", "issue", "answer", "retry"} \cup Writing

\* The tokens the client keeps can be renewed, however calls overlap and
\* wherever the client is closed: what is in memory or in the file has a row
\* that nobody revoked, or its renewal is on its way, or a failure, a restart
\* or a stop that drops what it renewed lost it.
SavedRenewable ==
  \A p \in {memory, disk} \ {NoPair} :
    row[p] \in {"valid", "expired"} \/ OnItsWay(p) \/ p \in lost

\* A refresh token is exchanged for one pair, unless two requests had verified
\* it before either revoked it: one transaction reads the row and revokes it
\* (auth.py:65-73), but under READ COMMITTED and without a lock on the row.
RenewedOnce ==
  \A n, m \in Pairs :
    n # m /\ renewalOf[n] # NoPair /\ renewalOf[n] = renewalOf[m]
      => renewalOf[n] \in raced

\* While nothing is being written, a restart finds the tokens the client uses:
\* the file and the memory differ only after a write that failed or two that
\* overlapped.
FileIsMemory ==
  (\A c \in Callers : calls[c].pc \notin Writing) /\ ~apart => disk = memory
=============================================================================
