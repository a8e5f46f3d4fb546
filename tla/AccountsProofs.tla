--------------------------- MODULE AccountsProofs ---------------------------
(***************************************************************************)
(* Proofs about Tokens and Billing, which share nothing.                   *)
(*                                                                         *)
(* Tokens: the type of the state, and that the client's tokens can be      *)
(* renewed, a refresh token is exchanged once and the two copies agree,    *)
(* each with the exceptions its definition names, for any number of pairs  *)
(* and of overlapping calls.                                               *)
(*                                                                         *)
(* Billing, for any payments, plans, days and overlapping requests:        *)
(* nothing is granted twice and every paid day is granted, each with the   *)
(* exceptions it names, which rests on Current: unless requests of the     *)
(* user overlapped, one that has read the user commits before anyone       *)
(* changes the user.  That the gate opens only for a user with a           *)
(* subscription holds whatever overlaps, by Backed.                        *)
(***************************************************************************)
EXTENDS Tokens, Billing, TLAPS, FiniteSetTheorems
-----------------------------------------------------------------------------
(* Tokens                                                                  *)


\* A call holds the pairs its program point needs, and what is left of an
\* abandoned call is on the server.
Points ==
  \A c \in Callers :
    /\ calls[c].pc \in {"try"} \cup Serving => calls[c].pair \in Pairs
    /\ calls[c].pc \in {"answer", "retry"} => calls[c].new \in Pairs
    /\ calls[c].pc = "retry" /\ calls[c].pair = NoPair => calls[c].kind = "saver"
    /\ calls[c].kind = "gone" =>
         calls[c].pc \in Serving /\ calls[c].pair \in lost

Typed == TokensTypeOK /\ Points

\* The row of a pair that was verified is not revoked before its call does it.
Unrevoked ==
  \A c \in Callers : calls[c].pc = "revoke" =>
    row[calls[c].pair] # "revoked" \/ calls[c].pair \in raced

Exchanged ==
  \A c \in Callers : calls[c].pc = "issue" => row[calls[c].pair] = "revoked"

\* One call at a time is between verifying a pair and issuing its successor.
Alone ==
  \A c, d \in Callers :
    /\ c # d /\ calls[c].pair = calls[d].pair
    /\ calls[c].pc \in {"revoke", "issue"}
    /\ calls[d].pc \in {"revoke", "issue"}
    => calls[c].pair \in raced

Spent == \A n \in Pairs : renewalOf[n] # NoPair => row[renewalOf[n]] = "revoked"

\* A call about to issue is the first to do so for its pair.
First ==
  \A c \in Callers, n \in Pairs :
    calls[c].pc = "issue" /\ renewalOf[n] = calls[c].pair => renewalOf[n] \in raced

\* The rotation of a refresh token.
Rotation == Unrevoked /\ Exchanged /\ Alone /\ Spent /\ First /\ RenewedOnce

\* What is kept or held was issued.
Issued ==
  /\ \A p \in Pairs : p = memory \/ p = disk => row[p] # "none"
  /\ \A c \in Callers : calls[c].pair # NoPair => row[calls[c].pair] # "none"

\* The call carries a pair that it has not put into memory yet.
Carries(c, n) ==
  calls[c].new = n /\ calls[c].pc \in {"answer", "retry"} \cup Writing

\* A new pair is in the hands of one call until it reaches the memory, and no
\* call tries to renew it before that.
Carried ==
  \A c \in Callers, n \in Pairs : Carries(c, n) =>
    /\ row[n] \in {"valid", "expired"}
    /\ memory # n
    /\ calls[c].pc # "memory" => disk # n
    /\ \A d \in Callers : calls[d].pair # n
    /\ \A d \in Callers : Carries(d, n) => d = c

\* Once a renewal is in the file, the pair it replaces is not.
Replaced ==
  \A c \in Callers : calls[c].pc = "memory" /\ calls[c].pair # NoPair =>
    disk # calls[c].pair \/ calls[c].pair \in lost

\* The way of a new pair from the API to the two copies.
Custody == Issued /\ Carried /\ Replaced /\ SavedRenewable

\* Unless writes came apart, one call writes at a time, and the file is ahead
\* of the memory only in the middle of its writes.
Files ==
  ~apart =>
    /\ \A c, d \in Callers :
         calls[c].pc \in Writing /\ calls[d].pc \in Writing => c = d
    /\ \A c \in Callers : calls[c].pc = "disk" => disk = memory
    /\ \A c \in Callers : calls[c].pc = "memory" => disk = calls[c].new
    /\ FileIsMemory

\* Every step keeps the types.
LEMMA TokensTypeStep == Typed /\ [TokensNext]_tokenVars => Typed'
<1> SUFFICES ASSUME Typed, [TokensNext]_tokenVars PROVE Typed' OBVIOUS
<1> USE TokensAssumption DEF Typed, TokensTypeOK, Points, server, copies,
         Kinds, Serving, Writing, In, Be, Go,
         Done, Clear, Free
<1>1. ASSUME NEW c \in Callers, NEW n \in Pairs, Login(c, n) PROVE Typed'
  BY <1>1 DEF Login
<1>2. ASSUME NEW c \in Callers, Logout(c) PROVE Typed'
  BY <1>2 DEF Logout
<1>3. ASSUME NEW c \in Callers, NEW kind \in Kinds, Call(c, kind) PROVE Typed'
  BY <1>3 DEF Call
<1>4. ASSUME NEW c \in Callers, Tried(c) PROVE Typed'
  BY <1>4 DEF Tried
<1>5. ASSUME NEW c \in Callers, Unauthorized(c) PROVE Typed'
  BY <1>5 DEF Unauthorized
<1>6. ASSUME NEW c \in Callers, Verify(c) PROVE Typed'
  BY <1>6 DEF Verify
<1>7. ASSUME NEW c \in Callers, Revoke(c) PROVE Typed'
  BY <1>7 DEF Revoke
<1>8. ASSUME NEW c \in Callers, NEW n \in Pairs, Issue(c, n) PROVE Typed'
  BY <1>8 DEF Issue
<1>9. ASSUME NEW c \in Callers, Answer(c) PROVE Typed'
  BY <1>9 DEF Answer
<1>10. ASSUME NEW c \in Callers, GiveUp(c) PROVE Typed'
  BY <1>10 DEF GiveUp
<1>11. ASSUME NEW c \in Callers, Forgotten(c) PROVE Typed'
  BY <1>11 DEF Forgotten
<1>12. ASSUME NEW c \in Callers, Refused(c) PROVE Typed'
  <2>1. apart' \in BOOLEAN
    BY <1>12 DEF Refused
  <2>2. CASE calls[c].kind = "profile"
    BY <1>12, <2>1, <2>2 DEF Refused
  <2>3. CASE ~(calls[c].kind = "profile")
    BY <1>12, <2>1, <2>3 DEF Refused
  <2>. QED BY <2>2, <2>3
<1>13. ASSUME NEW c \in Callers, Retried(c) PROVE Typed'
  <2>1. apart' \in BOOLEAN
    BY <1>13 DEF Retried
  <2>2. CASE calls[c].kind = "stop"
    BY <1>13, <2>1, <2>2 DEF Retried
  <2>3. CASE ~(calls[c].kind = "stop")
    BY <1>13, <2>1, <2>3 DEF Retried
  <2>. QED BY <2>2, <2>3
<1>14. ASSUME NEW c \in Callers, RetryFails(c) PROVE Typed'
  <2>1. apart' \in BOOLEAN
    BY <1>14 DEF RetryFails
  <2>2. CASE Done(c)
    BY <1>14, <2>1, <2>2 DEF RetryFails
  <2>3. CASE ~(Done(c))
    BY <1>14, <2>1, <2>3 DEF RetryFails
  <2>. QED BY <2>2, <2>3
<1>15. ASSUME NEW c \in Callers, WriteDisk(c) PROVE Typed'
  BY <1>15 DEF WriteDisk
<1>16. ASSUME NEW c \in Callers, WriteFails(c) PROVE Typed'
  BY <1>16 DEF WriteFails
<1>17. ASSUME NEW c \in Callers, WriteMemory(c) PROVE Typed'
  BY <1>17 DEF WriteMemory
<1>18. ASSUME NEW p \in Pairs, Expire(p) PROVE Typed'
  BY <1>18 DEF Expire
<1>19. CASE RestartClient
  <2>1. /\ memory' = disk /\ disk' = disk /\ apart' = FALSE
        /\ row' = row /\ renewalOf' = renewalOf /\ raced' = raced
    BY <1>19 DEF RestartClient
  <2>2. lost' \in SUBSET Pairs /\ lost \subseteq lost'
    BY <1>19 DEF RestartClient, Renewing
  <2>3. \A c \in Callers :
          calls'[c] = IF calls[c].pc \in Serving
                      THEN [pc |-> calls[c].pc, kind |-> "gone",
                            pair |-> calls[c].pair, new |-> calls[c].new]
                      ELSE Free
    BY <1>19 DEF RestartClient
  <2>4. \A c \in Callers : calls[c].pc \in Serving => calls[c].pair \in lost'
    BY <1>19 DEF RestartClient, Renewing
  <2>5. calls' \in [Callers ->
          [pc : {"idle", "try", "retry"} \cup Serving \cup Writing,
           kind : Kinds \cup {"gone"},
           pair : Pairs \cup {NoPair}, new : Pairs \cup {NoPair}]]
    BY <1>19 DEF RestartClient
  <2>6. TokensTypeOK'
    BY <2>1, <2>2, <2>5
  <2>. QED BY <2>3, <2>4, <2>6
<1>20. CASE UNCHANGED tokenVars
  BY <1>20 DEF tokenVars
<1>. QED
  BY ZenonT(30), <1>1, <1>2, <1>3, <1>4, <1>5, <1>6, <1>7, <1>8, <1>9, <1>10,
     <1>11, <1>12, <1>13, <1>14, <1>15, <1>16, <1>17, <1>18, <1>19, <1>20
     DEF TokensNext, CallSteps

\* Every step keeps the order of a rotation.
LEMMA RotationStep == Typed /\ Rotation /\ [TokensNext]_tokenVars => Rotation'
<1> SUFFICES ASSUME Typed /\ Rotation, [TokensNext]_tokenVars
             PROVE Rotation'
  OBVIOUS
<1> USE TokensAssumption DEF TokensTypeOK, Typed, Points, server, copies,
         Serving, In, Be, Go, Done, Clear,
         Free, Rotation, Unrevoked, Exchanged, Alone, Spent, First,
         RenewedOnce
<1>1. ASSUME NEW c \in Callers, NEW n \in Pairs, Login(c, n) PROVE Rotation'
  BY <1>1 DEF Login
<1>2. ASSUME NEW c \in Callers, Logout(c) PROVE Rotation'
  BY <1>2 DEF Logout
<1>3. ASSUME NEW c \in Callers, NEW kind \in Kinds, Call(c, kind)
      PROVE  Rotation'
  BY <1>3 DEF Call
<1>4. ASSUME NEW c \in Callers, Tried(c) PROVE Rotation'
  BY <1>4 DEF Tried
<1>5. ASSUME NEW c \in Callers, Unauthorized(c) PROVE Rotation'
  BY <1>5 DEF Unauthorized
<1>6. ASSUME NEW c \in Callers, Verify(c) PROVE Rotation'
  BY <1>6 DEF Verify
<1>7. ASSUME NEW c \in Callers, Revoke(c) PROVE Rotation'
  BY <1>7 DEF Revoke
<1>8. ASSUME NEW c \in Callers, NEW n \in Pairs, Issue(c, n) PROVE Rotation'
  BY <1>8 DEF Issue
<1>9. ASSUME NEW c \in Callers, Answer(c) PROVE Rotation'
  BY <1>9 DEF Answer
<1>10. ASSUME NEW c \in Callers, GiveUp(c) PROVE Rotation'
  BY <1>10 DEF GiveUp
<1>11. ASSUME NEW c \in Callers, Forgotten(c) PROVE Rotation'
  BY <1>11 DEF Forgotten
<1>12. ASSUME NEW c \in Callers, Refused(c) PROVE Rotation'
  BY SMTT(30), <1>12 DEF Refused
<1>13. ASSUME NEW c \in Callers, Retried(c) PROVE Rotation'
  BY SMTT(30), <1>13 DEF Retried
<1>14. ASSUME NEW c \in Callers, RetryFails(c) PROVE Rotation'
  BY SMTT(30), <1>14 DEF RetryFails
<1>15. ASSUME NEW c \in Callers, WriteDisk(c) PROVE Rotation'
  BY <1>15 DEF WriteDisk
<1>16. ASSUME NEW c \in Callers, WriteFails(c) PROVE Rotation'
  BY <1>16 DEF WriteFails
<1>17. ASSUME NEW c \in Callers, WriteMemory(c) PROVE Rotation'
  BY <1>17 DEF WriteMemory
<1>18. ASSUME NEW p \in Pairs, Expire(p) PROVE Rotation'
  BY <1>18 DEF Expire
<1>19. CASE RestartClient
  BY <1>19 DEF RestartClient
<1>20. CASE UNCHANGED tokenVars
  BY <1>20 DEF tokenVars
<1>. QED
  BY <1>1, <1>2, <1>3, <1>4, <1>5, <1>6, <1>7, <1>8, <1>9, <1>10,
     <1>11, <1>12, <1>13, <1>14, <1>15, <1>16, <1>17, <1>18, <1>19, <1>20
     DEF TokensNext, CallSteps

\* Every step keeps the new pairs in one hand.
LEMMA CustodyStep == Typed /\ Custody /\ [TokensNext]_tokenVars => Custody'
<1> SUFFICES ASSUME Typed /\ Custody, [TokensNext]_tokenVars
             PROVE Custody'
  OBVIOUS
<1> USE TokensAssumption DEF TokensTypeOK, Typed, Points, server, copies,
         Serving, Writing, In, Be, Go, Done,
         Clear, Free, Custody, Issued, Carries, Carried, Replaced, SavedRenewable,
         OnItsWay
<1>1. ASSUME NEW c \in Callers, NEW n \in Pairs, Login(c, n) PROVE Custody'
  BY <1>1 DEF Login
<1>2. ASSUME NEW c \in Callers, Logout(c) PROVE Custody'
  BY <1>2 DEF Logout
<1>3. ASSUME NEW c \in Callers, NEW kind \in Kinds, Call(c, kind) PROVE Custody'
  BY <1>3 DEF Call
<1>4. ASSUME NEW c \in Callers, Tried(c) PROVE Custody'
  BY <1>4 DEF Tried
<1>5. ASSUME NEW c \in Callers, Unauthorized(c) PROVE Custody'
  BY <1>5 DEF Unauthorized
<1>6. ASSUME NEW c \in Callers, Verify(c) PROVE Custody'
  BY <1>6 DEF Verify
<1>7. ASSUME NEW c \in Callers, Revoke(c) PROVE Custody'
  BY <1>7 DEF Revoke
<1>8. ASSUME NEW c \in Callers, NEW n \in Pairs, Issue(c, n) PROVE Custody'
  BY <1>8 DEF Issue
<1>9. ASSUME NEW c \in Callers, Answer(c) PROVE Custody'
  BY <1>9 DEF Answer
<1>10. ASSUME NEW c \in Callers, GiveUp(c) PROVE Custody'
  BY <1>10 DEF GiveUp
<1>11. ASSUME NEW c \in Callers, Forgotten(c) PROVE Custody'
  BY <1>11 DEF Forgotten
<1>12. ASSUME NEW c \in Callers, Refused(c) PROVE Custody'
  BY <1>12 DEF Refused
<1>13. ASSUME NEW c \in Callers, Retried(c) PROVE Custody'
  BY <1>13 DEF Retried
<1>14. ASSUME NEW c \in Callers, RetryFails(c) PROVE Custody'
  <2>1. CASE Done(c)
    BY <1>14, <2>1 DEF RetryFails
  <2>2. CASE Clear(c)
    BY <1>14, <2>2 DEF RetryFails
  <2>. QED BY <1>14, <2>1, <2>2 DEF RetryFails
<1>15. ASSUME NEW c \in Callers, WriteDisk(c) PROVE Custody'
  BY <1>15 DEF WriteDisk
<1>16. ASSUME NEW c \in Callers, WriteFails(c) PROVE Custody'
  BY <1>16 DEF WriteFails
<1>17. ASSUME NEW c \in Callers, WriteMemory(c) PROVE Custody'
  BY <1>17 DEF WriteMemory
<1>18. ASSUME NEW p \in Pairs, Expire(p) PROVE Custody'
  BY <1>18 DEF Expire
<1>19. CASE RestartClient
  BY <1>19 DEF RestartClient, Renewing
<1>20. CASE UNCHANGED tokenVars
  BY <1>20 DEF tokenVars
<1>. QED
  BY ZenonT(30), <1>1, <1>2, <1>3, <1>4, <1>5, <1>6, <1>7, <1>8, <1>9, <1>10,
     <1>11, <1>12, <1>13, <1>14, <1>15, <1>16, <1>17, <1>18, <1>19, <1>20
     DEF TokensNext, CallSteps

\* Every step keeps the two copies together.
LEMMA FilesStep == Typed /\ Files /\ [TokensNext]_tokenVars => Files'
<1> SUFFICES ASSUME Typed /\ Files, [TokensNext]_tokenVars PROVE Files' OBVIOUS
<1> USE TokensAssumption DEF TokensTypeOK, Typed, Points, server, copies,
         Serving, Writing, In, Be, Go, Done,
         Clear, Free, Files, FileIsMemory
<1>1. ASSUME NEW c \in Callers, NEW n \in Pairs, Login(c, n) PROVE Files'
  BY <1>1 DEF Login
<1>2. ASSUME NEW c \in Callers, Logout(c) PROVE Files'
  <2>1. ~apart' => ~apart /\ ~Between(c)
    BY <1>2 DEF Logout
  <2>. QED BY <1>2, <2>1 DEF Logout, Between
<1>3. ASSUME NEW c \in Callers, NEW kind \in Kinds, Call(c, kind) PROVE Files'
  BY <1>3 DEF Call
<1>4. ASSUME NEW c \in Callers, Tried(c) PROVE Files'
  BY <1>4 DEF Tried
<1>5. ASSUME NEW c \in Callers, Unauthorized(c) PROVE Files'
  BY <1>5 DEF Unauthorized
<1>6. ASSUME NEW c \in Callers, Verify(c) PROVE Files'
  BY <1>6 DEF Verify
<1>7. ASSUME NEW c \in Callers, Revoke(c) PROVE Files'
  BY <1>7 DEF Revoke
<1>8. ASSUME NEW c \in Callers, NEW n \in Pairs, Issue(c, n) PROVE Files'
  BY <1>8 DEF Issue
<1>9. ASSUME NEW c \in Callers, Answer(c) PROVE Files'
  BY <1>9 DEF Answer
<1>10. ASSUME NEW c \in Callers, GiveUp(c) PROVE Files'
  BY <1>10 DEF GiveUp
<1>11. ASSUME NEW c \in Callers, Forgotten(c) PROVE Files'
  BY <1>11 DEF Forgotten
<1>12. ASSUME NEW c \in Callers, Refused(c) PROVE Files'
  <2>1. CASE calls[c].kind = "profile"
    <3>1. ~apart' => ~apart /\ ~Between(c)
      BY <1>12, <2>1 DEF Refused
    <3>. QED BY <1>12, <2>1, <3>1 DEF Refused, Between
  <2>2. CASE ~(calls[c].kind = "profile")
    BY SMTT(30), <1>12, <2>2 DEF Refused
  <2>. QED BY <2>1, <2>2
<1>13. ASSUME NEW c \in Callers, Retried(c) PROVE Files'
  <2>1. CASE calls[c].kind # "stop"
    <3>1. ~apart' => ~apart /\ ~Between(c)
      BY <1>13, <2>1 DEF Retried
    <3>. QED BY <1>13, <2>1, <3>1 DEF Retried, Between
  <2>2. CASE ~(calls[c].kind # "stop")
    BY <1>13, <2>2 DEF Retried
  <2>. QED BY <2>1, <2>2
<1>14. ASSUME NEW c \in Callers, RetryFails(c) PROVE Files'
  <2>1. CASE Clear(c) /\ apart' = (apart \/ Between(c))
    <3>1. ~apart' => ~apart /\ ~Between(c)
      BY <2>1
    <3>. QED BY <1>14, <2>1, <3>1 DEF RetryFails, Between
  <2>2. CASE Done(c) /\ apart' = apart
    BY <1>14, <2>2 DEF RetryFails
  <2>. QED BY <1>14, <2>1, <2>2 DEF RetryFails
<1>15. ASSUME NEW c \in Callers, WriteDisk(c) PROVE Files'
  BY <1>15 DEF WriteDisk
<1>16. ASSUME NEW c \in Callers, WriteFails(c) PROVE Files'
  BY <1>16 DEF WriteFails
<1>17. ASSUME NEW c \in Callers, WriteMemory(c) PROVE Files'
  BY <1>17 DEF WriteMemory
<1>18. ASSUME NEW p \in Pairs, Expire(p) PROVE Files'
  BY <1>18 DEF Expire
<1>19. CASE RestartClient
  BY <1>19 DEF RestartClient
<1>20. CASE UNCHANGED tokenVars
  BY <1>20 DEF tokenVars
<1>. QED
  BY <1>1, <1>2, <1>3, <1>4, <1>5, <1>6, <1>7, <1>8, <1>9, <1>10,
     <1>11, <1>12, <1>13, <1>14, <1>15, <1>16, <1>17, <1>18, <1>19, <1>20
     DEF TokensNext, CallSteps

\* At the start nothing was issued.
LEMMA InitTyped == TokensInit => Typed /\ Rotation /\ Custody /\ Files
<1> SUFFICES ASSUME TokensInit
             PROVE Typed /\ Rotation /\ Custody /\ Files
  OBVIOUS
<1> USE TokensAssumption DEF TokensInit, Free
<1>1. Typed
  BY DEF Typed, TokensTypeOK, Points, Kinds, Serving, Writing
<1>2. Rotation
  BY DEF Rotation, Unrevoked, Exchanged, Alone, Spent, First, RenewedOnce
<1>3. Custody
  BY DEF Custody, Issued, Carries, Carried, Replaced, SavedRenewable, Writing
<1>4. Files
  BY DEF Files, FileIsMemory, Writing
<1>. QED BY <1>1, <1>2, <1>3, <1>4

\* Type correctness of the tokens and the calls that renew them
\* (auth.rs, api_client.rs:413, auth.py:63).
THEOREM TokensTyped == TokensSpec => []TokensTypeOK
<1>1. TokensSpec => []Typed
  BY InitTyped, TokensTypeStep, PTL DEF TokensSpec
<1>2. Typed => TokensTypeOK
  BY DEF Typed
<1>. QED BY <1>1, <1>2, PTL

\* A refresh token is exchanged for one pair unless two requests had verified it
\* before either revoked it (auth.py:65 and 73).
THEOREM ExchangedOnce == TokensSpec => []RenewedOnce
<1>1. TokensSpec => [](Typed /\ Rotation)
  BY InitTyped, TokensTypeStep, RotationStep, PTL DEF TokensSpec
<1>2. Rotation => RenewedOnce
  BY DEF Rotation
<1>. QED BY <1>1, <1>2, PTL

\* The tokens the client keeps in memory and in auth.json can be renewed, unless
\* a failure, a restart or a stop lost their renewal (api_client.rs:434,
\* commands.rs:236, :639).
THEOREM KeptRenewable == TokensSpec => []SavedRenewable
<1>1. TokensSpec => [](Typed /\ Custody)
  BY InitTyped, TokensTypeStep, CustodyStep, PTL DEF TokensSpec
<1>2. Custody => SavedRenewable
  BY DEF Custody
<1>. QED BY <1>1, <1>2, PTL

\* The file and the memory agree whenever nothing is being written, unless a
\* write failed or two overlapped (auth.rs:46, commands.rs:237).
THEOREM CopiesAgree == TokensSpec => []FileIsMemory
<1>1. TokensSpec => [](Typed /\ Files)
  BY InitTyped, TokensTypeStep, FilesStep, PTL DEF TokensSpec
<1>2. Files /\ Typed => FileIsMemory
  BY DEF Files, FileIsMemory
<1>. QED BY <1>1, <1>2, PTL
-----------------------------------------------------------------------------
(* Billing                                                                 *)


\* A request holds a payment exactly while it works on one.
Held ==
  \A w \in Workers :
    requests[w].payment \in Payments <=> requests[w].pc \in {"link", "found", "locked"}

BTyped == BillingTypeOK /\ Held

\* Requests that have read the user and will write.
Reading == {"locked", "trial"}

\* What such a request read is what is there, unless two of them overlapped.
Current ==
  "user" \notin overlaps =>
    /\ \A w \in Workers : requests[w].pc \in Reading => requests[w].user = user
    /\ \A v, w \in Workers :
         requests[v].pc \in Reading /\ requests[w].pc \in Reading => v = w

\* The payment a link is made for is new; one that a delivery found is not.
Known ==
  \A w \in Workers :
    /\ requests[w].pc = "link" => status[requests[w].payment] = "none"
    /\ requests[w].pc \in {"found", "locked"} => status[requests[w].payment] # "none"

\* Two requests have the same payment in hand only if its deliveries overlapped;
\* a link has its payment alone.
Apart ==
  \A v, w \in Workers :
    v # w /\ requests[v].payment = requests[w].payment
      /\ requests[v].payment \in Payments =>
        /\ requests[v].payment \in overlaps
        /\ requests[v].pc # "link"

\* A payment that has bought a subscription is completed and in no hand.
Bought ==
  \A i \in DOMAIN subs : subs[i].payment \in Payments =>
    /\ status[subs[i].payment] = "completed"
    /\ \A w \in Workers :
         requests[w].payment = subs[i].payment => subs[i].payment \in overlaps

\* A trial that was given is marked as used.
Marked == \A i \in DOMAIN subs : subs[i].payment = NoPayment => user.trial

Grants == Known /\ Apart /\ Bought /\ Marked /\ GrantedOnce

\* A delivery that holds the lock extends the date it read, and the day it came.
Extends ==
  \A w \in Workers :
    /\ requests[w].day <= now
    /\ requests[w].pc = "locked" =>
         LET days == Days[Plan[requests[w].payment]] IN
         /\ requests[w].expires >= requests[w].user.expires + days
         /\ requests[w].expires >= requests[w].day + days

Granted == Extends /\ EveryDayPaid

\* The date in the user's fields is a subscription's.
Dated == user.expires # Never => \E i \in DOMAIN subs : subs[i].expires = user.expires

\* Who has a plan has a date, and a date that a request has read is not undone.
Lasting ==
  /\ user.tier # "free" => user.expires # Never
  /\ \A w \in Workers :
       /\ requests[w].user.expires # Never => user.expires # Never
       /\ requests[w].pc = "locked" => requests[w].expires > requests[w].user.expires

Backed == Dated /\ Lasting

\* The promo code's uses are counted one by one: a link that is being made has
\* read the current number, unless another one is being made.
Counted ==
  /\ IsFiniteSet(promo) /\ uses <= MaxUses
  /\ \A p \in promo : status[p] # "none"
  /\ \A w \in Workers : requests[w].pc = "link" => requests[w].uses < MaxUses
  /\ "promo" \notin overlaps =>
       /\ uses = Cardinality(promo)
       /\ \A w \in Workers : requests[w].pc = "link" => requests[w].uses = uses
       /\ \A v, w \in Workers :
            requests[v].pc = "link" /\ requests[w].pc = "link" => v = w
-----------------------------------------------------------------------------
\* What a subscription is.
Subs == [plan : Plans, payment : Payments \cup {NoPayment}, expires : Nat]

\* A subscription added at the end leaves the others where they are.
LEMMA Appended ==
  ASSUME NEW s \in Seq(Subs), NEW e \in Subs
  PROVE  /\ Append(s, e) \in Seq(Subs) /\ Append(s, e) # << >>
         /\ DOMAIN Append(s, e) = DOMAIN s \cup {Len(s) + 1}
         /\ Len(s) + 1 \notin DOMAIN s
         /\ \A i \in DOMAIN s : Append(s, e)[i] = s[i]
         /\ Append(s, e)[Len(s) + 1] = e
  OBVIOUS

\* A subscription's date is a day.
LEMMA Element ==
  ASSUME NEW s \in Seq(Subs), NEW i \in DOMAIN s
  PROVE  s[i].expires \in Nat
<1>1. s[i] \in Subs
  OBVIOUS
<1>. QED BY <1>1 DEF Subs

\* A plan has a positive number of days and is not "free".
LEMMA PlanDays ==
  /\ \A p \in Payments : Plan[p] \in Plans /\ Plan[p] # "free" /\ Plan[p] # "trial"
  /\ \A plan \in Plans : Days[plan] \in Nat /\ Days[plan] > 0
  /\ "trial" \in Plans
  BY BillingAssumption DEF Plans

\* Every date that is computed is a day that extends the old date and today.
LEMMA ExpiryDay ==
  ASSUME now \in Nat, NEW plan \in Plans, NEW d \in Nat
  PROVE  /\ CalculateExpiry(plan, d) \in Nat
         /\ CalculateExpiry(plan, d) >= d + Days[plan]
         /\ CalculateExpiry(plan, d) >= now + Days[plan]
  BY PlanDays DEF CalculateExpiry

\* Every step keeps the types.
LEMMA BillingTypeStep == BTyped /\ [BillingNext]_billingVars => BTyped'
<1> SUFFICES ASSUME BTyped, [BillingNext]_billingVars PROVE BTyped' OBVIOUS
<1> USE BillingAssumption DEF BTyped, BillingTypeOK, Held, NewUser, Never,
         OverlapsOn,
         tables, Is, Becomes, Finish, Nothing
<1>1. ASSUME NEW p \in Payments, Order(p) PROVE BTyped'
  BY <1>1 DEF Order
<1>2. ASSUME NEW w \in Workers, NEW p \in Payments, OrderWithPromo(w, p)
      PROVE  BTyped'
  BY <1>2 DEF OrderWithPromo
<1>3. ASSUME NEW w \in Workers, NEW p \in Payments, FindPayment(w, p)
      PROVE  BTyped'
  BY <1>3 DEF FindPayment
<1>4. ASSUME NEW w \in Workers, CommitLink(w) PROVE BTyped'
  BY <1>4 DEF CommitLink
<1>5. ASSUME NEW w \in Workers, LockPayment(w) PROVE BTyped'
  <2>1. requests[w].payment \in Payments
    BY <1>5 DEF LockPayment
  <2>2. CalculateExpiry(Plan[requests[w].payment], user.expires) \in Nat
    BY <2>1, PlanDays, ExpiryDay
  <2> DEFINE fields == [tier : Plans \cup {"free"}, expires : Nat, trial : BOOLEAN]
             request == [pc : {"idle", "link", "found", "locked", "trial"},
                         payment : Payments \cup {NoPayment}, uses : Nat,
                         user : fields, expires : Nat, day : Nat]
             date == CalculateExpiry(Plan[requests[w].payment], user.expires)
             r == [requests[w] EXCEPT !.pc = "locked", !.user = user, !.expires = date]
  <2>3. /\ r.pc = "locked" /\ r.payment = requests[w].payment
        /\ r \in request
    <3>1. requests[w] \in request /\ user \in fields /\ date \in Nat
      BY <2>2
    <3> HIDE DEF date, fields
    <3>. QED BY <3>1
  <2>4. /\ requests' = [requests EXCEPT ![w] = r] /\ UNCHANGED <<now, tables, owed>>
        /\ overlaps' \subseteq Payments \cup {"promo", "user"}
    BY <1>5 DEF LockPayment
  <2> HIDE DEF r, date
  <2>. QED BY <2>1, <2>3, <2>4
<1>6. ASSUME NEW w \in Workers, CommitPayment(w) PROVE BTyped'
  <2>1. requests[w].payment \in Payments /\ Plan[requests[w].payment] \in Plans
    BY <1>6, PlanDays DEF CommitPayment
  <2>2. subs' \in Seq(Subs)
    BY <1>6, <2>1 DEF CommitPayment, Row, Subs
  <2>3. user' \in [tier : Plans \cup {"free"}, expires : Nat, trial : BOOLEAN]
    BY <1>6, <2>1 DEF CommitPayment, Denormalize, Flushed
  <2>4. owed' \in Nat
    BY <1>6, <2>1, PlanDays DEF CommitPayment, Latest
  <2>. QED BY <1>6, <2>1, <2>2, <2>3, <2>4 DEF CommitPayment, Subs
<1>7. ASSUME NEW w \in Workers, BeginTrial(w) PROVE BTyped'
  BY <1>7 DEF BeginTrial
<1>8. ASSUME NEW w \in Workers, TrialRefused(w) PROVE BTyped'
  BY <1>8 DEF TrialRefused
<1>9. ASSUME NEW w \in Workers, CommitTrial(w) PROVE BTyped'
  <2>1. now + Days["trial"] \in Nat
    BY PlanDays
  <2>2. subs' \in Seq(Subs)
    BY <1>9, <2>1, PlanDays DEF CommitTrial, Row, Subs
  <2>3. user' \in [tier : Plans \cup {"free"}, expires : Nat, trial : BOOLEAN]
    BY <1>9, <2>1, PlanDays DEF CommitTrial, Denormalize, Flushed
  <2>4. owed' \in Nat
    BY <1>9, <2>1 DEF CommitTrial, Earliest
  <2>. QED BY <1>9, <2>2, <2>3, <2>4 DEF CommitTrial, Subs
<1>10. CASE Tomorrow
  BY <1>10 DEF Tomorrow
<1>11. CASE UNCHANGED billingVars
  BY <1>11 DEF billingVars
<1>. QED
  BY <1>1, <1>2, <1>3, <1>4, <1>5, <1>6,
     <1>7, <1>8, <1>9, <1>10, <1>11
     DEF BillingNext

\* Every step keeps what requests have read current.
LEMMA CurrentStep == BTyped /\ Current /\ [BillingNext]_billingVars => Current'
<1> SUFFICES ASSUME BTyped /\ Current, [BillingNext]_billingVars
             PROVE Current'
  OBVIOUS
<1> USE BillingAssumption DEF BTyped, BillingTypeOK, Held, Current, Reading,
         OverlapsOn,
         tables, Is, Becomes, Finish, Nothing
<1>1. ASSUME NEW p \in Payments, Order(p) PROVE Current'
  BY <1>1 DEF Order
<1>2. ASSUME NEW w \in Workers, NEW p \in Payments, OrderWithPromo(w, p)
      PROVE  Current'
  BY SMTT(30), <1>2 DEF OrderWithPromo
<1>3. ASSUME NEW w \in Workers, NEW p \in Payments, FindPayment(w, p)
      PROVE  Current'
  <2> DEFINE r == [Nothing EXCEPT !.pc = "found", !.payment = p, !.day = now]
  <2>1. /\ r.pc = "found" /\ requests' = [requests EXCEPT ![w] = r]
        /\ user' = user /\ overlaps \subseteq overlaps'
    BY <1>3 DEF FindPayment
  <2> HIDE DEF r
  <2>2. \A v \in Workers : requests'[v] = IF v = w THEN r ELSE requests[v]
    BY <2>1
  <2>3. \A v \in Workers : requests'[v].pc \in Reading =>
          requests[v].pc \in Reading /\ requests'[v] = requests[v]
    BY <2>1, <2>2
  <2>. QED BY <2>1, <2>3
<1>4. ASSUME NEW w \in Workers, CommitLink(w) PROVE Current'
  BY SMTT(30), <1>4 DEF CommitLink
<1>5. ASSUME NEW w \in Workers, LockPayment(w) PROVE Current'
  BY SMTT(30), <1>5 DEF LockPayment
<1>6. ASSUME NEW w \in Workers, CommitPayment(w) PROVE Current'
  BY SMTT(30), <1>6 DEF CommitPayment
<1>7. ASSUME NEW w \in Workers, BeginTrial(w) PROVE Current'
  <2> DEFINE r == [Nothing EXCEPT !.pc = "trial", !.user = user]
  <2>1. /\ r.user = user /\ requests' = [requests EXCEPT ![w] = r]
        /\ user' = user /\ overlaps \subseteq overlaps'
        /\ "user" \notin overlaps' =>
             \A v \in Workers \ {w} : requests[v].pc \notin Reading
    BY <1>7 DEF BeginTrial
  <2> HIDE DEF r
  <2>2. \A v \in Workers : requests'[v] = IF v = w THEN r ELSE requests[v]
    BY <2>1
  <2>. QED BY <2>1, <2>2
<1>8. ASSUME NEW w \in Workers, TrialRefused(w) PROVE Current'
  BY <1>8 DEF TrialRefused
<1>9. ASSUME NEW w \in Workers, CommitTrial(w) PROVE Current'
  <2>1. /\ requests[w].pc = "trial" /\ overlaps' = overlaps
        /\ requests' = [requests EXCEPT ![w] = Nothing]
    BY <1>9 DEF CommitTrial
  <2>. QED BY <2>1
<1>10. CASE Tomorrow
  BY <1>10 DEF Tomorrow
<1>11. CASE UNCHANGED billingVars
  BY <1>11 DEF billingVars
<1>. QED
  BY <1>1, <1>2, <1>3, <1>4, <1>5, <1>6,
     <1>7, <1>8, <1>9, <1>10, <1>11
     DEF BillingNext

\* Every step keeps track of what was granted.
LEMMA GrantsStep ==
  BTyped /\ Current /\ Grants /\ [BillingNext]_billingVars => Grants'
<1> SUFFICES ASSUME BTyped /\ Current /\ Grants, [BillingNext]_billingVars
             PROVE Grants'
  OBVIOUS
<1> USE BillingAssumption DEF BTyped, BillingTypeOK, Held, Grants, Known,
         Apart, Bought, Marked,
         GrantedOnce, tables, Is, Becomes, Finish, Nothing
<1>1. ASSUME NEW p \in Payments, Order(p) PROVE Grants'
  BY <1>1, SMTT(30) DEF Order
<1>2. ASSUME NEW w \in Workers, NEW p \in Payments, OrderWithPromo(w, p)
      PROVE  Grants'
  <2>0. Known'
    BY <1>2, SMTT(30) DEF OrderWithPromo
  <2>1. Apart'
    BY <1>2, SMTT(30) DEF OrderWithPromo
  <2>2. Bought'
    BY <1>2, SMTT(30) DEF OrderWithPromo
  <2>3. Marked' /\ GrantedOnce'
    BY <1>2, SMTT(30) DEF OrderWithPromo
  <2>. QED BY <2>0, <2>1, <2>2, <2>3
<1>3. ASSUME NEW w \in Workers, NEW p \in Payments, FindPayment(w, p)
      PROVE  Grants'
  <2>0. Known'
    BY <1>3, SMTT(30) DEF FindPayment
  <2>1. Apart'
    BY <1>3, SMTT(30) DEF FindPayment
  <2>2. Bought'
    BY <1>3, SMTT(30) DEF FindPayment
  <2>3. Marked' /\ GrantedOnce'
    BY <1>3, SMTT(30) DEF FindPayment
  <2>. QED BY <2>0, <2>1, <2>2, <2>3
<1>4. ASSUME NEW w \in Workers, CommitLink(w) PROVE Grants'
  <2> DEFINE p == requests[w].payment
  <2>1. /\ requests[w].pc = "link" /\ p \in Payments /\ status[p] = "none"
        /\ status' = [status EXCEPT ![p] = "pending"]
        /\ requests' = [requests EXCEPT ![w] = Nothing]
        /\ subs' = subs /\ user' = user /\ overlaps' = overlaps
    BY <1>4, SMTT(30) DEF CommitLink
  <2>2. \A v \in Workers \ {w} : requests[v].payment # p
    BY <2>1
  <2> HIDE DEF p
  <2>3. Known'
    BY <2>1, <2>2 DEF p
  <2>4. Apart'
    BY <2>1
  <2>5. Bought' /\ Marked' /\ GrantedOnce'
    BY <2>1
  <2>. QED BY <2>3, <2>4, <2>5
<1>5. ASSUME NEW w \in Workers, LockPayment(w) PROVE Grants'
  <2>0. Known'
    BY <1>5, SMTT(30) DEF LockPayment
  <2>1. Apart'
    BY <1>5, SMTT(30) DEF LockPayment
  <2>2. Bought'
    BY <1>5, SMTT(30) DEF LockPayment
  <2>3. Marked' /\ GrantedOnce'
    BY <1>5, SMTT(30) DEF LockPayment
  <2>. QED BY <2>0, <2>1, <2>2, <2>3
<1>6. ASSUME NEW w \in Workers, CommitPayment(w) PROVE Grants'
  <2> DEFINE p == requests[w].payment
             n == Len(subs) + 1
  <2>1. p \in Payments /\ p # NoPayment /\ subs \in Seq(Subs)
    BY <1>6 DEF CommitPayment, Subs
  <2>2. /\ DOMAIN subs' = DOMAIN subs \cup {n} /\ n \notin DOMAIN subs
        /\ \A i \in DOMAIN subs : subs'[i] = subs[i]
        /\ subs'[n].payment = p
    <3>1. [plan |-> Plan[p], payment |-> p, expires |-> requests[w].expires] \in Subs
      BY <2>1, PlanDays DEF Subs
    <3>. QED BY <1>6, <2>1, <3>1, Appended DEF CommitPayment, Row
  <2>3. user'.trial = user.trial
    BY <1>6 DEF CommitPayment, Denormalize, Flushed
  <2>4. /\ status' = [status EXCEPT ![p] = "completed"]
        /\ requests[w].pc = "locked" /\ overlaps' = overlaps
        /\ requests' = [requests EXCEPT ![w] = Nothing]
    BY <1>6 DEF CommitPayment
  <2> HIDE DEF p, n
  <2>5. Known' /\ Apart'
    BY <2>1, <2>4 DEF p
  <2>6. Bought'
    BY <2>1, <2>2, <2>4 DEF p
  <2>7. Marked'
    BY <2>1, <2>2, <2>3, SMTT(30)
  <2>8. GrantedOnce'
    <3>1. \A i \in DOMAIN subs : subs[i].payment = p => p \in overlaps
      BY <2>1, <2>4 DEF p
    <3>. QED BY <2>1, <2>2, <2>4, <3>1, SMTT(30)
  <2>. QED BY <2>5, <2>6, <2>7, <2>8
<1>7. ASSUME NEW w \in Workers, BeginTrial(w) PROVE Grants'
  BY <1>7, SMTT(30) DEF BeginTrial
<1>8. ASSUME NEW w \in Workers, TrialRefused(w) PROVE Grants'
  BY <1>8, SMTT(30) DEF TrialRefused
<1>9. ASSUME NEW w \in Workers, CommitTrial(w) PROVE Grants'
  <2> DEFINE n == Len(subs) + 1
  <2>1. subs \in Seq(Subs) /\ requests[w].pc = "trial" /\ ~requests[w].user.trial
    BY <1>9 DEF CommitTrial, TrialAllowed, Subs
  <2>2. /\ DOMAIN subs' = DOMAIN subs \cup {n} /\ n \notin DOMAIN subs
        /\ \A i \in DOMAIN subs : subs'[i] = subs[i]
        /\ subs'[n].payment = NoPayment
    <3>1. [plan |-> "trial", payment |-> NoPayment, expires |-> now + Days["trial"]]
            \in Subs
      BY PlanDays DEF Subs
    <3>. QED BY <1>9, <2>1, <3>1, Appended DEF CommitTrial, Row
  <2>3. user'.trial = TRUE
    BY <1>9, <2>1 DEF CommitTrial, Denormalize, Flushed
  <2>4. status' = status /\ overlaps' = overlaps
        /\ requests' = [requests EXCEPT ![w] = Nothing]
    BY <1>9, SMTT(30) DEF CommitTrial
  <2>5. "user" \notin overlaps => \A i \in DOMAIN subs : subs[i].payment # NoPayment
    BY <2>1 DEF Current, Reading
  <2> HIDE DEF n
  <2>6. Known' /\ Apart' /\ Bought' /\ Marked'
    BY <2>1, <2>2, <2>3, <2>4
  <2>7. GrantedOnce'
    BY <2>2, <2>4, <2>5
  <2>. QED BY <2>6, <2>7
<1>10. CASE Tomorrow
  BY <1>10 DEF Tomorrow
<1>11. CASE UNCHANGED billingVars
  BY <1>11 DEF billingVars
<1>. QED
  BY <1>1, <1>2, <1>3, <1>4, <1>5, <1>6,
     <1>7, <1>8, <1>9, <1>10, <1>11
     DEF BillingNext

\* Every step keeps the days that were paid.
LEMMA GrantedStep ==
  BTyped /\ Current /\ Granted /\ [BillingNext]_billingVars => Granted'
<1> SUFFICES ASSUME BTyped /\ Current /\ Granted, [BillingNext]_billingVars
             PROVE Granted'
  OBVIOUS
<1> USE BillingAssumption DEF BTyped, BillingTypeOK, Held, Granted, Extends,
         EveryDayPaid, tables, Is, Becomes, Finish, Nothing
<1>1. ASSUME NEW p \in Payments, Order(p) PROVE Granted'
  BY <1>1 DEF Order
<1>2. ASSUME NEW w \in Workers, NEW p \in Payments, OrderWithPromo(w, p)
      PROVE  Granted'
  BY <1>2 DEF OrderWithPromo
<1>3. ASSUME NEW w \in Workers, NEW p \in Payments, FindPayment(w, p)
      PROVE  Granted'
  <2> DEFINE r == [Nothing EXCEPT !.pc = "found", !.payment = p, !.day = now]
  <2>1. /\ r.pc = "found" /\ r.day = now /\ requests' = [requests EXCEPT ![w] = r]
        /\ UNCHANGED <<now, user, owed>> /\ overlaps \subseteq overlaps'
    BY <1>3 DEF FindPayment
  <2> HIDE DEF r
  <2>. QED BY <2>1
<1>4. ASSUME NEW w \in Workers, CommitLink(w) PROVE Granted'
  BY <1>4 DEF CommitLink
<1>5. ASSUME NEW w \in Workers, LockPayment(w) PROVE Granted'
  <2> DEFINE plan == Plan[requests[w].payment]
             date == CalculateExpiry(plan, user.expires)
  <2>1. requests[w].payment \in Payments /\ plan \in Plans /\ Days[plan] \in Nat
    BY <1>5, PlanDays DEF LockPayment
  <2>2. /\ date \in Nat /\ date >= user.expires + Days[plan]
        /\ date >= now + Days[plan]
    BY <2>1, ExpiryDay
  <2>3. requests[w].day \in Nat /\ requests[w].day <= now
    OBVIOUS
  <2>4. date >= requests[w].day + Days[plan]
    BY <2>1, <2>2, <2>3
  <2>5. /\ requests' = [requests EXCEPT ![w] =
             [requests[w] EXCEPT !.pc = "locked", !.user = user, !.expires = date]]
        /\ UNCHANGED <<now, user, owed>> /\ ("user" \in overlaps => "user" \in overlaps')
    BY <1>5 DEF LockPayment
  <2> HIDE DEF date
  <2>. QED BY <2>1, <2>2, <2>4, <2>5
<1>6. ASSUME NEW w \in Workers, CommitPayment(w) PROVE Granted'
  <2> DEFINE days == Days[Plan[requests[w].payment]]
             date == requests[w].expires
  <2>1. /\ days \in Nat /\ days > 0 /\ date \in Nat /\ requests[w].day \in Nat
        /\ date >= requests[w].user.expires + days
        /\ date >= requests[w].day + days
    BY <1>6, PlanDays DEF CommitPayment
  <2>2. /\ overlaps' = overlaps /\ now' = now
        /\ owed' = Latest(owed, requests[w].day) + days
        /\ requests' = [requests EXCEPT ![w] = Nothing]
    BY <1>6 DEF CommitPayment
  <2>3. "user" \notin overlaps => user'.expires = date /\ requests[w].user = user
    BY <1>6, <2>1 DEF CommitPayment, Denormalize, Flushed, Current, Reading
  <2> HIDE DEF days, date
  <2>4. Extends'
    BY <2>2
  <2>5. EveryDayPaid'
    BY <2>1, <2>2, <2>3 DEF Latest
  <2>. QED BY <2>4, <2>5
<1>7. ASSUME NEW w \in Workers, BeginTrial(w) PROVE Granted'
  BY <1>7 DEF BeginTrial
<1>8. ASSUME NEW w \in Workers, TrialRefused(w) PROVE Granted'
  BY <1>8 DEF TrialRefused
<1>9. ASSUME NEW w \in Workers, CommitTrial(w) PROVE Granted'
  <2> DEFINE date == now + Days["trial"]
  <2>1. date \in Nat
    BY PlanDays
  <2>2. /\ overlaps' = overlaps /\ now' = now /\ owed' = Earliest(owed, date)
        /\ requests' = [requests EXCEPT ![w] = Nothing]
    BY <1>9 DEF CommitTrial
  <2>3. "user" \notin overlaps => user'.expires = date
    BY <1>9, <2>1 DEF CommitTrial, Denormalize, Flushed, Current, Reading
  <2> HIDE DEF date
  <2>4. Extends'
    BY <2>2
  <2>5. EveryDayPaid'
    BY <2>1, <2>2, <2>3 DEF Earliest
  <2>. QED BY <2>4, <2>5
<1>10. CASE Tomorrow
  BY <1>10 DEF Tomorrow
<1>11. CASE UNCHANGED billingVars
  BY <1>11 DEF billingVars
<1>. QED
  BY <1>1, <1>2, <1>3, <1>4, <1>5, <1>6,
     <1>7, <1>8, <1>9, <1>10, <1>11
     DEF BillingNext

\* Every step keeps a subscription behind the user's date, whatever overlaps.
LEMMA BackedStep == BTyped /\ Backed /\ [BillingNext]_billingVars => Backed'
<1> SUFFICES ASSUME BTyped /\ Backed, [BillingNext]_billingVars PROVE Backed'
  OBVIOUS
<1> USE BillingAssumption DEF BTyped, BillingTypeOK, Held, Backed, Dated, Lasting,
         Never, NewUser, tables, Is, Becomes, Finish, Nothing
<1>1. ASSUME NEW p \in Payments, Order(p) PROVE Backed'
  BY <1>1 DEF Order
<1>2. ASSUME NEW w \in Workers, NEW p \in Payments, OrderWithPromo(w, p)
      PROVE  Backed'
  BY <1>2 DEF OrderWithPromo
<1>3. ASSUME NEW w \in Workers, NEW p \in Payments, FindPayment(w, p)
      PROVE  Backed'
  BY <1>3 DEF FindPayment
<1>4. ASSUME NEW w \in Workers, CommitLink(w) PROVE Backed'
  BY <1>4 DEF CommitLink
<1>5. ASSUME NEW w \in Workers, LockPayment(w) PROVE Backed'
  <2> DEFINE plan == Plan[requests[w].payment]
             date == CalculateExpiry(plan, user.expires)
  <2>1. requests[w].payment \in Payments /\ plan \in Plans
        /\ Days[plan] \in Nat /\ Days[plan] > 0
    BY <1>5, PlanDays DEF LockPayment
  <2>2. date \in Nat /\ date > user.expires
    <3>1. date \in Nat /\ date >= user.expires + Days[plan] /\ user.expires \in Nat
      BY <2>1, ExpiryDay
    <3> HIDE DEF date, plan
    <3>. QED BY <2>1, <3>1
  <2>3. /\ requests' = [requests EXCEPT ![w] =
             [requests[w] EXCEPT !.pc = "locked", !.user = user, !.expires = date]]
        /\ UNCHANGED <<subs, user>>
    BY <1>5 DEF LockPayment
  <2> HIDE DEF date
  <2>. QED BY <2>2, <2>3
<1>6. ASSUME NEW w \in Workers, CommitPayment(w) PROVE Backed'
  <2> DEFINE entry == Row(Plan[requests[w].payment], requests[w].payment,
                          requests[w].expires)
  <2>1. /\ entry \in Subs /\ entry.expires = requests[w].expires
        /\ entry.expires > requests[w].user.expires /\ entry.expires \in Nat
        /\ requests[w].user.expires \in Nat
    BY <1>6, PlanDays DEF CommitPayment, Row, Subs
  <2>2. /\ subs' = Append(subs, entry) /\ subs \in Seq(Subs)
        /\ requests' = [requests EXCEPT ![w] = Nothing]
        /\ user'.expires = entry.expires
    BY <1>6, <2>1 DEF CommitPayment, Denormalize, Flushed, Subs
  <2> HIDE DEF entry
  <2>3. Dated'
    BY <2>1, <2>2, Appended
  <2>4. Lasting'
    BY <2>1, <2>2
  <2>. QED BY <2>3, <2>4
<1>7. ASSUME NEW w \in Workers, BeginTrial(w) PROVE Backed'
  BY <1>7 DEF BeginTrial
<1>8. ASSUME NEW w \in Workers, TrialRefused(w) PROVE Backed'
  BY <1>8 DEF TrialRefused
<1>9. ASSUME NEW w \in Workers, CommitTrial(w) PROVE Backed'
  <2> DEFINE date == now + Days["trial"]
             entry == Row("trial", NoPayment, date)
  <2>1. /\ entry \in Subs /\ entry.expires = date /\ date \in Nat /\ date > 0
        /\ requests[w].user.expires \in Nat
    BY PlanDays DEF Row, Subs
  <2>2. /\ subs' = Append(subs, entry) /\ subs \in Seq(Subs)
        /\ requests' = [requests EXCEPT ![w] = Nothing]
        /\ \/ user'.expires = date
           \/ user'.expires = user.expires /\ requests[w].user.expires = date
    BY <1>9, <2>1 DEF CommitTrial, Denormalize, Flushed, Subs
  <2> HIDE DEF entry, date
  <2>3. user'.expires # Never
    BY <2>1, <2>2
  <2>4. Dated'
    <3>1. CASE user'.expires = date
      BY <2>1, <2>2, <3>1, Appended
    <3>2. CASE user'.expires = user.expires
      BY <2>1, <2>2, <2>3, <3>2, Appended
    <3>. QED BY <2>2, <3>1, <3>2
  <2>5. Lasting'
    BY <2>2, <2>3
  <2>. QED BY <2>4, <2>5
<1>10. CASE Tomorrow
  BY <1>10 DEF Tomorrow
<1>11. CASE UNCHANGED billingVars
  BY <1>11 DEF billingVars
<1>. QED
  BY <1>1, <1>2, <1>3, <1>4, <1>5, <1>6,
     <1>7, <1>8, <1>9, <1>10, <1>11
     DEF BillingNext

\* Every step keeps the count of the promo code.
LEMMA CountedStep ==
  BTyped /\ Grants /\ Counted /\ [BillingNext]_billingVars => Counted'
<1> SUFFICES ASSUME BTyped /\ Grants /\ Counted, [BillingNext]_billingVars
             PROVE Counted'
  OBVIOUS
<1> USE BillingAssumption DEF BTyped, BillingTypeOK, Held, Counted, OverlapsOn,
         tables, Is, Becomes, Finish, Nothing
<1>1. ASSUME NEW p \in Payments, Order(p) PROVE Counted'
  BY <1>1 DEF Order
<1>2. ASSUME NEW w \in Workers, NEW p \in Payments, OrderWithPromo(w, p)
      PROVE  Counted'
  <2>1. ValidPromo
    BY <1>2 DEF OrderWithPromo
  <2> DEFINE r == [Nothing EXCEPT !.pc = "link", !.payment = p, !.uses = uses]
  <2>2. /\ r.pc = "link" /\ r.uses = uses /\ requests' = [requests EXCEPT ![w] = r]
        /\ UNCHANGED <<promo, uses, status>> /\ overlaps \subseteq overlaps'
        /\ "promo" \notin overlaps' =>
             \A v \in Workers \ {w} : requests[v].pc # "link"
    BY <1>2 DEF OrderWithPromo
  <2> HIDE DEF r
  <2>. QED BY <2>1, <2>2 DEF ValidPromo
<1>3. ASSUME NEW w \in Workers, NEW p \in Payments, FindPayment(w, p)
      PROVE  Counted'
  BY <1>3 DEF FindPayment
<1>4. ASSUME NEW w \in Workers, CommitLink(w) PROVE Counted'
  <2> DEFINE p == requests[w].payment
  <2>1. /\ requests[w].pc = "link" /\ p \in Payments
        /\ status' = [status EXCEPT ![p] = "pending"]
        /\ requests' = [requests EXCEPT ![w] = Nothing]
        /\ promo' = promo \cup {p} /\ uses' = requests[w].uses + 1
        /\ overlaps' = overlaps
    BY <1>4 DEF CommitLink
  <2>2. status[p] = "none" /\ p \notin promo
    BY <2>1 DEF Grants, Known
  <2>3. IsFiniteSet(promo') /\ Cardinality(promo') = Cardinality(promo) + 1
    BY <2>1, <2>2, FS_AddElement
  <2> HIDE DEF p
  <2>4. uses' <= MaxUses
    BY <2>1
  <2>5. "promo" \notin overlaps' =>
          /\ uses' = Cardinality(promo')
          /\ \A v \in Workers : requests'[v].pc # "link"
    BY <2>1, <2>3
  <2>. QED BY <2>1, <2>3, <2>4, <2>5
<1>5. ASSUME NEW w \in Workers, LockPayment(w) PROVE Counted'
  BY <1>5 DEF LockPayment
<1>6. ASSUME NEW w \in Workers, CommitPayment(w) PROVE Counted'
  BY <1>6 DEF CommitPayment
<1>7. ASSUME NEW w \in Workers, BeginTrial(w) PROVE Counted'
  BY <1>7 DEF BeginTrial
<1>8. ASSUME NEW w \in Workers, TrialRefused(w) PROVE Counted'
  BY <1>8 DEF TrialRefused
<1>9. ASSUME NEW w \in Workers, CommitTrial(w) PROVE Counted'
  BY <1>9 DEF CommitTrial
<1>10. CASE Tomorrow
  BY <1>10 DEF Tomorrow
<1>11. CASE UNCHANGED billingVars
  BY <1>11 DEF billingVars
<1>. QED
  BY <1>1, <1>2, <1>3, <1>4, <1>5, <1>6,
     <1>7, <1>8, <1>9, <1>10, <1>11
     DEF BillingNext

\* At the start nothing was ordered.
LEMMA Start ==
  BillingInit => BTyped /\ Current /\ Grants /\ Granted /\ Backed /\ Counted
<1> SUFFICES ASSUME BillingInit
             PROVE BTyped /\ Current /\ Grants /\ Granted /\ Backed /\ Counted
  OBVIOUS
<1> USE BillingAssumption DEF BillingInit, Nothing, NewUser, Never
<1>1. subs \in Seq(Subs)
  OBVIOUS
<1>1a. BTyped
  BY <1>1 DEF BTyped, BillingTypeOK, Held, Plans, Subs
<1>2. Current /\ Grants
  BY DEF Current, Reading, Grants, Known, Apart, Bought, Marked, GrantedOnce
<1>3. Granted /\ Backed
  BY DEF Granted, Extends, EveryDayPaid, Backed, Dated, Lasting
<1>4. Counted
  BY FS_EmptySet DEF Counted
<1>. QED BY <1>1a, <1>2, <1>3, <1>4

\* Type correctness of the billing tables and the requests on them.
THEOREM BillingTyped == BillingSpec => []BillingTypeOK
<1>1. BillingSpec => []BTyped
  BY Start, BillingTypeStep, PTL DEF BillingSpec
<1>2. BTyped => BillingTypeOK
  BY DEF BTyped
<1>. QED BY <1>1, <1>2, PTL

\* No payment buys two subscriptions and no user has two trials, unless two
\* requests overlapped (billing_service.py:181, :220).
THEOREM NothingTwice == BillingSpec => []GrantedOnce
<1>1. BillingSpec => [](BTyped /\ Current /\ Grants)
  BY Start, BillingTypeStep, CurrentStep, GrantsStep, PTL DEF BillingSpec
<1>2. Grants => GrantedOnce
  BY DEF Grants
<1>. QED BY <1>1, <1>2, PTL

\* Every day that was paid is granted, counted from the day the provider told of
\* the payment or from the end of those paid before, up to a trial, unless
\* requests of the user overlapped (billing_service.py:61-67, :195, :240).
THEOREM PaidDaysGranted == BillingSpec => []EveryDayPaid
<1>1. BillingSpec => [](BTyped /\ Current /\ Granted)
  BY Start, BillingTypeStep, CurrentStep, GrantedStep, PTL DEF BillingSpec
<1>2. Granted => EveryDayPaid
  BY DEF Granted
<1>. QED BY <1>1, <1>2, PTL

\* However requests overlap, the gate of dependencies.py:44-58 opens only for a
\* user with a subscription that still lasts (billing_service.py:197-212, :226-240).
THEOREM GateOpensBacked == BillingSpec => []GateBacked
<1>1. BillingSpec => [](BTyped /\ Backed)
  BY Start, BillingTypeStep, BackedStep, PTL DEF BillingSpec
<1>2. ASSUME BTyped, Backed PROVE GateBacked
  <2> SUFFICES ASSUME Subscribed
               PROVE  \E i \in DOMAIN subs : subs[i].expires >= now
    BY DEF GateBacked
  <2>1. now \in Nat /\ user.expires \in Nat
    BY <1>2 DEF BTyped, BillingTypeOK
  <2>2. user.expires # Never /\ user.expires >= now
    BY <1>2, <2>1 DEF Subscribed, Backed, Lasting
  <2>. QED BY <1>2, <2>2 DEF Backed, Dated
<1>. QED BY <1>1, <1>2, PTL

\* The promo code is used up at its limit and each of its payments is counted,
\* unless two links were made at once (billing_service.py:87, :136).
THEOREM PromoUses == BillingSpec => []PromoCounted
<1>1. BillingSpec => [](BTyped /\ Current /\ Grants /\ Counted)
  BY Start, BillingTypeStep, CurrentStep, GrantsStep, CountedStep, PTL DEF BillingSpec
<1>2. Counted => PromoCounted
  BY DEF Counted, PromoCounted
<1>. QED BY <1>1, <1>2, PTL
=============================================================================
