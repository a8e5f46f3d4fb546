---------------------------- MODULE BoostProofs ----------------------------
(***************************************************************************)
(* Proofs about Boost, for any number of sessions and games, with every    *)
(* failure the module has.                                                 *)
(*                                                                         *)
(* NoOrphanProxy is inductive with the types.  StoredRuns is not: a stop   *)
(* could stop a proxy that is about to be stored, if that were the one     *)
(* already stored.  OwnersDiffer excludes it: a session is created once,   *)
(* so it is in the hands of one actor at most and is stored by no other.   *)
(***************************************************************************)
EXTENDS Boost, TLAPS

\* A session on its way to be stored.
Storing(a) == actors[a].pc = "answer" \/ actors[a].pc = "store proxy"

\* NoOrphanProxy, actor by actor.
Watched ==
  \A s \in running :
    s = slot \/ \E a \in Actors : actors[a].pc = "store proxy" /\ actors[a].session = s

\* A proxy about to be stored runs.
HeldRuns ==
  \A a \in Actors : actors[a].pc = "store proxy" => actors[a].session \in running

\* A session that is stored, runs or is on its way to be stored was created.
Created ==
  /\ slot # None => status[slot] # "none"
  /\ \A s \in running : status[s] # "none"
  /\ \A a \in Actors : Storing(a) => status[actors[a].session] # "none"

\* A session on its way to be stored is neither the stored one nor another actor's.
OwnersDiffer ==
  /\ \A a \in Actors : Storing(a) => actors[a].session # slot
  /\ \A a, b \in Actors :
       Storing(a) /\ Storing(b) /\ a # b => actors[a].session # actors[b].session

Owned == Watched /\ StoredRuns /\ HeldRuns /\ Created /\ OwnersDiffer

\* The two ways an actor moves on keep the types of the actors.
LEMMA BecomeOK ==
  ASSUME ActorsOK, NEW a \in Actors, NEW label \in Labels,
         NEW s \in Sessions \cup {None}, s # None <=> label \in Holding,
         Become(a, label, s)
  PROVE  ActorsOK'
  BY DEF ActorsOK, Become

LEMMA RestOK ==
  ASSUME ActorsOK, NEW a \in Actors, Rest(a)
  PROVE  ActorsOK'
  BY DEF ActorsOK, Rest, Idle, Labels, Holding

LEMMA AllIdle ==
  ASSUME actors' = [a \in Actors |-> Idle]
  PROVE  ActorsOK'
<1>1. Idle \in [pc : Labels, session : Sessions \cup {None}]
  BY DEF Idle, Labels
<1>2. Idle.session = None /\ Idle.pc \notin Holding
  BY DEF Idle, Holding
<1>. QED BY <1>1, <1>2 DEF ActorsOK

\* Init establishes the types.
LEMMA InitType == Init => TypeOK
<1> SUFFICES ASSUME Init PROVE TypeOK OBVIOUS
<1>1. Idle \in [pc : Labels, session : Sessions \cup {None}]
  BY DEF Idle, Labels
<1>2. Idle.session = None /\ Idle.pc \notin Holding
  BY DEF Idle, Holding
<1>3. ActorsOK
  BY <1>1, <1>2 DEF ActorsOK, Init
<1>. QED BY <1>3, BoostAssumption DEF Init, TypeOK

\* The steps of a start keep the types.
LEMMA StartingType ==
  ASSUME TypeOK, NEW a \in Actors, Starting(a)
  PROVE  TypeOK'
<1> USE BoostAssumption DEF TypeOK, client
<1>0. actors[a].pc \in Holding => actors[a].session \in Sessions
  BY DEF ActorsOK
<1>1. CASE StartRefused(a) BY <1>1, RestOK DEF StartRefused
<1>2. ASSUME NEW s \in Sessions, StartAccepted(a, s) PROVE TypeOK'
  <2>1. ActorsOK'
    BY <1>2, BecomeOK DEF StartAccepted, Labels, Holding
  <2>. QED BY <1>2, <2>1 DEF StartAccepted
<1>3. CASE OpenProxy(a)
  <2>1. actors[a].session \in Sessions
    BY <1>0, <1>3 DEF OpenProxy, At, Holding
  <2>2. ActorsOK'
    BY <1>3, <2>1, BecomeOK DEF OpenProxy, Labels, Holding
  <2>. QED BY <1>3, <2>1, <2>2 DEF OpenProxy
<1>4. CASE OpenFails(a)
  <2>1. actors[a].session \in Sessions
    BY <1>0, <1>4 DEF OpenFails, At, Holding
  <2>2. ActorsOK'
    BY <1>4, RestOK DEF OpenFails
  <2>. QED BY <1>4, <2>1, <2>2 DEF OpenFails
<1>5. CASE StoreProxy(a)
  <2>1. actors[a].session \in Sessions
    BY <1>0, <1>5 DEF StoreProxy, At, Holding
  <2>2. ActorsOK'
    BY <1>5, <2>1, BecomeOK DEF StoreProxy, Labels, Holding
  <2>. QED BY <1>5, <2>1, <2>2 DEF StoreProxy
<1>6. CASE StoreId(a)
  <2>1. actors[a].session \in Sessions
    BY <1>0, <1>6 DEF StoreId, At, Holding
  <2>. QED BY <1>6, <2>1, RestOK DEF StoreId
<1>. QED BY <1>1, <1>2, <1>3, <1>4, <1>5, <1>6 DEF Starting

\* So do the steps of a stop.
LEMMA StoppingType ==
  ASSUME TypeOK, NEW a \in Actors, Stopping(a)
  PROVE  TypeOK'
<1> USE BoostAssumption DEF TypeOK, client
<1>1. CASE TakeProxy(a)
  <2>1. ActorsOK'
    BY <1>1, BecomeOK DEF TakeProxy, Labels, Holding
  <2>. QED BY <1>1, <2>1 DEF TakeProxy
<1>2. CASE TakeId(a)
  <2>1. ActorsOK'
    <3>1. CASE Rest(a) BY <3>1, RestOK
    <3>2. CASE sessionId # None /\ Become(a, "call stop", sessionId)
      BY <3>2, BecomeOK DEF Labels, Holding
    <3>. QED BY <1>2, <3>1, <3>2 DEF TakeId
  <2>. QED BY <1>2, <2>1 DEF TakeId
<1>3. CASE StopAccepted(a)
  <2>1. ActorsOK' BY <1>3, RestOK DEF StopAccepted
  <2>. QED BY <1>3, <2>1 DEF StopAccepted
<1>4. CASE StopLost(a)
  <2>1. actors[a].session \in Sessions
    BY <1>4 DEF StopLost, At, ActorsOK, Holding
  <2>2. ActorsOK'
    BY <1>4, RestOK DEF StopLost
  <2>. QED BY <1>4, <2>1, <2>2 DEF StopLost
<1>. QED BY <1>1, <1>2, <1>3, <1>4 DEF Stopping

\* So do the window's commands and the monitor.
LEMMA WindowType ==
  ASSUME TypeOK, Commanded \/ Poll
  PROVE  TypeOK'
<1> USE BoostAssumption DEF TypeOK, client
<1>0. Commands \subseteq Actors /\ "monitor" \in Actors
  BY DEF Actors
<1>1. ASSUME NEW c \in Commands, StartBoost(c) PROVE TypeOK'
  BY <1>0, <1>1, BecomeOK DEF StartBoost, Labels, Holding
<1>2. ASSUME NEW c \in Commands, StopBoost(c) PROVE TypeOK'
  BY <1>0, <1>2, BecomeOK DEF StopBoost, Labels, Holding
<1>3. CASE PollSignedOut BY <1>3 DEF PollSignedOut, ActorsOK
<1>4. CASE PollDetects
  <2>1. CASE UNCHANGED actors BY <1>4, <2>1 DEF PollDetects, ActorsOK
  <2>2. CASE Become("monitor", "call", None)
    <3>1. ActorsOK' BY <1>0, <2>2, BecomeOK DEF Labels, Holding
    <3>. QED BY <1>4, <3>1 DEF PollDetects
  <2>. QED BY <1>4, <2>1, <2>2 DEF PollDetects
<1>5. CASE PollClosed
  <2>1. CASE UNCHANGED actors BY <1>5, <2>1 DEF PollClosed, ActorsOK
  <2>2. CASE Become("monitor", "take proxy", None)
    <3>1. ActorsOK' BY <1>0, <2>2, BecomeOK DEF Labels, Holding
    <3>. QED BY <1>5, <3>1 DEF PollClosed
  <2>. QED BY <1>5, <2>1, <2>2 DEF PollClosed
<1>. QED BY <1>1, <1>2, <1>3, <1>4, <1>5 DEF Commanded, Poll

\* So does the environment.
LEMMA EnvironmentType ==
  ASSUME TypeOK, Environment
  PROVE  TypeOK'
<1> USE BoostAssumption DEF TypeOK, client
<1>1. CASE UNCHANGED actors
  <2>1. ActorsOK' BY <1>1 DEF ActorsOK
  <2>2. CASE Restart BY <2>1, <2>2 DEF Restart, Active
  <2>. QED
    BY <2>1, <2>2 DEF Environment, GameStarts, GameEnds, AdminStops, SignIn, SignOut
<1>2. CASE Restart BY <1>2, AllIdle DEF Restart, Active
<1>. QED
  BY <1>1, <1>2 DEF Environment, GameStarts, GameEnds, AdminStops, SignIn, SignOut

\* Every step keeps the types.
LEMMA NextType == TypeOK /\ [Next]_vars => TypeOK'
<1>1. ASSUME TypeOK, UNCHANGED vars PROVE TypeOK'
  BY <1>1 DEF TypeOK, ActorsOK, vars
<1>. QED BY <1>1, StartingType, StoppingType, WindowType, EnvironmentType DEF Next

\* Types hold: Spec keeps TypeOK.
THEOREM TypeCorrect == Spec => []TypeOK
  BY InitType, NextType, PTL DEF Spec

\* What a step of actor a changes of the actors: a's own record.
LEMMA Others ==
  ASSUME TypeOK, NEW a \in Actors, NEW label, NEW s, Become(a, label, s)
  PROVE  /\ actors'[a].pc = label /\ actors'[a].session = s
         /\ \A b \in Actors : b # a => actors'[b] = actors[b]
  BY DEF TypeOK, ActorsOK, Become

LEMMA OthersAtRest ==
  ASSUME TypeOK, NEW a \in Actors, Rest(a)
  PROVE  /\ actors'[a].pc = "idle" /\ actors'[a].session = None
         /\ \A b \in Actors : b # a => actors'[b] = actors[b]
  BY DEF TypeOK, ActorsOK, Rest, Idle

\* A proxy stays watched when the step of a neither forgets nor abandons it.
LEMMA KeepsWatch ==
  ASSUME Watched, NEW a \in Actors,
         \A b \in Actors : b # a => actors'[b] = actors[b],
         \A s \in running' :
           \/ s = slot'
           \/ actors'[a].pc = "store proxy" /\ actors'[a].session = s
           \/ /\ s \in running /\ s # slot
              /\ actors[a].pc = "store proxy" => actors[a].session # s
  PROVE  Watched'
<1> SUFFICES ASSUME NEW s \in running', s # slot',
                    ~(actors'[a].pc = "store proxy" /\ actors'[a].session = s)
             PROVE  \E b \in Actors : actors'[b].pc = "store proxy" /\ actors'[b].session = s
  BY DEF Watched
<1>1. PICK b \in Actors : actors[b].pc = "store proxy" /\ actors[b].session = s
  BY DEF Watched
<1>2. b # a
  BY <1>1
<1>3. actors'[b] = actors[b]
  BY <1>2
<1>. QED BY <1>1, <1>3

\* A step that neither begins nor ends the storing of a session, and deletes no
\* session, leaves the proxies with their owners.
LEMMA KeepsOwners ==
  ASSUME ActorsOK, ActorsOK', Owned, NEW a \in Actors,
         slot' = slot, running' = running,
         \A s \in Sessions \cup running : status[s] # "none" => status'[s] # "none",
         actors[a].pc # "store proxy", ~Storing(a)',
         \A b \in Actors : b # a => actors'[b] = actors[b],
         slot \in Sessions \cup {None}
  PROVE  Owned'
<1>1. Watched'
  BY KeepsWatch DEF Owned
<1>2. StoredRuns' /\ HeldRuns'
  BY DEF Owned, StoredRuns, HeldRuns, Storing, ActorsOK
<1>3. \A b \in Actors : Storing(b)' => Storing(b) /\ b # a
  BY DEF Storing
<1>4. Created'
  BY ZenonT(30), <1>3 DEF Owned, Created, Storing, Holding, ActorsOK
<1>5. OwnersDiffer'
  BY <1>3 DEF Owned, OwnersDiffer, ActorsOK
<1>. QED BY <1>1, <1>2, <1>4, <1>5 DEF Owned

\* The steps of a start.
LEMMA StartingOwned ==
  ASSUME TypeOK, TypeOK', Owned, NEW a \in Actors, Starting(a)
  PROVE  Owned'
<1>0. ActorsOK /\ ActorsOK' /\ slot \in Sessions \cup {None}
  BY DEF TypeOK
<1>1. CASE StartRefused(a) \/ OpenFails(a) \/ StoreId(a)
  <2>1. /\ actors'[a].pc = "idle"
        /\ \A b \in Actors : b # a => actors'[b] = actors[b]
    BY <1>1, OthersAtRest DEF StartRefused, OpenFails, StoreId
  <2>2. /\ slot' = slot /\ running' = running /\ status' = status
        /\ actors[a].pc # "store proxy"
    BY <1>1 DEF StartRefused, OpenFails, StoreId, client, At
  <2>3. ~Storing(a)'
    BY <2>1 DEF Storing
  <2>. QED BY <1>0, <2>1, <2>2, <2>3, KeepsOwners
<1>2. ASSUME NEW s \in Sessions, StartAccepted(a, s) PROVE Owned'
  <2>0. running \subseteq Sessions
    BY DEF TypeOK
  <2>1. /\ actors'[a].pc = "answer" /\ actors'[a].session = s
        /\ \A b \in Actors : b # a => actors'[b] = actors[b]
    BY <1>2, Others DEF StartAccepted
  <2>2. slot' = slot /\ running' = running /\ actors[a].pc = "call"
    BY <1>2 DEF StartAccepted, client, At
  <2>3. /\ status[s] = "none" /\ status'[s] = "active"
        /\ \A x \in Sessions : x # s => status'[x] = status[x]
    BY <1>2 DEF StartAccepted, TypeOK
  <2>4. Watched'
    BY <2>1, <2>2, KeepsWatch DEF Owned
  <2>5. StoredRuns' /\ HeldRuns'
    BY <1>0, <2>1, <2>2 DEF Owned, StoredRuns, HeldRuns, ActorsOK
  <2>6. Created'
    <3>1. slot' # None => status'[slot'] # "none"
      BY <1>0, <2>2, <2>3 DEF Owned, Created
    <3>2. \A x \in running' : status'[x] # "none"
      BY <2>2, <2>3, <2>0 DEF Owned, Created
    <3>3. ASSUME NEW b \in Actors, Storing(b)' PROVE status'[actors'[b].session] # "none"
      <4>1. CASE b = a BY <2>1, <2>3, <4>1
      <4>2. CASE b # a
        <5>1. actors'[b] = actors[b] /\ Storing(b)
          BY <2>1, <3>3, <4>2 DEF Storing
        <5>2. actors[b].session \in Sessions
          BY <1>0, <5>1 DEF Storing, ActorsOK, Holding
        <5>. QED BY <2>3, <5>1, <5>2 DEF Owned, Created
      <4>. QED BY <4>1, <4>2
    <3>. QED BY <3>1, <3>2, <3>3 DEF Created
  <2>7. OwnersDiffer'
    <3>1. slot # s /\ \A b \in Actors : Storing(b) => actors[b].session # s
      BY <2>3, BoostAssumption DEF Owned, Created
    <3>2. \A b \in Actors : b # a => Storing(b)' = Storing(b)
      BY <2>1 DEF Storing
    <3>. QED BY <1>0, <2>1, <2>2, <3>1, <3>2 DEF Owned, OwnersDiffer, ActorsOK
  <2>. QED BY <2>4, <2>5, <2>6, <2>7 DEF Owned
<1>3. CASE OpenProxy(a)
  <2>1. /\ actors'[a].pc = "store proxy" /\ actors'[a].session = actors[a].session
        /\ \A b \in Actors : b # a => actors'[b] = actors[b]
    BY <1>3, Others DEF OpenProxy
  <2>2. /\ slot' = slot /\ status' = status /\ actors[a].pc = "answer"
        /\ running' = running \cup {actors[a].session}
    BY <1>3 DEF OpenProxy, client, At
  <2>3. \A b \in Actors : /\ Storing(b)' = Storing(b)
                          /\ actors'[b].session = actors[b].session
    BY <2>1, <2>2 DEF Storing
  <2>4. Watched'
    BY <2>1, <2>2, KeepsWatch DEF Owned
  <2>5. StoredRuns' /\ HeldRuns'
    BY <1>0, <2>1, <2>2 DEF Owned, StoredRuns, HeldRuns, ActorsOK
  <2>6. Created'
    <3>1. status[actors[a].session] # "none"
      BY <2>2 DEF Owned, Created, Storing
    <3>. QED BY <2>2, <2>3, <3>1 DEF Owned, Created
  <2>7. OwnersDiffer'
    BY <2>2, <2>3 DEF Owned, OwnersDiffer
  <2>. QED BY <2>4, <2>5, <2>6, <2>7 DEF Owned
<1>4. CASE StoreProxy(a)
  <2>1. /\ actors'[a].pc = "store id" /\ actors'[a].session = actors[a].session
        /\ \A b \in Actors : b # a => actors'[b] = actors[b]
    BY <1>4, Others DEF StoreProxy
  <2>2. /\ slot' = actors[a].session /\ status' = status
        /\ actors[a].pc = "store proxy" /\ running' = running \ {slot}
    BY <1>4 DEF StoreProxy, At
  <2>3. Storing(a) /\ ~Storing(a)' /\ \A b \in Actors : b # a => Storing(b)' = Storing(b)
    BY <2>1, <2>2 DEF Storing
  <2>4. actors[a].session \in running /\ actors[a].session # slot
    BY <2>2, <2>3 DEF Owned, HeldRuns, OwnersDiffer
  <2>5. Watched'
    BY <2>1, <2>2, KeepsWatch DEF Owned
  <2>6. StoredRuns' /\ HeldRuns'
    <3>1. \A b \in Actors : actors[b].pc = "store proxy" => actors[b].session # slot
      BY DEF Owned, OwnersDiffer, Storing
    <3>. QED BY <1>0, <2>1, <2>2, <2>4, <3>1 DEF Owned, StoredRuns, HeldRuns, ActorsOK
  <2>7. Created'
    BY <1>0, <2>1, <2>2, <2>3 DEF Owned, Created, ActorsOK
  <2>8. OwnersDiffer'
    BY <1>0, <2>1, <2>2, <2>3 DEF Owned, OwnersDiffer, ActorsOK
  <2>. QED BY <2>5, <2>6, <2>7, <2>8 DEF Owned
<1>. QED BY <1>1, <1>2, <1>3, <1>4 DEF Starting

\* The steps of a stop.
LEMMA StoppingOwned ==
  ASSUME TypeOK, TypeOK', Owned, NEW a \in Actors, Stopping(a)
  PROVE  Owned'
<1>0. ActorsOK /\ ActorsOK' /\ slot \in Sessions \cup {None} /\ running \subseteq Sessions
  BY DEF TypeOK
<1>1. CASE TakeProxy(a)
  <2>1. /\ actors'[a].pc = "take id"
        /\ \A b \in Actors : b # a => actors'[b] = actors[b]
    BY <1>1, Others DEF TakeProxy
  <2>2. /\ slot' = None /\ status' = status
        /\ actors[a].pc = "take proxy" /\ running' = running \ {slot}
    BY <1>1 DEF TakeProxy, At
  <2>3. \A b \in Actors : Storing(b)' = Storing(b) /\ (Storing(b) => b # a)
    BY <2>1, <2>2 DEF Storing
  <2>4. \A b \in Actors : Storing(b) => actors[b].session # None
    BY <1>0 DEF Storing, ActorsOK, Holding
  <2>5. Watched'
    BY <2>1, <2>2, KeepsWatch DEF Owned
  <2>6. StoredRuns' /\ HeldRuns'
    <3>1. \A b \in Actors : actors[b].pc = "store proxy" => actors[b].session # slot
      BY DEF Owned, OwnersDiffer, Storing
    <3>. QED BY <1>0, <2>1, <2>2, <3>1 DEF Owned, StoredRuns, HeldRuns, ActorsOK
  <2>7. Created'
    BY <1>0, <2>1, <2>2, <2>3 DEF Owned, Created, ActorsOK
  <2>8. OwnersDiffer'
    BY <1>0, <2>1, <2>2, <2>3, <2>4 DEF Owned, OwnersDiffer, ActorsOK
  <2>. QED BY <2>5, <2>6, <2>7, <2>8 DEF Owned
<1>2. CASE TakeId(a) \/ StopAccepted(a) \/ StopLost(a)
  <2>1. /\ ~Storing(a)'
        /\ \A b \in Actors : b # a => actors'[b] = actors[b]
    <3>1. CASE Rest(a)
      <4>1. actors'[a].pc = "idle" BY <3>1, OthersAtRest
      <4>. QED BY <3>1, <4>1, OthersAtRest DEF Storing
    <3>2. CASE Become(a, "call stop", sessionId)
      <4>1. actors'[a].pc = "call stop" BY <3>2, Others
      <4>. QED BY <3>2, <4>1, Others DEF Storing
    <3>. QED BY <1>2, <3>1, <3>2 DEF TakeId, StopAccepted, StopLost
  <2>2. slot' = slot /\ running' = running /\ actors[a].pc # "store proxy"
    BY <1>2 DEF TakeId, StopAccepted, StopLost, client, At
  <2>3. \A s \in Sessions \cup running : status[s] # "none" => status'[s] # "none"
    BY <1>0, <1>2 DEF TakeId, StopAccepted, StopLost, TypeOK
  <2>. QED BY <1>0, <2>1, <2>2, <2>3, KeepsOwners
<1>. QED BY <1>1, <1>2 DEF Stopping

\* The window's commands, the monitor and the environment.
LEMMA OtherOwned ==
  ASSUME TypeOK, TypeOK', Owned, Commanded \/ Poll \/ Environment
  PROVE  Owned'
<1>0. /\ ActorsOK /\ ActorsOK' /\ slot \in Sessions \cup {None}
      /\ running \subseteq Sessions
      /\ Commands \subseteq Actors /\ "monitor" \in Actors
  BY DEF TypeOK, Actors
<1>1. CASE Restart
  <2>1. \A b \in Actors : actors'[b].pc = "idle"
    BY <1>1 DEF Restart, Idle
  <2>2. slot' = None /\ running' = {}
    BY <1>1 DEF Restart
  <2>. QED
    BY <2>1, <2>2
       DEF Owned, Watched, StoredRuns, HeldRuns, Created, OwnersDiffer, Storing
<1>2. ASSUME slot' = slot, running' = running, actors' = actors,
             \A s \in Sessions : status[s] # "none" => status'[s] # "none"
      PROVE  Owned'
  <2>1. Watched' /\ StoredRuns' /\ HeldRuns' /\ OwnersDiffer'
    BY <1>2 DEF Owned, Watched, StoredRuns, HeldRuns, OwnersDiffer, Storing
  <2>2. Created'
    BY <1>0, <1>2 DEF Owned, Created, Storing, ActorsOK, Holding
  <2>. QED BY <2>1, <2>2 DEF Owned
<1>3. ASSUME NEW a \in Actors, NEW label, label \in {"call", "take proxy"},
             actors[a].pc = "idle", Become(a, label, None),
             slot' = slot, running' = running, status' = status
      PROVE  Owned'
  <2>1. /\ ~Storing(a)'
        /\ \A b \in Actors : b # a => actors'[b] = actors[b]
    BY <1>3, Others DEF Storing
  <2>. QED BY <1>0, <1>3, <2>1, KeepsOwners
<1>4. ASSUME NEW c \in Commands, StartBoost(c) PROVE Owned'
  BY <1>0, <1>3, <1>4 DEF StartBoost, client, At
<1>5. ASSUME NEW c \in Commands, StopBoost(c) PROVE Owned'
  BY <1>0, <1>3, <1>5 DEF StopBoost, client, At
<1>6. CASE Poll
  <2>1. slot' = slot /\ running' = running /\ status' = status
    BY <1>6 DEF Poll, PollSignedOut, PollDetects, PollClosed, client
  <2>2. \/ actors' = actors
        \/ /\ actors["monitor"].pc = "idle"
           /\ \/ Become("monitor", "call", None)
              \/ Become("monitor", "take proxy", None)
    BY <1>6 DEF Poll, PollSignedOut, PollDetects, PollClosed, At
  <2>. QED BY <1>0, <1>2, <1>3, <2>1, <2>2
<1>7. CASE Environment /\ ~Restart
  <2>1. slot' = slot /\ running' = running /\ actors' = actors
    BY <1>7 DEF Environment, GameStarts, GameEnds, AdminStops, SignIn, SignOut, client
  <2>2. \A s \in Sessions : status[s] # "none" => status'[s] # "none"
    BY <1>7 DEF Environment, GameStarts, GameEnds, AdminStops, SignIn, SignOut, TypeOK
  <2>. QED BY <1>2, <2>1, <2>2
<1>. QED BY <1>1, <1>4, <1>5, <1>6, <1>7 DEF Commanded, Environment

\* Every step keeps the owners.
LEMMA NextOwned == TypeOK /\ TypeOK' /\ Owned /\ [Next]_vars => Owned'
<1>1. ASSUME Owned, UNCHANGED vars PROVE Owned'
  BY <1>1
     DEF Owned, Watched, StoredRuns, HeldRuns, Created, OwnersDiffer, Storing, vars
<1>. QED BY <1>1, StartingOwned, StoppingOwned, OtherOwned DEF Next

\* At the start nothing runs.
LEMMA InitOwned == Init => Owned
<1> SUFFICES ASSUME Init PROVE Owned OBVIOUS
<1>1. \A a \in Actors : actors[a].pc = "idle"
  BY DEF Init, Idle
<1>2. slot = None /\ running = {}
  BY DEF Init
<1>. QED
  BY <1>1, <1>2 DEF Owned, Watched, StoredRuns, HeldRuns, Created, OwnersDiffer, Storing

\* No proxy runs unnoticed, whatever fails and however commands and the monitor
\* overlap (udp_proxy.rs:396).
THEOREM ProxiesOwned == Spec => []NoOrphanProxy
<1>1. Owned => NoOrphanProxy
  BY DEF Owned, Watched, NoOrphanProxy, At
<1>. QED BY <1>1, InitOwned, NextOwned, TypeCorrect, PTL DEF Spec

\* The stored proxy runs (commands.rs:626-632).
THEOREM StoredProxyRuns == Spec => []StoredRuns
<1>1. Owned => StoredRuns
  BY DEF Owned
<1>. QED BY <1>1, InitOwned, NextOwned, TypeCorrect, PTL DEF Spec

(***************************************************************************)
(* ActiveIsKnown.  Storing an id overwrites the one stored before, which   *)
(* must not be the active session's.  It is not, because the API holds one *)
(* session active at a time and the session about to be stored is that     *)
(* one: nobody else knows it, so nobody but an administrator ends it.      *)
(***************************************************************************)

\* A session the actor has started and not yet stored.
Carrying(a) == actors[a].pc \in {"answer", "store proxy", "store id"}

OneActive == \A x, y \in Active : x = y

\* Sessions the client names exist.
Named ==
  /\ sessionId # None => status[sessionId] # "none"
  /\ \A a \in Actors : actors[a].session # None => status[actors[a].session] # "none"

\* Nobody else knows a session before it is stored.
Unshared ==
  \A a \in Actors : Carrying(a) =>
    /\ status[actors[a].session] \in {"active", "revoked"}
    /\ actors[a].session # sessionId
    /\ \A b \in Actors : b # a => actors[b].session # actors[a].session

Known == OneActive /\ Named /\ Unshared /\ ActiveIsKnown

\* What the module says of actor records, in the form the steps below need.
LEMMA HandSessions ==
  ASSUME ActorsOK, NEW a \in Actors
  PROVE  /\ actors[a].session \in Sessions \cup {None}
         /\ Carrying(a) => actors[a].session \in Sessions /\ actors[a].session # None
         /\ actors[a].pc \notin Holding => actors[a].session = None
         /\ actors[a].pc = "call stop" => actors[a].session \in Sessions
  BY BoostAssumption DEF ActorsOK, Holding, Carrying

\* A step of actor a that changes no session and drops none keeps Known.
LEMMA KeepsKnown ==
  ASSUME TypeOK, Known, NEW a \in Actors, status' = status,
         sessionId' = sessionId, lost' = lost,
         \A b \in Actors : b # a => actors'[b] = actors[b],
         actors'[a].session = actors[a].session,
         Carrying(a)' => Carrying(a)
  PROVE  Known'
<1>1. OneActive'
  BY DEF Known, OneActive, Active
<1>2. Named'
  BY DEF Known, Named
<1>3. \A b \in Actors : actors'[b].session = actors[b].session /\ (Carrying(b)' => Carrying(b))
  BY DEF Carrying
<1>4. Unshared'
  BY <1>3 DEF Known, Unshared
<1>5. InHand' = InHand
  BY <1>3 DEF InHand
<1>6. ActiveIsKnown'
  BY <1>5 DEF Known, ActiveIsKnown, Active
<1>. QED BY <1>1, <1>2, <1>4, <1>6 DEF Known

\* What the step of actor a takes from the stored id and from a's hands is still
\* known, or no longer active.
LEMMA StillKnown ==
  ASSUME ActiveIsKnown, NEW a \in Actors,
         \A b \in Actors : b # a => actors'[b] = actors[b],
         \A x \in Active' : x \in Active,
         \A x \in Sessions : status[x] = "revoked" => status'[x] = "revoked",
         \A x \in lost : x \in lost',
         \A x \in Active' :
           x \in {sessionId, actors[a].session}
             => x \in {sessionId', actors'[a].session} \cup lost'
  PROVE  ActiveIsKnown'
<1>1. SUFFICES ASSUME \A s \in Sessions : status'[s] # "revoked",
                      NEW x \in Active', x \notin {sessionId'} \cup lost'
               PROVE  x \in InHand'
  BY DEF ActiveIsKnown
<1>2. x \in Active /\ x \in Sessions /\ x # None
  BY BoostAssumption DEF Active
<1>3. x \in {sessionId} \cup InHand
  BY <1>1, <1>2 DEF ActiveIsKnown
<1>4. PICK b \in Actors : x \in {sessionId, actors[b].session}
  BY <1>3 DEF InHand
<1>5. \E b1 \in Actors : actors'[b1].session = x
  BY <1>1, <1>4
<1>. QED BY <1>2, <1>5 DEF InHand

\* The steps of a start.
LEMMA StartingKnown ==
  ASSUME TypeOK, Known, NEW a \in Actors, Starting(a)
  PROVE  Known'
<1>0. ActorsOK /\ sessionId \in Sessions \cup {None} /\ lost \subseteq Sessions
  BY DEF TypeOK
<1>1. CASE StartRefused(a)
  <2>1. actors[a].session = None
    BY <1>0, <1>1, HandSessions DEF StartRefused, At, Holding
  <2>2. /\ actors'[a].pc = "idle" /\ actors'[a].session = None
        /\ \A b \in Actors : b # a => actors'[b] = actors[b]
    BY <1>1, OthersAtRest DEF StartRefused
  <2>. QED BY <1>1, <2>1, <2>2, KeepsKnown DEF StartRefused, client, Carrying
<1>2. ASSUME NEW s \in Sessions, StartAccepted(a, s) PROVE Known'
  <2>1. /\ actors'[a].pc = "answer" /\ actors'[a].session = s
        /\ \A b \in Actors : b # a => actors'[b] = actors[b]
    BY <1>2, Others DEF StartAccepted
  <2>2. /\ Active = {} /\ status[s] = "none" /\ status'[s] = "active"
        /\ \A x \in Sessions : x # s => status'[x] = status[x]
        /\ sessionId' = sessionId
    BY <1>2 DEF StartAccepted, TypeOK, client
  <2>3. Active' = {s}
    BY <2>2 DEF Active
  <2>4. s # sessionId /\ \A b \in Actors : actors[b].session # s
    BY <2>2, BoostAssumption DEF Known, Named
  <2>5. OneActive'
    BY <2>3 DEF OneActive
  <2>6. Named'
    <3>1. sessionId' # None => status'[sessionId'] # "none"
      BY <1>0, <2>2 DEF Known, Named
    <3>2. ASSUME NEW b \in Actors, actors'[b].session # None
          PROVE  status'[actors'[b].session] # "none"
      <4>1. CASE b = a BY <2>1, <2>2, <4>1
      <4>2. CASE b # a
        BY <1>0, <2>1, <2>2, <3>2, <4>2, HandSessions DEF Known, Named
      <4>. QED BY <4>1, <4>2
    <3>. QED BY <3>1, <3>2 DEF Named
  <2>7. Unshared'
    <3>1. \A b \in Actors : b # a => Carrying(b)' = Carrying(b)
      BY <2>1 DEF Carrying
    <3>2. ASSUME NEW b \in Actors, Carrying(b)'
          PROVE  /\ status'[actors'[b].session] \in {"active", "revoked"}
                 /\ actors'[b].session # sessionId'
                 /\ \A c \in Actors : c # b => actors'[c].session # actors'[b].session
      <4>1. CASE b = a
        BY <2>1, <2>2, <2>4, <4>1
      <4>2. CASE b # a
        <5>1. Carrying(b) /\ actors'[b].session = actors[b].session
          BY <2>1, <3>1, <3>2, <4>2
        <5>2. actors[b].session \in Sessions /\ actors[b].session # s
          BY <1>0, <2>4, <5>1, HandSessions
        <5>3. \A c \in Actors : c # b => actors[c].session # actors[b].session
          BY <5>1 DEF Known, Unshared
        <5>. QED BY <2>1, <2>2, <5>1, <5>2, <5>3 DEF Known, Unshared
      <4>. QED BY <4>1, <4>2
    <3>. QED BY <3>2 DEF Unshared
  <2>8. s \in InHand'
    BY <2>1, BoostAssumption DEF InHand
  <2>. QED BY <2>3, <2>5, <2>6, <2>7, <2>8 DEF Known, ActiveIsKnown
<1>3. CASE OpenProxy(a)
  <2>1. /\ actors'[a].pc = "store proxy" /\ actors'[a].session = actors[a].session
        /\ \A b \in Actors : b # a => actors'[b] = actors[b]
    BY <1>3, Others DEF OpenProxy
  <2>. QED BY <1>3, <2>1, KeepsKnown DEF OpenProxy, At, client, Carrying
<1>4. CASE StoreProxy(a)
  <2>1. /\ actors'[a].pc = "store id" /\ actors'[a].session = actors[a].session
        /\ \A b \in Actors : b # a => actors'[b] = actors[b]
    BY <1>4, Others DEF StoreProxy
  <2>. QED BY <1>4, <2>1, KeepsKnown DEF StoreProxy, At, Carrying
<1>5. CASE OpenFails(a) \/ StoreId(a)
  <2>1. Rest(a) /\ status' = status /\ Carrying(a)
    BY <1>5 DEF OpenFails, StoreId, At, Carrying
  <2>2. actors[a].session \in Sessions /\ actors[a].session # None
    BY <1>0, <2>1, HandSessions
  <2>3. \/ sessionId' = sessionId /\ lost' = lost \cup {actors[a].session}
        \/ sessionId' = actors[a].session /\ lost' = lost
    BY <1>5 DEF OpenFails, StoreId
  <2>4. /\ actors'[a].session = None /\ ~Carrying(a)'
        /\ \A b \in Actors : b # a => actors'[b] = actors[b]
    BY <2>1, OthersAtRest DEF Carrying
  <2>5. Active' = Active
    BY <2>1 DEF Active
  <2>6. /\ status[actors[a].session] \in {"active", "revoked"}
        /\ \A b \in Actors : b # a => actors[b].session # actors[a].session
    BY <2>1 DEF Known, Unshared
  <2>7. OneActive' /\ Named'
    BY <2>1, <2>2, <2>3, <2>4, <2>5, <2>6 DEF Known, OneActive, Named
  <2>8. Unshared'
    <3>1. \A b \in Actors : Carrying(b)' => Carrying(b) /\ b # a
      BY <2>4 DEF Carrying
    <3>2. \A b \in Actors : Carrying(b) => actors[b].session # None
      BY <1>0, HandSessions
    <3>. QED BY <2>1, <2>3, <2>4, <2>6, <3>1, <3>2 DEF Known, Unshared
  <2>9. ActiveIsKnown'
    <3>1. CASE actors[a].session \in Active
      <4>1. \A x \in Active' : x = actors[a].session
        BY <2>5, <3>1 DEF Known, OneActive
      <4>. QED BY <2>3, <4>1 DEF ActiveIsKnown
    <3>2. CASE actors[a].session \notin Active
      BY <2>1, <2>2, <2>6, <3>2 DEF Active, ActiveIsKnown
    <3>. QED BY <3>1, <3>2
  <2>. QED BY <2>7, <2>8, <2>9 DEF Known
<1>. QED BY <1>1, <1>2, <1>3, <1>4, <1>5 DEF Starting

\* The steps of a stop.
LEMMA StoppingKnown ==
  ASSUME TypeOK, Known, NEW a \in Actors, Stopping(a)
  PROVE  Known'
<1>0. ActorsOK /\ sessionId \in Sessions \cup {None} /\ lost \subseteq Sessions
  BY DEF TypeOK
<1>1. CASE TakeProxy(a)
  <2>1. actors[a].session = None
    BY <1>0, <1>1, HandSessions DEF TakeProxy, At, Holding
  <2>2. /\ actors'[a].pc = "take id" /\ actors'[a].session = None
        /\ \A b \in Actors : b # a => actors'[b] = actors[b]
    BY <1>1, Others DEF TakeProxy
  <2>. QED BY <1>1, <2>1, <2>2, KeepsKnown DEF TakeProxy, Carrying
<1>2. CASE TakeId(a)
  <2>1. actors[a].session = None
    BY <1>0, <1>2, HandSessions DEF TakeId, At, Holding
  <2>2. status' = status /\ sessionId' = None
    BY <1>2 DEF TakeId
  <2>3. \/ Become(a, "call stop", sessionId) /\ lost' = lost
        \/ Rest(a) /\ lost' = lost \cup ({sessionId} \ {None})
    BY <1>2 DEF TakeId
  <2>4. /\ ~Carrying(a)'
        /\ actors'[a].session \in {sessionId, None}
        /\ \A b \in Actors : b # a => actors'[b] = actors[b]
        /\ sessionId # None => sessionId \in {actors'[a].session} \cup lost'
    <3>1. CASE Become(a, "call stop", sessionId)
      <4>1. actors'[a].pc = "call stop" /\ actors'[a].session = sessionId
        BY <3>1, Others
      <4>2. \A b \in Actors : b # a => actors'[b] = actors[b]
        BY <3>1, Others
      <4>. QED BY <4>1, <4>2 DEF Carrying
    <3>2. CASE Rest(a) /\ lost' = lost \cup ({sessionId} \ {None})
      BY <3>2, OthersAtRest DEF Carrying
    <3>. QED BY <2>3, <3>1, <3>2
  <2>5. OneActive' /\ Named'
    BY <2>2, <2>4 DEF Known, OneActive, Active, Named
  <2>6. Unshared'
    <3>1. \A b \in Actors : Carrying(b)' => Carrying(b) /\ b # a
      BY <2>4 DEF Carrying
    <3>2. \A b \in Actors : Carrying(b) => actors[b].session # None
      BY <1>0, HandSessions
    <3>. QED BY <2>2, <2>4, <3>1, <3>2 DEF Known, Unshared
  <2>7. ActiveIsKnown'
    <3>1. \A x \in Active' : x \in Active /\ x # None
      BY <2>2, BoostAssumption DEF Active
    <3>. QED BY <2>1, <2>2, <2>3, <2>4, <3>1, StillKnown DEF Known
  <2>. QED BY <2>5, <2>6, <2>7 DEF Known
<1>3. CASE StopAccepted(a) \/ StopLost(a)
  <2>1. Rest(a) /\ sessionId' = sessionId /\ actors[a].pc = "call stop"
    BY <1>3 DEF StopAccepted, StopLost, client, At
  <2>2. actors[a].session \in Sessions
    BY <1>0, <2>1, HandSessions
  <2>3. \/ /\ lost' = lost
           /\ status' = [status EXCEPT ![actors[a].session] =
                           IF @ = "active" THEN "stopped" ELSE @]
        \/ lost' = lost \cup {actors[a].session} /\ status' = status
    BY <1>3 DEF StopAccepted, StopLost, client
  <2>4. \A x \in Sessions :
          /\ status'[x] = "none" <=> status[x] = "none"
          /\ status[x] = "revoked" => status'[x] = "revoked"
          /\ status'[x] = "active" => status[x] = "active"
          /\ x # actors[a].session => status'[x] = status[x]
    BY <2>2, <2>3 DEF TypeOK
  <2>5. \A x \in Active' : x \in Active
    BY <2>4 DEF Active
  <2>6. /\ actors'[a].session = None /\ ~Carrying(a)'
        /\ \A b \in Actors : b # a => actors'[b] = actors[b]
    BY <2>1, OthersAtRest DEF Carrying
  <2>7. OneActive'
    BY <2>5 DEF Known, OneActive
  <2>8. Named'
    <3>1. sessionId' # None => status'[sessionId'] # "none"
      BY <1>0, <2>1, <2>4 DEF Known, Named
    <3>2. ASSUME NEW b \in Actors, actors'[b].session # None
          PROVE  status'[actors'[b].session] # "none"
      <4>1. b # a /\ actors'[b].session = actors[b].session
        BY <2>6, <3>2
      <4>2. actors[b].session \in Sessions /\ status[actors[b].session] # "none"
        BY <1>0, <3>2, <4>1, HandSessions DEF Known, Named
      <4>. QED BY <2>4, <4>1, <4>2
    <3>. QED BY <3>1, <3>2 DEF Named
  <2>9. Unshared'
    <3>1. \A b \in Actors : Carrying(b)' => Carrying(b) /\ b # a
      BY <2>6 DEF Carrying
    <3>2. \A b \in Actors : Carrying(b) =>
            actors[b].session \in Sessions /\ actors[b].session # None
      BY <1>0, HandSessions
    <3>3. \A b \in Actors : Carrying(b) /\ b # a =>
            status'[actors[b].session] = status[actors[b].session]
      BY <2>4, <3>2 DEF Known, Unshared
    <3>4. \A b \in Actors : Carrying(b)' =>
            /\ b # a /\ Carrying(b) /\ actors'[b].session = actors[b].session
      BY <2>6, <3>1
    <3>5. \A b \in Actors : Carrying(b) /\ b # a =>
            /\ status'[actors[b].session] \in {"active", "revoked"}
            /\ actors[b].session # sessionId'
            /\ \A c \in Actors : c # b => actors[c].session # actors[b].session
      BY <2>1, <3>3 DEF Known, Unshared
    <3>6. \A b, c \in Actors : Carrying(b) /\ b # a /\ c # b
            => actors'[c].session # actors[b].session
      BY <2>6, <3>2, <3>5
    <3>. QED BY <3>4, <3>5, <3>6 DEF Unshared
  <2>10. ActiveIsKnown'
    <3>1. actors[a].session \in Active' => actors[a].session \in lost'
      BY <2>2, <2>3 DEF Active, TypeOK
    <3>2. \A x \in lost : x \in lost'
      BY <2>3
    <3>. QED BY <2>1, <2>4, <2>5, <2>6, <3>1, <3>2, StillKnown DEF Known
  <2>. QED BY <2>7, <2>8, <2>9, <2>10 DEF Known
<1>. QED BY <1>1, <1>2, <1>3 DEF Stopping

\* The window's commands, the monitor and the environment.
LEMMA OtherKnown ==
  ASSUME TypeOK, Known, Commanded \/ Poll \/ Environment
  PROVE  Known'
<1>0. /\ ActorsOK /\ sessionId \in Sessions \cup {None}
      /\ Commands \subseteq Actors /\ "monitor" \in Actors
  BY DEF TypeOK, Actors
<1>1. ASSUME NEW a \in Actors, NEW label, label \in {"call", "take proxy"},
             actors[a].pc = "idle", Become(a, label, None),
             sessionId' = sessionId, lost' = lost, status' = status
      PROVE  Known'
  <2>1. actors[a].session = None
    BY <1>0, <1>1, HandSessions DEF Holding
  <2>2. /\ ~Carrying(a)' /\ actors'[a].session = None
        /\ \A b \in Actors : b # a => actors'[b] = actors[b]
    BY <1>1, Others DEF Carrying
  <2>. QED BY <1>1, <2>1, <2>2, KeepsKnown
<1>2. ASSUME sessionId' = sessionId, lost' = lost, status' = status,
             actors' = actors
      PROVE  Known'
  BY <1>0, <1>2, KeepsKnown DEF Carrying
<1>3. ASSUME NEW c \in Commands, StartBoost(c) PROVE Known'
  BY <1>0, <1>1, <1>3 DEF StartBoost, client, At
<1>4. ASSUME NEW c \in Commands, StopBoost(c) PROVE Known'
  BY <1>0, <1>1, <1>4 DEF StopBoost, client, At
<1>5. CASE Poll
  <2>1. sessionId' = sessionId /\ lost' = lost /\ status' = status
    BY <1>5 DEF Poll, PollSignedOut, PollDetects, PollClosed, client
  <2>2. \/ actors' = actors
        \/ /\ actors["monitor"].pc = "idle"
           /\ \/ Become("monitor", "call", None)
              \/ Become("monitor", "take proxy", None)
    BY <1>5 DEF Poll, PollSignedOut, PollDetects, PollClosed, At
  <2>. QED BY <1>0, <1>1, <1>2, <2>1, <2>2
<1>6. CASE Restart
  <2>1. /\ \A a \in Actors : actors'[a].pc = "idle" /\ actors'[a].session = None
        /\ sessionId' = None /\ status' = status /\ lost' = lost \cup Active
    BY <1>6 DEF Restart, Idle
  <2>. QED
    BY <2>1
       DEF Known, OneActive, Active, Named, Unshared, Carrying, ActiveIsKnown
<1>7. ASSUME NEW s \in Sessions, AdminStops(s) PROVE Known'
  <2>1. /\ status'[s] = "revoked" /\ status[s] = "active"
        /\ \A x \in Sessions : x # s => status'[x] = status[x]
        /\ sessionId' = sessionId /\ actors' = actors
    BY <1>7 DEF AdminStops, TypeOK, client
  <2>2. OneActive'
    BY <2>1 DEF Known, OneActive, Active
  <2>3. Named'
    BY <1>0, <2>1, HandSessions DEF Known, Named
  <2>4. Unshared'
    BY <1>0, <2>1, HandSessions DEF Known, Unshared, Carrying
  <2>5. ActiveIsKnown'
    BY <2>1 DEF ActiveIsKnown
  <2>. QED BY <2>2, <2>3, <2>4, <2>5 DEF Known
<1>8. CASE \/ \E g \in Games : GameStarts(g)
           \/ GameEnds \/ SignIn \/ SignOut
  BY <1>2, <1>8 DEF GameStarts, GameEnds, SignIn, SignOut, client
<1>. QED BY <1>3, <1>4, <1>5, <1>6, <1>7, <1>8 DEF Commanded, Environment

\* Every step keeps what is known.
LEMMA NextKnown == TypeOK /\ Known /\ [Next]_vars => Known'
<1>1. ASSUME Known, UNCHANGED vars PROVE Known'
  BY ZenonT(30), <1>1
     DEF Known, OneActive, Active, Named, Unshared, Carrying, ActiveIsKnown,
         InHand, vars
<1>. QED BY <1>1, StartingKnown, StoppingKnown, OtherKnown DEF Next

\* At the start there is no session.
LEMMA InitKnown == Init => Known
<1> SUFFICES ASSUME Init PROVE Known OBVIOUS
<1>1. \A a \in Actors : actors[a].pc = "idle" /\ actors[a].session = None
  BY DEF Init, Idle
<1>2. Active = {} /\ sessionId = None
  BY DEF Init, Active
<1>. QED
  BY <1>1, <1>2 DEF Known, OneActive, Named, Unshared, Carrying, ActiveIsKnown

\* The client knows the active session unless a failure took its id
\* (commands.rs:611-635).
THEOREM SessionKnown == Spec => []ActiveIsKnown
<1>1. Known => ActiveIsKnown
  BY DEF Known
<1>. QED BY <1>1, InitKnown, NextKnown, TypeCorrect, PTL DEF Spec
=============================================================================
