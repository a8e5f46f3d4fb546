---------------------------- MODULE ActiveBoost ----------------------------
(***************************************************************************)
(* The boost a client runs (client/src-tauri/src/commands.rs, ActiveBoost):*)
(* the transparent tunnel on Windows for a game with a profile, and else,  *)
(* or when that one does not start, the localhost proxy.  The two share no *)
(* state, and only the chosen one takes steps.                             *)
(***************************************************************************)
EXTENDS UdpProxy, WinDivert

VARIABLE mode  \* which of the two was started: "proxy" or "windivert"

boostVars == <<mode, vars, divertVars>>

BoostInit ==
  /\ mode \in {"proxy", "windivert"}
  /\ Init /\ DivertInit
  \* What only the other tunnel looks at keeps one value.
  /\ mode = "proxy" => ~multipath
  /\ mode = "windivert" => target = {}

\* A step of the proxy, or one of the transparent tunnel.
Either(A, B) ==
  \/ mode = "proxy" /\ A /\ UNCHANGED <<mode, divertVars>>
  \/ mode = "windivert" /\ B /\ UNCHANGED <<mode, vars>>

BoostNext == Either(Next, DivertNext)

BoostSpec == BoostInit /\ [][BoostNext]_boostVars

\* Fairness as in UdpProxy; the capture and receive threads are the system's.
Scheduling ==
  /\ WF_boostVars(Either(GameTask, CaptureThread))
  /\ WF_boostVars(Either(KeepaliveTask, BeatTask))
  /\ \A p \in Paths : WF_boostVars(Either(PathTask(p), ReceiveThread(p)))

FairBoost == BoostSpec /\ Scheduling
-----------------------------------------------------------------------------
(* What holds whichever tunnel was started.                                *)

\* The shape of the state.
BoostTypeOK == TypeOK /\ DivertTypeOK

\* stop() clears a flag that nobody waits for (udp_proxy.rs:375,
\* windivert.rs:517): a task or a thread handles the packet it has, or the next
\* one it waits for, and no other.
OneMoreAfterStop == OneMoreAtMost /\ OneMorePerThread

\* A stopped boost winds up: all tasks of the proxy end, and so do the threads
\* of the transparent tunnel that have a timeout; its capture thread ends if a
\* packet comes.
StopEnds == TasksEnd /\ ThreadsEnd
=============================================================================
