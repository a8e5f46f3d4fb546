------------------------------- MODULE Paths -------------------------------
(***************************************************************************)
(* The paths of a session, one relay each, and the kinds of datagrams on   *)
(* them (client/src-tauri/src/protocol.rs).                                *)
(***************************************************************************)
EXTENDS Naturals, FiniteSets

CONSTANTS
  Paths,    \* {Primary}, or {Primary, backup} with multipath
  Primary,
  None

ASSUME PathsAssumption ==
  /\ Primary \in Paths
  /\ IsFiniteSet(Paths) /\ Cardinality(Paths) \in 1 .. 2
  /\ None \notin Paths
  /\ {"game", "capture", "keepalive"} \cap Paths = {}

Kinds == {"control", "data", "keepalive"}

\* Counted to two: the properties tell no more apart.
Incr(n) == IF n < 2 THEN n + 1 ELSE n
=============================================================================
