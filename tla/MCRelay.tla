------------------------------ MODULE MCRelay -------------------------------
(* Relay for TLC: the requests the runs use and their symmetric sets.      *)
EXTENDS Relay, TLC

\* A game with literal addresses: each request allows one of them, and that
\* one is the default target.
OwnTarget == {[ips |-> {g}, target |-> g] : g \in GameIps}

\* The same without a default, as for the seeded games, whose address blocks
\* and port ranges do not parse.
AnyTarget == OwnTarget \cup {[ips |-> {g}, target |-> None] : g \in GameIps}

\* Everything but the gauge and the lengths read for it: no guard looks at
\* them, so runs that do not ask about the gauge need not tell them apart.
NoGauge ==
  <<sessions, portToken, [w \in Procs |-> [proc[w] EXCEPT !.len = 0]], todo,
    lsn, fwd, bound, heard>>

Symmetry ==
  Permutations(Tokens) \cup Permutations(Ports) \cup Permutations(Clients)
    \cup Permutations(Workers) \cup Permutations(Listeners)
=============================================================================
