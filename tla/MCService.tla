----------------------------- MODULE MCService ------------------------------
(* SessionService for TLC.                                                 *)
EXTENDS SessionService, TLC

CONSTANTS n1, n2, n3

\* The seeded nodes all lie in different locations (270500333b44_003_seed_nodes.py).
Apart == [n \in Nodes |-> n]
TwoPlaces == [n \in Nodes |-> IF n = n3 THEN "SE" ELSE "DE"]

Symmetry == Permutations(Users) \cup Permutations(Sessions)
              \cup Permutations(Handlers)
=============================================================================
