----------------------------- MODULE MCTunnels -----------------------------
(* ActiveBoost and the functions of Builders for TLC: a behaviour is one of *)
(* a tunnel, or one input of a function.  The two share nothing.           *)
EXTENDS ActiveBoost, Builders

\* No, one or two entries, with a prefix too long among them, and as many ranges,
\* with one the wrong way round among them.
UpToTwo(S) == {<<>>} \cup {<<x>> : x \in S} \cup {<<x, y>> : x, y \in S}

MCCidrs == UpToTwo([ip : Addresses, prefix : 0 .. Width + 1])
MCRanges == UpToTwo(FilterPorts \X FilterPorts)

MCHosts == {<<0, 0, 0, 0>>, <<10, 0, 255, 1>>, <<255, 255, 255, 255>>}

\* With the address 0.0.0.0 twice and no payload, 27015 and 38487 add up to the
\* sum whose complement is zero.
MCPorts == {27015, 38487, 65535}

MCPayloads ==
  LET of(n) == [1 .. n -> {0, 255}] IN
  UNION {of(n) : n \in 0 .. 3} \cup {<<1, 2, 3, 4, 5>>, <<255, 255, 0, 0, 0, 0, 0, 0, 9>>}

MCNumbers == {0, 1, 65536, 2147483647}

MCInit ==
  \/ BoostInit /\ sample = NoSample
  \/ /\ BuildersInit
     /\ mode = "none" /\ Init /\ DivertInit /\ ~multipath /\ target = {}

MCVars == <<boostVars, sample>>

MCSpec == MCInit /\ [][BoostNext /\ UNCHANGED sample]_MCVars /\ Scheduling
=============================================================================
