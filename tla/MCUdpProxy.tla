----------------------------- MODULE MCUdpProxy -----------------------------
(* UdpProxy for TLC.                                                       *)
EXTENDS UdpProxy, TLC

Symmetry == Permutations(Asks)
=============================================================================
