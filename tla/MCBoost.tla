------------------------------ MODULE MCBoost ------------------------------
(* Boost for TLC.                                                          *)
EXTENDS Boost, TLC

=============================================================================
