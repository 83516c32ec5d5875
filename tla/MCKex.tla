------------------------------- MODULE MCKex -------------------------------
(* Kex for TLC: a table of two signature algorithms.                       *)
EXTENDS Kex

TwoAlgs == <<"ed25519", "ecdsa">>
=============================================================================
