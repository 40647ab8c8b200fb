-------------------------- MODULE MCAccountGuards --------------------------
(* Instances of AccountGuards for TLC.                                      *)
EXTENDS AccountGuards

CONSTANTS h1, h2, h3, a1, a2
=============================================================================
