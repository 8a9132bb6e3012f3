---------------------------- MODULE MCLinkedPool ----------------------------
(* TLC instance of LinkedPool: four usable blocks, up to two holders.      *)
EXTENDS LinkedPool

CONSTANTS b1, b2, b3, b4

MCOrder == <<b1, b2, b3, b4>>

=============================================================================
