---------------------------- MODULE MCAllocation ----------------------------
(* Instances of Allocation for TLC. *)
EXTENDS Allocation

CONSTANTS w1, w2, w3, w4, w5, w6, g1, g2
=============================================================================
