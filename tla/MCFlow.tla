------------------------------- MODULE MCFlow -------------------------------
(* Instances of Flow for TLC. *)
EXTENDS Flow, TLC

CONSTANTS u1, u2, p1, p2

OneOwner == p1 :> u1
=============================================================================
