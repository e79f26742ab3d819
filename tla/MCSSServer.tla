----------------------------- MODULE MCSSServer -----------------------------
(* Instances of SSServer for TLC. *)
EXTENDS SSServer, TLC

CONSTANTS s1, p1, w1, c1, d1, d2, d3, q1, q2

OneServer == s1 :> p1
=============================================================================
