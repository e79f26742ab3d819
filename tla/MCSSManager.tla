---------------------------- MODULE MCSSManager ----------------------------
(* Instances of SSManager for TLC. *)
EXTENDS SSManager, TLC

CONSTANTS sa1, sa2, sa3, sb1, sb2, p1, p2, w1, w2, main, h1, h2,
          d1, d2, d3, q1, q2, q3, q4

\* The pool of Server objects of each instance, by port.
OnePort == sa1 :> p1 @@ sa2 :> p1
OnePort3 == OnePort @@ sa3 :> p1
TwoPorts == sa1 :> p1 @@ sa2 :> p1 @@ sb1 :> p2 @@ sb2 :> p2

Symmetry == Permutations(Handler) \cup Permutations(Daemon) \cup Permutations(Pid)
=============================================================================
