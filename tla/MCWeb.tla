------------------------------- MODULE MCWeb -------------------------------
(* Instances of Web for TLC. *)
EXTENDS Web

CONSTANTS low, high, e1, h1, h2, l1, s1, s2

LowHigh == [flow |-> low, time |-> high]
HighLow == [flow |-> high, time |-> low]
=============================================================================
