-------------------------- MODULE PortTableProofs --------------------------
(* PortTable keeps its promise for any ports and passwords. *)
EXTENDS PortTable, TLAPS

PTInv == PTTypeOK /\ WriteAhead

LEMMA PTStep == PTInv /\ [Next]_ptVars => PTInv'
<1> SUFFICES ASSUME PTInv, [Next]_ptVars PROVE PTInv'
  OBVIOUS
<1> USE NoneIsNoPassword DEF PTInv, PTTypeOK, WriteAhead
<1>1. ASSUME NEW p \in Port, NEW w \in Password, Attempt(p, w)
      PROVE  PTInv'
  BY <1>1 DEF Attempt
<1>2. ASSUME NEW p \in Port, Admit(p) \/ Release(p) \/ Forget(p)
      PROVE  PTInv'
  BY <1>2 DEF Admit, Release, Forget
<1>3. CASE Lose
  BY <1>3 DEF Lose
<1>4. CASE UNCHANGED ptVars
  BY <1>4 DEF ptVars
<1> QED
  BY <1>1, <1>2, <1>3, <1>4 DEF Next

\* A port is served only with the password that a restart would find.
THEOREM ServedIsSaved == Spec => []WriteAhead
<1>1. Init => PTInv
  BY DEF Init, PTInv, PTTypeOK, WriteAhead
<1>2. PTInv => WriteAhead
  BY DEF PTInv
<1> QED
  BY <1>1, <1>2, PTStep, PTL DEF Spec
=============================================================================
