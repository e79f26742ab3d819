----------------------------- MODULE PortTable -----------------------------
(***************************************************************************)
(* What a slave promises its master: a table of the ports it serves and    *)
(* their passwords, and a disk from which a restart rebuilds the table.    *)
(* A password is on disk before its port is served and stays there until   *)
(* the port is freed, so a restart never serves a port with a password     *)
(* older than the last one it was allocated with.                          *)
(***************************************************************************)
CONSTANTS Port, Password, None

ASSUME NoneIsNoPassword == None \notin Password

VARIABLES
    table,  \* [Port -> Password or None]: what is served
    disk    \* [Port -> Password or None]: what a restart would find

ptVars == <<table, disk>>

PTTypeOK ==
    /\ table \in [Port -> Password \cup {None}]
    /\ disk \in [Port -> Password \cup {None}]

Init ==
    /\ table = [p \in Port |-> None]
    /\ disk = [p \in Port |-> None]

\* Somebody begins to start a server on a port that is not served.
Attempt(p, w) ==
    /\ table[p] = None
    /\ disk' = [disk EXCEPT ![p] = w]
    /\ UNCHANGED table

\* The server on disk is served: allocated, or restored.
Admit(p) ==
    /\ table[p] = None /\ disk[p] # None
    /\ table' = [table EXCEPT ![p] = disk[p]]
    /\ UNCHANGED disk

Release(p) ==
    /\ table[p] # None
    /\ table' = [table EXCEPT ![p] = None]
    /\ UNCHANGED disk

\* The files of a port that is not served are removed or spoiled.
Forget(p) ==
    /\ table[p] = None
    /\ disk' = [disk EXCEPT ![p] = None]
    /\ UNCHANGED table

Lose ==
    /\ table' = [p \in Port |-> None]
    /\ UNCHANGED disk

Next ==
    \/ \E p \in Port, w \in Password : Attempt(p, w)
    \/ \E p \in Port : Admit(p) \/ Release(p) \/ Forget(p)
    \/ Lose

Spec == Init /\ [][Next]_ptVars

\* What is served is on disk, with the same password, so that a slave that
\* restarts can never serve an older one (Add saves before it admits, Remove
\* forgets before it deletes).
WriteAhead == \A p \in Port : table[p] # None => disk[p] = table[p]
=============================================================================
