---------------------------- MODULE FlowProofs ----------------------------
(***************************************************************************)
(* Proofs about Flow for any users, ports, owners and regimes, and any     *)
(* bounds.                                                                 *)
(***************************************************************************)
EXTENDS Flow, FiniteSetTheorems, TLAPS

LEMMA Bounds == MaxRun \in Nat /\ MaxEvents \in Nat
BY FlowBounds

LEMMA NoneIs == None \notin User /\ None \notin Nat /\ None \notin Run /\ None \notin FlowUnit
BY NoneIsNothing DEF FlowUnit, Run

-----------------------------------------------------------------------------
(* Types *)

SlaveTypeOK ==
    /\ run \in [Port -> Run \cup {None}] /\ alive \in SUBSET Port
    /\ \A p \in alive : run[p] # None
    /\ stat \in [Port -> Nat] /\ inbox \in Seq(Packet)
    /\ born \in 0 .. MaxRun
    /\ sent \in [Run -> Nat] /\ userOf \in [Run -> User \cup {None}]
MasterTypeOK ==
    /\ rows \in [Port -> User \cup {None}]
    /\ record \in [User -> [Run -> Nat \cup {None}]]
    /\ disabled \subseteq User /\ expired \subseteq User
    /\ monitor \in {"snapshot", "stats", "repair", "record", "limit"}
    /\ portMap \in [Port -> User \cup {None}]
    /\ reply \in [Port -> FlowUnit \cup {None}]
    /\ pending \subseteq Port /\ freeing \subseteq Port
    /\ happened \in 0 .. MaxEvents
TypeInv == SlaveTypeOK /\ MasterTypeOK

LEMMA TypeIs == TypeInv <=> FlowTypeOK
BY DEF TypeInv, SlaveTypeOK, MasterTypeOK, FlowTypeOK, ListServers

LEMMA TypeInit == Init => TypeInv
<1> SUFFICES ASSUME Init PROVE TypeInv
  OBVIOUS
<1>1. SlaveTypeOK BY Bounds DEF Init, SlaveTypeOK, Run
<1>2. MasterTypeOK BY Bounds, OwnerType DEF Init, MasterTypeOK, FlowUnit
<1> QED BY <1>1, <1>2 DEF TypeInv

LEMMA StartType ==
    ASSUME SlaveTypeOK, NEW p \in Port, NEW u \in User \cup {None}, StartRun(p, u),
           stat' \in [Port -> Nat], UNCHANGED <<inbox, sent>>
    PROVE  SlaveTypeOK'
<1>1. born + 1 \in Run /\ born' \in 0 .. MaxRun
  BY Bounds DEF StartRun, StartTime, SlaveTypeOK, Run
<1>2. born + 1 # None BY <1>1, NoneIs
<1>3. /\ run' = [run EXCEPT ![p] = born + 1] /\ userOf' = [userOf EXCEPT ![born + 1] = u]
      /\ alive' = alive \cup {p}
  BY DEF StartRun, StartTime
<1>4. \A q \in alive' : run'[q] # None BY <1>2, <1>3 DEF SlaveTypeOK
<1> QED BY <1>1, <1>3, <1>4 DEF SlaveTypeOK

\* A start that fails leaves a new start time.
LEMMA TimeType ==
    ASSUME SlaveTypeOK, NEW p \in Port, NEW u \in User \cup {None}, p \notin alive,
           StartTime(p, u), UNCHANGED <<alive, stat, inbox, sent>>
    PROVE  SlaveTypeOK'
<1>1. born + 1 \in Run /\ born' \in 0 .. MaxRun
  BY Bounds DEF StartTime, SlaveTypeOK, Run
<1>2. run' = [run EXCEPT ![p] = born + 1] /\ userOf' = [userOf EXCEPT ![born + 1] = u]
  BY DEF StartTime
<1> QED BY <1>1, <1>2 DEF SlaveTypeOK

LEMMA AddType ==
    ASSUME SlaveTypeOK, NEW p \in Port, NEW u \in User \cup {None}, Add(p, u)
    PROVE  SlaveTypeOK'
<1>1. CASE UNCHANGED slave BY <1>1 DEF SlaveTypeOK, slave
<1>2. CASE StartRun(p, u) /\ stat' = [stat EXCEPT ![p] = 0] /\ UNCHANGED <<inbox, sent>>
  BY <1>2, StartType DEF SlaveTypeOK
<1> QED BY <1>1, <1>2 DEF Add

LEMMA RemoveType ==
    ASSUME SlaveTypeOK, NEW p \in Port, Remove(p)
    PROVE  SlaveTypeOK'
BY DEF SlaveTypeOK, Remove

\* A restart numbers the runs that it starts.
LEMMA RestartType ==
    ASSUME SlaveTypeOK, SlaveRestart
    PROVE  SlaveTypeOK'
<1> DEFINE dead == ListServers \ alive
           n == Cardinality(dead)
           new == born + 1 .. born + n
<1>1. n \in Nat
  <2>1. dead \in SUBSET Port BY DEF ListServers
  <2> QED BY <2>1, PortsAreFinite, FS_Subset, FS_CardinalityType
<1>2. /\ born + n <= MaxRun /\ born' = born + n /\ alive' = ListServers
      /\ stat' = [p \in Port |-> 0] /\ inbox' = <<>> /\ sent' = sent
  BY DEF SlaveRestart
<1>3. PICK start \in Bijection(dead, new) :
         /\ run' = [p \in Port |-> IF p \in dead THEN start[p] ELSE run[p]]
         /\ userOf' = [k \in Run |-> IF k \in new
                          THEN userOf[run[Inverse(start, dead, new)[k]]] ELSE userOf[k]]
  BY DEF SlaveRestart
<1>4. start \in [dead -> new] /\ \A k \in new : \E p \in dead : start[p] = k
  BY DEF Bijection, Injection, Surjection
<1>5. \A k \in new : Inverse(start, dead, new)[k] \in dead
  BY <1>4 DEF Inverse
<1> new \subseteq Run
  BY <1>1, <1>2, Bounds DEF SlaveTypeOK, Run
<1>6. \A p \in dead : p \in Port /\ run[p] \in Run
  BY DEF ListServers, SlaveTypeOK
<1> HIDE DEF dead, new, n
<1>7. run' \in [Port -> Run \cup {None}]
  BY <1>3, <1>4 DEF SlaveTypeOK
<1>8. userOf' \in [Run -> User \cup {None}]
  BY <1>3, <1>5, <1>6 DEF SlaveTypeOK
<1>9. born' \in 0 .. MaxRun
  BY <1>1, <1>2, Bounds DEF SlaveTypeOK
<1>10. ListServers \in SUBSET Port /\ \A p \in ListServers : run'[p] # None
  <2>1. \A p \in ListServers : p \in Port /\ run[p] # None BY DEF ListServers
  <2>2. \A p \in dead : start[p] # None BY <1>4, NoneIs
  <2> QED BY <1>3, <2>1, <2>2
<1> QED BY <1>2, <1>7, <1>8, <1>9, <1>10 DEF SlaveTypeOK

LEMMA TypeStep == TypeInv /\ [Next]_<<vars, events>> => TypeInv'
<1> SUFFICES ASSUME TypeInv, [Next]_<<vars, events>> PROVE TypeInv'
  OBVIOUS
<1> USE DEF TypeInv
<1>a. ASSUME UNCHANGED slave PROVE SlaveTypeOK'
  BY <1>a DEF SlaveTypeOK, slave
<1>1. ASSUME NEW p \in Port, Transfer(p) PROVE TypeInv'
  BY <1>1 DEF Transfer, SlaveTypeOK, MasterTypeOK, db, updating
<1>2. ASSUME NEW p \in Port, Report(p) PROVE TypeInv'
  <2>1. [port |-> p, traffic |-> sent[run[p]]] \in Packet
    BY <1>2 DEF Report, Packet, SlaveTypeOK
  <2> QED BY <1>2, <2>1 DEF Report, SlaveTypeOK, MasterTypeOK, db, updating
<1>3. CASE HandleStat
  <2>1. Head(inbox) \in Packet /\ Tail(inbox) \in Seq(Packet)
    BY <1>3 DEF HandleStat, SlaveTypeOK
  <2> QED
    BY <1>3, <2>1 DEF HandleStat, UpdateStat, Packet, SlaveTypeOK, MasterTypeOK, db, updating
<1>4. ASSUME NEW p \in Port, Die(p) PROVE TypeInv'
  BY <1>4, Bounds DEF Die, Happens, SlaveTypeOK, MasterTypeOK, db, updating
<1>5. ASSUME NEW p \in Port, Revive(p) PROVE TypeInv'
  <2>1. userOf[run[p]] \in User \cup {None}
    BY <1>5 DEF Revive, SlaveTypeOK
  <2>2. StartRun(p, userOf[run[p]]) /\ stat' \in [Port -> Nat] /\ UNCHANGED <<inbox, sent>>
    BY <1>5 DEF Revive, SlaveTypeOK
  <2>3. SlaveTypeOK' BY <2>1, <2>2, StartType
  <2> QED BY <1>5, <2>3 DEF Revive, MasterTypeOK, db, updating
<1>21. ASSUME NEW p \in Port, ReviveFails(p) PROVE TypeInv'
  <2>1. userOf[run[p]] \in User \cup {None} /\ p \notin alive
    BY <1>21 DEF ReviveFails, SlaveTypeOK
  <2>2. /\ StartTime(p, userOf[run[p]]) /\ UNCHANGED <<alive, stat, inbox, sent>>
        /\ happened' \in 0 .. MaxEvents /\ UNCHANGED <<db, updating, freeing>>
    BY <1>21, Bounds DEF ReviveFails, Happens, MasterTypeOK
  <2>3. SlaveTypeOK' BY <2>1, <2>2, TimeType
  <2> QED BY <2>2, <2>3 DEF MasterTypeOK, db, updating
<1>6. CASE SlaveRestart
  <2>1. happened' \in 0 .. MaxEvents /\ UNCHANGED <<db, updating, freeing>>
    BY <1>6, Bounds DEF SlaveRestart, Happens, MasterTypeOK
  <2> QED BY <1>6, <2>1, RestartType DEF MasterTypeOK, db, updating
<1>7. ASSUME NEW p \in Port, Delete(p) PROVE TypeInv'
  BY <1>7, <1>a, Bounds DEF Delete, Happens, MasterTypeOK, updating
<1>8. ASSUME NEW p \in Port, FreeOne(p) PROVE TypeInv'
  <2>1. SlaveTypeOK' BY <1>8, <1>a, RemoveType DEF FreeOne
  <2>2. MasterTypeOK' BY <1>8, Bounds DEF FreeOne, Happens, MasterTypeOK, db, updating
  <2> QED BY <2>1, <2>2
<1>9. ASSUME NEW p \in Port, NEW u \in User, Insert(p, u) PROVE TypeInv'
  BY <1>9, <1>a, Bounds DEF Insert, Happens, MasterTypeOK, updating
<1>10. ASSUME NEW p \in Port, AllocateServer(p) PROVE TypeInv'
  <2>1. SlaveTypeOK' BY <1>10, AddType DEF AllocateServer, MasterTypeOK
  <2>2. MasterTypeOK' BY <1>10 DEF AllocateServer, MasterTypeOK, db, updating
  <2> QED BY <2>1, <2>2
<1>11. ASSUME NEW u \in User, Expire(u) PROVE TypeInv'
  BY <1>11, <1>a, Bounds DEF Expire, Happens, MasterTypeOK, updating
<1>12. CASE Snapshot BY <1>12, <1>a DEF Snapshot, MasterTypeOK, db
<1>13. CASE GetStats
  <2>1. \A p \in ListServers : [run |-> run[p], traffic |-> stat[p]] \in FlowUnit
    BY DEF ListServers, SlaveTypeOK, FlowUnit
  <2> QED BY <1>13, <1>a, <2>1, Bounds DEF GetStats, Nothing, Happens, MasterTypeOK, db
<1>14. ASSUME NEW p \in Port, Repair(p) PROVE TypeInv'
  <2>1. portMap[p] \in User \cup {None} BY DEF MasterTypeOK
  <2>2. SlaveTypeOK' BY <1>14, <1>a, <2>1, AddType, RemoveType DEF Repair
  <2>3. MasterTypeOK' BY <1>14 DEF Repair, MasterTypeOK, db
  <2> QED BY <2>2, <2>3
<1>15. ASSUME NEW p \in Port, RecordFlow(p) PROVE TypeInv'
  <2>1. reply[p] \in FlowUnit BY <1>15 DEF RecordFlow, MasterTypeOK
  <2>2. record' \in [User -> [Run -> Nat \cup {None}]]
    BY <1>15, <2>1 DEF RecordFlow, Update, FlowUnit, MasterTypeOK
  <2> QED BY <1>15, <1>a, <2>2 DEF RecordFlow, MasterTypeOK
<1>20. ASSUME NEW p \in Port, CreateRecord(p) PROVE TypeInv'
  BY <1>20, <1>a DEF CreateRecord, MasterTypeOK
<1>16. CASE RecordDone BY <1>16, <1>a DEF RecordDone, Nothing, MasterTypeOK, db
<1>17. CASE CheckUserLimit BY <1>17, <1>a DEF CheckUserLimit, MasterTypeOK
<1>18. CASE MasterCrash
  BY <1>18, <1>a, Bounds DEF MasterCrash, Nothing, Happens, MasterTypeOK, db
<1>19. CASE UNCHANGED <<vars, events>>
  BY <1>19, <1>a DEF vars, MasterTypeOK, db, updating
<1> QED
  BY <1>1, <1>2, <1>3, <1>4, <1>5, <1>6, <1>7, <1>8, <1>9, <1>10, <1>11, <1>12, <1>13, <1>14,
     <1>15, <1>16, <1>17, <1>18, <1>19, <1>20, <1>21 DEF Next, Serving, Working, Monitoring

\* Every variable of Flow has its type, and a process that lives belongs to a
\* server.
THEOREM FlowTypeCorrect == Spec => []FlowTypeOK
BY TypeIs, TypeInit, TypeStep, PTL DEF Spec

-----------------------------------------------------------------------------
(* Records *)

\* The port's user is enabled.
Kept(p) == rows[p] \notin disabled \cup {None}

\* The server of an enabled user has the user's password, and neither what it
\* has reported nor what it will be taken for exceeds what it transferred;
\* before it starts there are no packets for the port.
SteadyRun(p) ==
    /\ run[p] = None => \A i \in 1 .. Len(inbox) : inbox[i].port # p
    /\ run[p] # None =>
          /\ userOf[run[p]] = rows[p]
          /\ stat[p] <= sent[run[p]]
          /\ \A i \in 1 .. Len(inbox) : inbox[i].port = p => inbox[i].traffic <= sent[run[p]]

\* Nobody frees the port of an enabled user, updateStats knows the user, and
\* GetStats answers what one of the user's runs transferred.
SteadyReply(p) ==
    /\ p \notin freeing
    /\ monitor \in {"stats", "repair", "record"} => portMap[p] = rows[p]
    /\ reply[p] # None => /\ userOf[reply[p].run] = rows[p]
                          /\ reply[p].traffic <= sent[reply[p].run]

SlaveInv ==
    /\ alive = ListServers
    /\ \A k \in Run : k > born => userOf[k] = None
    /\ \A p \in Port : Kept(p) => SteadyRun(p)
MasterInv ==
    /\ \A p \in Port : portMap[p] \in {rows[p], None} \cup disabled
    /\ \A p \in Port : Kept(p) => SteadyReply(p)
    /\ \A u \in User \ disabled, k \in Run : record[u][k] # None =>
          userOf[k] = u /\ record[u][k] <= sent[k]

\* The steps that change the slave only add to what runs there were and what
\* they transferred.
Grows ==
    /\ \A k \in Run : userOf[k] # None => userOf'[k] = userOf[k]
    /\ \A k \in Run : sent[k] <= sent'[k]
GoesOn == SlaveInv' /\ Grows

LEMMA SlaveWaits ==
    ASSUME SlaveTypeOK, SlaveInv, UNCHANGED slave,
           \A p \in Port : Kept(p)' => Kept(p) /\ rows'[p] = rows[p]
    PROVE  GoesOn
BY DEF SlaveTypeOK, SlaveInv, SteadyRun, GoesOn, Grows, ListServers, slave

LEMMA TransferGoesOn ==
    ASSUME TypeInv, SlaveInv, NEW p \in Port, Transfer(p)
    PROVE  GoesOn
<1> USE DEF TypeInv, SlaveTypeOK
<1>1. /\ UNCHANGED <<run, alive, stat, inbox, born, userOf, rows, disabled>>
      /\ p \in Port /\ run[p] \in Run /\ sent' = [sent EXCEPT ![run[p]] = @ + 1]
  BY DEF Transfer, db
<1>2. Grows BY <1>1 DEF Grows
<1>3. ASSUME NEW q \in Port, Kept(q)' PROVE SteadyRun(q)'
  <2>1. SteadyRun(q) BY <1>1, <1>3 DEF SlaveInv, Kept
  <2>2. \A i \in 1 .. Len(inbox) : inbox[i] \in Packet OBVIOUS
  <2>3. run[q] # None => run[q] \in Run /\ sent[run[q]] <= sent'[run[q]] BY <1>2 DEF Grows
  <2> QED BY <1>1, <2>1, <2>2, <2>3 DEF SteadyRun, Packet
<1> QED BY <1>1, <1>2, <1>3 DEF GoesOn, SlaveInv, ListServers

LEMMA ReportGoesOn ==
    ASSUME TypeInv, SlaveInv, NEW p \in Port, Report(p)
    PROVE  GoesOn
<1> USE DEF TypeInv, SlaveTypeOK
<1> DEFINE packet == [port |-> p, traffic |-> sent[run[p]]]
<1>1. /\ UNCHANGED <<run, alive, stat, sent, born, userOf, rows, disabled>>
      /\ run[p] \in Run /\ inbox' = Append(inbox, packet)
  BY DEF Report, db
<1>2. Grows BY <1>1 DEF Grows
<1>3. packet \in Packet BY <1>1 DEF Packet
<1>4. ASSUME NEW q \in Port, Kept(q)' PROVE SteadyRun(q)'
  <2>1. SteadyRun(q) BY <1>1, <1>4 DEF SlaveInv, Kept
  <2>2. \A i \in 1 .. Len(inbox') :
           \/ i \in 1 .. Len(inbox) /\ inbox'[i] = inbox[i]
           \/ inbox'[i] = packet
    BY <1>1, <1>3
  <2>3. packet.port = p /\ packet.traffic = sent[run[p]] OBVIOUS
  <2>4. run[p] # None BY <1>1, NoneIs
  <2> HIDE DEF packet
  <2>5. CASE q = p
    BY <1>1, <2>1, <2>2, <2>3, <2>4, <2>5 DEF SteadyRun
  <2>6. CASE q # p
    <3>1. \A i \in 1 .. Len(inbox') :
             inbox'[i].port = q => i \in 1 .. Len(inbox) /\ inbox'[i] = inbox[i]
      BY <2>2, <2>3, <2>6
    <3> QED BY <1>1, <2>1, <3>1 DEF SteadyRun
  <2> QED BY <2>5, <2>6
<1> QED BY <1>1, <1>2, <1>4 DEF GoesOn, SlaveInv, ListServers

LEMMA HandleStatGoesOn ==
    ASSUME TypeInv, SlaveInv, HandleStat
    PROVE  GoesOn
<1> USE DEF TypeInv, SlaveTypeOK
<1> DEFINE head == Head(inbox)
<1>1. /\ UNCHANGED <<run, alive, sent, born, userOf, rows, disabled>>
      /\ inbox # <<>> /\ inbox' = Tail(inbox)
  BY DEF HandleStat, db
<1>2. head = inbox[1] /\ head \in Packet /\ 1 \in 1 .. Len(inbox)
  BY <1>1
<1>3. \A i \in 1 .. Len(inbox') : i + 1 \in 1 .. Len(inbox) /\ inbox'[i] = inbox[i + 1]
  BY <1>1
<1>4. stat' = stat \/ stat' = [stat EXCEPT ![head.port] = head.traffic]
  BY DEF HandleStat, UpdateStat
<1>5. Grows BY <1>1 DEF Grows
<1>6. ASSUME NEW q \in Port, Kept(q)' PROVE SteadyRun(q)'
  <2>1. SteadyRun(q) BY <1>1, <1>6 DEF SlaveInv, Kept
  <2>2. stat'[q] = stat[q] \/ (head.port = q /\ stat'[q] = head.traffic)
    BY <1>2, <1>4 DEF Packet
  <2> HIDE DEF head
  <2> QED BY <1>1, <1>2, <1>3, <2>1, <2>2 DEF SteadyRun
<1> QED BY <1>1, <1>5, <1>6 DEF GoesOn, SlaveInv, ListServers

\* Without the death of a process there is nothing to start.
LEMMA RestartGoesOn ==
    ASSUME TypeInv, SlaveInv, SlaveRestart
    PROVE  GoesOn
<1> USE DEF TypeInv, SlaveTypeOK
<1> DEFINE dead == ListServers \ alive
           new == born + 1 .. born + Cardinality(dead)
<1>1. dead = {} BY DEF SlaveInv
<1>2. Cardinality(dead) = 0 BY <1>1, FS_EmptySet
<1>3. new = {} BY <1>2
<1>4. PICK start \in Bijection(dead, new) :
         /\ run' = [p \in Port |-> IF p \in dead THEN start[p] ELSE run[p]]
         /\ userOf' = [k \in Run |-> IF k \in new
                          THEN userOf[run[Inverse(start, dead, new)[k]]] ELSE userOf[k]]
  BY DEF SlaveRestart
<1>5. born' = born + Cardinality(dead) BY DEF SlaveRestart
<1>6. /\ alive' = ListServers /\ inbox' = <<>> /\ stat' = [p \in Port |-> 0]
      /\ UNCHANGED <<sent, rows, disabled>>
  BY DEF SlaveRestart, db
<1> HIDE DEF dead, new
<1>7. run' = run /\ userOf' = userOf /\ born' = born
  BY <1>1, <1>2, <1>3, <1>4, <1>5
<1>8. Grows BY <1>6, <1>7 DEF Grows
<1>9. ASSUME NEW q \in Port, Kept(q)' PROVE SteadyRun(q)'
  <2>1. SteadyRun(q) BY <1>6, <1>9 DEF SlaveInv, Kept
  <2>2. 1 .. Len(inbox') = {} /\ stat'[q] = 0 BY <1>6
  <2>3. run[q] # None => sent[run[q]] \in Nat OBVIOUS
  <2> QED BY <1>6, <1>7, <2>1, <2>2, <2>3 DEF SteadyRun
<1> QED BY <1>6, <1>7, <1>8, <1>9 DEF GoesOn, SlaveInv, ListServers

\* A server is added with its enabled user's password.
LEMMA AddGoesOn ==
    ASSUME TypeInv, SlaveInv, NEW p \in Port, NEW u \in User \cup {None}, Add(p, u),
           Kept(p) => u = rows[p], UNCHANGED <<rows, disabled>>
    PROVE  GoesOn
<1> USE DEF TypeInv, SlaveTypeOK
<1>1. CASE UNCHANGED slave BY <1>1, SlaveWaits DEF Kept
<1>2. CASE /\ run[p] = None /\ StartRun(p, u)
           /\ stat' = [stat EXCEPT ![p] = 0] /\ UNCHANGED <<inbox, sent>>
  <2>1. /\ born + 1 \in Run /\ born' = born + 1 /\ run' = [run EXCEPT ![p] = born + 1]
        /\ userOf' = [userOf EXCEPT ![born + 1] = u] /\ alive' = alive \cup {p}
    BY <1>2, Bounds DEF StartRun, StartTime, Run
  <2>2. born + 1 # None BY <2>1, NoneIs
  <2>3. userOf[born + 1] = None BY <2>1 DEF SlaveInv
  <2>4. Grows BY <1>2, <2>1, <2>3 DEF Grows
  <2>5. alive' = ListServers'
    BY <2>1, <2>2 DEF SlaveInv, ListServers
  <2>6. \A k \in Run : k > born' => userOf'[k] = None
    BY <2>1 DEF SlaveInv, Run
  <2>7. ASSUME NEW q \in Port, Kept(q)' PROVE SteadyRun(q)'
    <3>1. SteadyRun(q) /\ Kept(q) /\ rows[q] # None BY <2>7 DEF SlaveInv, Kept
    <3>2. CASE q = p
      <4>1. run'[q] = born + 1 /\ userOf'[born + 1] = rows[q] /\ stat'[q] = 0
            /\ sent'[born + 1] \in Nat
        BY <1>2, <2>1, <3>1, <3>2
      <4>2. \A i \in 1 .. Len(inbox') : inbox'[i].port # q BY <1>2, <3>1, <3>2 DEF SteadyRun
      <4> QED BY <2>2, <4>1, <4>2 DEF SteadyRun
    <3>3. CASE q # p
      <4>1. run'[q] = run[q] /\ stat'[q] = stat[q] BY <1>2, <2>1, <3>3
      <4>2. run[q] # None => userOf'[run[q]] = userOf[run[q]]
        BY <2>4, <3>1 DEF SteadyRun, Grows
      <4> QED BY <1>2, <3>1, <4>1, <4>2 DEF SteadyRun
    <3> QED BY <3>2, <3>3
  <2> QED BY <2>4, <2>5, <2>6, <2>7 DEF GoesOn, SlaveInv
<1> QED BY <1>1, <1>2 DEF Add

LEMMA RemoveGoesOn ==
    ASSUME TypeInv, SlaveInv, NEW p \in Port, Remove(p), ~Kept(p), UNCHANGED <<rows, disabled>>
    PROVE  GoesOn
<1> USE DEF TypeInv, SlaveTypeOK
<1>1. /\ run' = [run EXCEPT ![p] = None] /\ alive' = alive \ {p}
      /\ stat' = [stat EXCEPT ![p] = 0] /\ UNCHANGED <<inbox, born, sent, userOf>>
  BY DEF Remove
<1>2. Grows BY <1>1 DEF Grows
<1>3. alive' = ListServers' BY <1>1 DEF SlaveInv, ListServers
<1>4. ASSUME NEW q \in Port, Kept(q)' PROVE SteadyRun(q)'
  <2>1. q # p /\ SteadyRun(q) BY <1>4 DEF SlaveInv, Kept
  <2>2. run'[q] = run[q] /\ stat'[q] = stat[q] BY <1>1, <2>1
  <2> QED BY <1>1, <2>1, <2>2 DEF SteadyRun
<1> QED BY <1>1, <1>2, <1>3, <1>4 DEF GoesOn, SlaveInv

LEMMA ReplyWaits ==
    ASSUME TypeInv, TypeInv', MasterInv, Grows, freeing' \subseteq freeing,
           UNCHANGED <<rows, record, disabled, portMap, reply>>,
           monitor' \in {"stats", "repair", "record"} => monitor \in {"stats", "repair", "record"}
    PROVE  MasterInv'
<1> USE DEF TypeInv, SlaveTypeOK, MasterTypeOK
<1>1. UNCHANGED <<rows, record, disabled, portMap, reply>> OBVIOUS
<1>2. ASSUME NEW p \in Port, Kept(p)' PROVE SteadyReply(p)'
  <2>1. SteadyReply(p) /\ rows[p] # None BY <1>1, <1>2 DEF MasterInv, Kept
  <2>2. reply[p] # None =>
           /\ userOf'[reply[p].run] = userOf[reply[p].run]
           /\ reply[p].traffic <= sent'[reply[p].run]
    <3> SUFFICES ASSUME reply[p] # None
                 PROVE /\ userOf'[reply[p].run] = userOf[reply[p].run]
                       /\ reply[p].traffic <= sent'[reply[p].run]
      OBVIOUS
    <3>1. reply[p].run \in Run /\ reply[p].traffic \in Nat BY DEF FlowUnit
    <3>2. userOf[reply[p].run] # None /\ reply[p].traffic <= sent[reply[p].run]
      BY <2>1 DEF SteadyReply
    <3>3. sent[reply[p].run] <= sent'[reply[p].run] BY <3>1 DEF Grows
    <3>4. sent[reply[p].run] \in Nat /\ sent'[reply[p].run] \in Nat BY <3>1
    <3>5. reply[p].traffic <= sent'[reply[p].run] BY <3>1, <3>2, <3>3, <3>4
    <3> QED BY <3>1, <3>2, <3>5 DEF Grows
  <2> QED BY <1>1, <2>1, <2>2 DEF SteadyReply
<1>3. ASSUME NEW u \in User \ disabled, NEW k \in Run, record[u][k] # None
      PROVE  userOf'[k] = u /\ record[u][k] <= sent'[k]
  <2>1. userOf[k] = u /\ record[u][k] <= sent[k] BY <1>3 DEF MasterInv
  <2>2. record[u][k] \in Nat /\ sent[k] \in Nat /\ sent'[k] \in Nat BY <1>3
  <2> QED BY <2>1, <2>2, NoneIs DEF Grows
<1> QED BY <1>1, <1>2, <1>3 DEF MasterInv

RecordInv == Without({"die", "reassign"}) => SlaveInv /\ MasterInv

LEMMA RecordInit == Init => RecordInv
<1> SUFFICES ASSUME Init PROVE SlaveInv /\ MasterInv
  BY DEF RecordInv
<1>1. SlaveInv BY DEF Init, SlaveInv, SteadyRun, ListServers
<1>2. MasterInv BY DEF Init, MasterInv, SteadyReply
<1> QED BY <1>1, <1>2

LEMMA RecordStep ==
    ASSUME TypeInv, TypeInv', RecordInv, [Next]_<<vars, events>>
    PROVE  RecordInv'
<1> events' = events BY DEF Next
<1> SUFFICES ASSUME "die" \notin events, "reassign" \notin events, SlaveInv, MasterInv
             PROVE  SlaveInv' /\ MasterInv'
  BY DEF RecordInv, Without
<1>a. ASSUME GoesOn, UNCHANGED <<db, updating>>, freeing' \subseteq freeing
      PROVE  SlaveInv' /\ MasterInv'
  BY <1>a, ReplyWaits DEF GoesOn, db, updating
<1>b. ASSUME UNCHANGED slave, \A p \in Port : Kept(p)' => Kept(p) /\ rows'[p] = rows[p]
      PROVE  SlaveInv' /\ UNCHANGED <<sent, userOf>>
  BY <1>b, SlaveWaits DEF TypeInv, GoesOn, slave
<1>1. ASSUME NEW p \in Port, Transfer(p) PROVE SlaveInv' /\ MasterInv'
  BY <1>1, <1>a, TransferGoesOn DEF Transfer
<1>2. ASSUME NEW p \in Port, Report(p) PROVE SlaveInv' /\ MasterInv'
  BY <1>2, <1>a, ReportGoesOn DEF Report
<1>3. CASE HandleStat BY <1>3, <1>a, HandleStatGoesOn DEF HandleStat
<1>4. ASSUME NEW p \in Port, Die(p) PROVE FALSE
  BY <1>4 DEF Die, Happens
<1>5. ASSUME NEW p \in Port, Revive(p) PROVE FALSE
  BY <1>5 DEF Revive, SlaveInv, ListServers
<1>21. ASSUME NEW p \in Port, ReviveFails(p) PROVE FALSE
  BY <1>21 DEF ReviveFails, SlaveInv, ListServers
<1>6. CASE SlaveRestart BY <1>6, <1>a, RestartGoesOn DEF SlaveRestart
<1> USE DEF TypeInv, MasterTypeOK
<1>7. ASSUME NEW p \in Port, Delete(p) PROVE SlaveInv' /\ MasterInv'
  <2>1. /\ rows[p] \in disabled /\ rows' = [rows EXCEPT ![p] = None]
        /\ freeing' = freeing \cup {p}
        /\ UNCHANGED <<slave, record, disabled, updating>>
    BY <1>7 DEF Delete, Happens
  <2>2. \A q \in Port : Kept(q)' => q # p /\ Kept(q) /\ rows'[q] = rows[q]
    BY <2>1 DEF Kept
  <2>3. SlaveInv' /\ UNCHANGED <<sent, userOf>> BY <1>b, <2>1, <2>2
  <2>4. \A q \in Port : portMap'[q] \in {rows'[q], None} \cup disabled'
    BY <2>1 DEF MasterInv, updating
  <2>5. \A q \in Port : Kept(q)' => SteadyReply(q)'
    BY <2>1, <2>2, <2>3 DEF MasterInv, SteadyReply, updating
  <2> QED BY <2>1, <2>3, <2>4, <2>5 DEF MasterInv
<1>8. ASSUME NEW p \in Port, FreeOne(p) PROVE SlaveInv' /\ MasterInv'
  <2>1. ~Kept(p) BY <1>8 DEF FreeOne, MasterInv, SteadyReply
  <2>2. UNCHANGED <<rows, disabled>> BY <1>8 DEF FreeOne, db
  <2>3. GoesOn BY <1>8, <2>1, <2>2, RemoveGoesOn, SlaveWaits DEF FreeOne, Kept
  <2> QED BY <1>8, <1>a, <2>3 DEF FreeOne
<1>9. ASSUME NEW p \in Port, NEW u \in User, Insert(p, u) PROVE FALSE
  BY <1>9 DEF Insert, Happens
<1>10. ASSUME NEW p \in Port, AllocateServer(p) PROVE SlaveInv' /\ MasterInv'
  <2>1. GoesOn BY <1>10, AddGoesOn DEF AllocateServer, db
  <2> QED BY <1>10, <1>a, <2>1 DEF AllocateServer
<1>11. ASSUME NEW u \in User, Expire(u) PROVE SlaveInv' /\ MasterInv'
  <2>1. UNCHANGED <<slave, rows, record, disabled, updating, freeing>> BY <1>11 DEF Expire
  <2>2. SlaveInv' /\ UNCHANGED <<sent, userOf>> BY <1>b, <2>1 DEF Kept
  <2> QED BY <2>1, <2>2 DEF MasterInv, Kept, SteadyReply, updating
<1>12. CASE Snapshot
  <2>1. SlaveInv' /\ UNCHANGED <<sent, userOf>> BY <1>12, <1>b DEF Snapshot, Kept, db
  <2> QED BY <1>12, <2>1 DEF Snapshot, MasterInv, Kept, SteadyReply, db
<1>13. CASE GetStats
  <2>1. SlaveInv' /\ UNCHANGED <<sent, userOf>> BY <1>13, <1>b DEF GetStats, Kept, db
  <2>2. ASSUME NEW p \in Port, Kept(p)' PROVE SteadyReply(p)'
    <3>1. Kept(p) /\ SteadyReply(p) /\ SteadyRun(p)
      BY <1>13, <2>2 DEF GetStats, Kept, db, MasterInv, SlaveInv
    <3>2. CASE reply' = [q \in Port |-> IF q \in ListServers
                            THEN [run |-> run[q], traffic |-> stat[q]] ELSE None]
      <4>1. \/ monitor = "stats" /\ portMap' = portMap
            \/ monitor' = "limit"
        BY <1>13 DEF GetStats
      <4>2. reply'[p] # None => /\ userOf[reply'[p].run] = rows[p]
                                /\ reply'[p].traffic <= sent[reply'[p].run]
        BY <3>1, <3>2 DEF SteadyRun, ListServers
      <4> QED BY <1>13, <2>1, <3>1, <4>1, <4>2 DEF GetStats, SteadyReply, db
    <3>3. CASE reply' = reply /\ monitor' = "limit"
      BY <1>13, <2>1, <3>1, <3>3 DEF GetStats, SteadyReply, db
    <3> QED BY <1>13, <3>2, <3>3 DEF GetStats
  <2>3. \A p \in Port : portMap'[p] \in {rows'[p], None} \cup disabled'
    BY <1>13 DEF GetStats, Nothing, MasterInv, db
  <2> QED BY <1>13, <2>1, <2>2, <2>3 DEF GetStats, MasterInv, db
<1>14. ASSUME NEW p \in Port, Repair(p) PROVE SlaveInv' /\ MasterInv'
  <2>1. /\ UNCHANGED <<db, portMap, reply, freeing>> /\ UNCHANGED <<rows, record, disabled>>
        /\ monitor = "repair" /\ monitor' \in {"repair", "record"}
    BY <1>14 DEF Repair, db
  <2>2. GoesOn
    <3>1. CASE portMap[p] # None /\ reply[p] = None /\ Add(p, portMap[p])
      <4>1. Kept(p) => portMap[p] = rows[p] BY <2>1 DEF MasterInv, SteadyReply
      <4> QED BY <2>1, <3>1, <4>1, AddGoesOn
    <3>2. CASE portMap[p] = None /\ reply[p] # None /\ Remove(p)
      <4>1. ~Kept(p) BY <2>1, <3>2 DEF MasterInv, SteadyReply, Kept
      <4> QED BY <2>1, <3>2, <4>1, RemoveGoesOn
    <3>3. CASE UNCHANGED slave BY <2>1, <3>3, SlaveWaits DEF Kept
    <3> QED BY <1>14, <3>1, <3>2, <3>3 DEF Repair
  <2> QED BY <2>1, <2>2, ReplyWaits DEF GoesOn
<1>c. ASSUME NEW p \in Port, NEW flow \in Nat, monitor = "record", reply[p] # None,
             UNCHANGED <<slave, rows, disabled, monitor, portMap, freeing>>,
             \A q \in Port : reply'[q] \in {reply[q], None},
             \/ UNCHANGED record
             \/ /\ portMap[p] # None /\ flow <= reply[p].traffic
                /\ record' = [record EXCEPT ![portMap[p]][reply[p].run] = flow]
      PROVE  SlaveInv' /\ MasterInv'
  <2>2. SlaveInv' /\ UNCHANGED <<sent, userOf>> BY <1>b, <1>c DEF Kept
  <2>3. ASSUME NEW q \in Port, Kept(q)' PROVE SteadyReply(q)'
    <3>1. SteadyReply(q) BY <1>c, <2>3 DEF MasterInv, Kept
    <3> QED BY <1>c, <2>2, <3>1 DEF SteadyReply
  <2>4. ASSUME NEW u \in User \ disabled, NEW k \in Run, record'[u][k] # None
        PROVE  userOf[k] = u /\ record'[u][k] <= sent[k]
    <3>1. CASE record'[u][k] = record[u][k] BY <2>4, <3>1 DEF MasterInv
    <3>2. CASE record'[u][k] # record[u][k]
      <4>1. reply[p] \in FlowUnit /\ portMap[p] \in User \cup {None} BY <1>c
      <4>2. portMap[p] = u /\ reply[p].run = k /\ record'[u][k] = flow
        BY <1>c, <3>2, <4>1 DEF FlowUnit
      <4>3. rows[p] = u /\ Kept(p)
        BY <4>2, NoneIs DEF MasterInv, Kept
      <4>4. userOf[k] = u /\ reply[p].traffic <= sent[k]
        BY <1>c, <4>2, <4>3 DEF MasterInv, SteadyReply
      <4>5. reply[p].traffic \in Nat /\ sent[k] \in Nat
        BY <1>c, <4>1, <2>4 DEF FlowUnit, SlaveTypeOK
      <4>6. flow <= reply[p].traffic
        <5>1. UNCHANGED record \/ flow <= reply[p].traffic BY <1>c
        <5> QED BY <3>2, <5>1
      <4> QED BY <4>2, <4>4, <4>5, <4>6
    <3> QED BY <3>1, <3>2
  <2> QED BY <1>c, <2>2, <2>3, <2>4 DEF MasterInv
<1>15. ASSUME NEW p \in Port, RecordFlow(p) PROVE SlaveInv' /\ MasterInv'
  <2>1. reply[p] \in FlowUnit BY <1>15 DEF RecordFlow
  <2>2. reply[p].traffic \in Nat /\ reply[p].traffic <= reply[p].traffic BY <2>1 DEF FlowUnit
  <2> QED BY <1>15, <1>c, <2>2 DEF RecordFlow, Update
<1>20. ASSUME NEW p \in Port, CreateRecord(p) PROVE SlaveInv' /\ MasterInv'
  <2>1. reply[p] \in FlowUnit BY <1>20 DEF CreateRecord
  <2>2. 0 <= reply[p].traffic BY <2>1 DEF FlowUnit
  <2> QED BY <1>20, <1>c, <2>2 DEF CreateRecord
<1>16. CASE RecordDone
  <2>1. SlaveInv' /\ UNCHANGED <<sent, userOf>> BY <1>16, <1>b DEF RecordDone, Kept, db
  <2> QED BY <1>16, <2>1 DEF RecordDone, Nothing, MasterInv, Kept, SteadyReply, db
<1>17. CASE CheckUserLimit
  <2>1. disabled \subseteq disabled' /\ UNCHANGED <<slave, rows, record, portMap, reply, freeing>>
        /\ monitor' = "snapshot"
    BY <1>17 DEF CheckUserLimit
  <2>2. \A p \in Port : Kept(p)' => Kept(p) /\ rows'[p] = rows[p] BY <2>1 DEF Kept
  <2>3. SlaveInv' /\ UNCHANGED <<sent, userOf>> BY <1>b, <2>1, <2>2
  <2>4. \A p \in Port : Kept(p)' => SteadyReply(p)'
    BY <2>1, <2>2, <2>3 DEF MasterInv, SteadyReply
  <2> QED BY <2>1, <2>3, <2>4 DEF MasterInv
<1>18. CASE MasterCrash
  <2>1. SlaveInv' /\ UNCHANGED <<sent, userOf>> BY <1>18, <1>b DEF MasterCrash, Kept, db
  <2> QED BY <1>18, <2>1 DEF MasterCrash, Nothing, MasterInv, Kept, SteadyReply, db
<1>19. CASE UNCHANGED <<vars, events>>
  <2>1. GoesOn BY <1>19, SlaveWaits DEF vars, Kept, db
  <2> QED BY <1>19, <1>a, <2>1 DEF vars
<1> QED
  BY <1>1, <1>2, <1>3, <1>4, <1>5, <1>6, <1>7, <1>8, <1>9, <1>10, <1>11, <1>12, <1>13, <1>14,
     <1>15, <1>16, <1>17, <1>18, <1>19, <1>20, <1>21 DEF Next, Serving, Working, Monitoring

\* Whatever is late, lost or restarted, an enabled user's record says no more
\* than what the user's servers transferred, if no process dies and no port
\* changes hands.
THEOREM RecordsAreTrue == Spec => []RecordsTrue
<1>1. RecordInv => RecordsTrue BY DEF RecordInv, MasterInv, RecordsTrue
<1> QED BY <1>1, TypeInit, TypeStep, RecordInit, RecordStep, PTL DEF Spec

-----------------------------------------------------------------------------
(* Sums *)

Total(h, S) == MapThenSumSet(LAMBDA k : h[k], S)

\* The recursive function that the fold of the community modules stands for.
IsSum(f, h, S) ==
    f = [s \in SUBSET S |-> IF s = {} THEN 0
           ELSE LET x == CHOOSE y \in s : TRUE IN h[x] + f[s \ {x}]]

LEMMA TotalIsSum == \A h, S : Total(h, S) = (CHOOSE f : IsSum(f, h, S))[S]
BY DEF Total, IsSum, MapThenSumSet, MapThenFoldSet

\* Induction on the subsets of a finite set, for a property given by the set of
\* those that have it.
LEMMA SubsetInduction ==
    ASSUME NEW S, IsFiniteSet(S), NEW Good,
           \A T \in SUBSET S :
              (\A U \in SUBSET T : U # T => U \in Good) => T \in Good
    PROVE  S \in Good
<1> SUFFICES ASSUME S \notin Good PROVE FALSE
  OBVIOUS
<1> DEFINE Bad == {T \in SUBSET S : T \notin Good}
           R == StrictSubsetOrdering(S)
<1>1. IsWellFoundedOn(R, FiniteSubsetsOf(S))
  BY FS_StrictSubsetOrderingWellFounded
<1>2. Bad \subseteq FiniteSubsetsOf(S) /\ Bad # {}
  BY FS_Subset DEF FiniteSubsetsOf
<1>3. PICK T \in Bad : \A U \in Bad : <<U, T>> \notin R
  <2> HIDE DEF Bad, R
  <2> QED BY <1>1, <1>2, WFMin
<1>4. ASSUME NEW U \in SUBSET T, U # T, U \notin Good
      PROVE  FALSE
  <2>1. U \in Bad /\ <<U, T>> \in R
    BY <1>3, <1>4 DEF StrictSubsetOrdering
  <2> QED
    BY <1>3, <2>1
<1> QED
  BY <1>3, <1>4

\* The functions for two sets agree on what both add up, so that there is one
\* for every finite set.
LEMMA SumsAgree ==
    ASSUME NEW h, NEW S, NEW T, NEW f, NEW g, IsSum(f, h, S), IsSum(g, h, T),
           NEW U \in SUBSET S, U \in SUBSET T, IsFiniteSet(U)
    PROVE  f[U] = g[U]
<1> DEFINE Good == {V \in SUBSET U : f[V] = g[V]}
<1>1. ASSUME NEW V \in SUBSET U, \A W \in SUBSET V : W # V => W \in Good
      PROVE  V \in Good
  <2>1. CASE V = {}
    BY <2>1 DEF IsSum
  <2>2. CASE V # {}
    <3>1. PICK x \in V : x = CHOOSE y \in V : TRUE
      BY <2>2
    <3>2. f[V] = h[x] + f[V \ {x}] /\ g[V] = h[x] + g[V \ {x}]
      BY <2>2, <3>1 DEF IsSum
    <3>3. V \ {x} \in Good
      BY <1>1, <3>1
    <3> QED
      BY <3>2, <3>3
  <2> QED
    BY <2>1, <2>2
<1> HIDE DEF Good
<1>2. U \in Good
  BY <1>1, SubsetInduction
<1> QED
  BY <1>2 DEF Good

LEMMA SumExists ==
    ASSUME NEW h, NEW S, IsFiniteSet(S)
    PROVE  \E f : IsSum(f, h, S)
<1> DEFINE Good == {T \in SUBSET S : \E f : IsSum(f, h, T)}
           Sum(T) == CHOOSE f : IsSum(f, h, T)
<1>1. ASSUME NEW T \in SUBSET S, \A U \in SUBSET T : U # T => U \in Good
      PROVE  T \in Good
  <2> DEFINE f == [s \in SUBSET T |-> IF s = {} THEN 0
                     ELSE LET x == CHOOSE y \in s : TRUE
                          IN  h[x] + Sum(s \ {x})[s \ {x}]]
  <2>1. \A U \in SUBSET T : U # T => IsSum(Sum(U), h, U)
    BY <1>1
  <2> HIDE DEF Sum
  <2>2. ASSUME NEW s \in SUBSET T, s # T
        PROVE  f[s] = Sum(s)[s]
    <3>1. IsSum(Sum(s), h, s)
      BY <2>1, <2>2
    <3>2. CASE s = {}
      BY <3>1, <3>2 DEF IsSum
    <3>3. CASE s # {}
      <4>1. PICK x \in s : x = CHOOSE y \in s : TRUE
        BY <3>3
      <4>2. f[s] = h[x] + Sum(s \ {x})[s \ {x}]
        BY <3>3, <4>1
      <4>3. Sum(s)[s] = h[x] + Sum(s)[s \ {x}]
        BY <3>1, <3>3, <4>1 DEF IsSum
      <4>4. IsSum(Sum(s \ {x}), h, s \ {x})
        BY <2>1, <2>2, <4>1
      <4>5. IsFiniteSet(s \ {x})
        BY FS_Subset
      <4>6. Sum(s)[s \ {x}] = Sum(s \ {x})[s \ {x}]
        BY <3>1, <4>4, <4>5, SumsAgree
      <4> QED
        BY <4>2, <4>3, <4>6
    <3> QED
      BY <3>2, <3>3
  <2>3. IsSum(f, h, T)
    <3>1. ASSUME NEW s \in SUBSET T, s # {}, NEW x, x = CHOOSE y \in s : TRUE
          PROVE  f[s \ {x}] = Sum(s \ {x})[s \ {x}]
      <4>1. x \in s
        BY <3>1
      <4> HIDE DEF f
      <4> QED
        BY <2>2, <3>1, <4>1
    <3>2. ASSUME NEW s \in SUBSET T
          PROVE  f[s] = IF s = {} THEN 0
                        ELSE LET x == CHOOSE y \in s : TRUE IN h[x] + f[s \ {x}]
      <4>1. CASE s = {}
        BY <4>1
      <4>2. CASE s # {}
        <5>1. PICK x : x = CHOOSE y \in s : TRUE
          OBVIOUS
        <5>2. f[s] = h[x] + Sum(s \ {x})[s \ {x}]
          BY <4>2, <5>1
        <5>3. f[s] = h[x] + f[s \ {x}]
          BY <3>1, <4>2, <5>1, <5>2
        <5> HIDE DEF f
        <5> QED
          BY <4>2, <5>1, <5>3
      <4> QED
        BY <4>1, <4>2
    <3>3. f = [s \in SUBSET T |-> f[s]]
      OBVIOUS
    <3> HIDE DEF f
    <3> QED
      BY <3>2, <3>3 DEF IsSum
  <2> QED
    BY <2>3
<1> HIDE DEF Good
<1>2. S \in Good
  BY <1>1, SubsetInduction
<1> QED
  BY <1>2 DEF Good

\* What Total is, without the functions.
LEMMA TotalIs ==
    ASSUME NEW h, NEW S, IsFiniteSet(S), NEW f, IsSum(f, h, S)
    PROVE  Total(h, S) = f[S]
<1>1. PICK g : IsSum(g, h, S) /\ Total(h, S) = g[S]
  BY TotalIsSum
<1> QED
  BY <1>1, SumsAgree

LEMMA TotalEmpty == \A h : Total(h, {}) = 0
<1> SUFFICES ASSUME NEW h PROVE Total(h, {}) = 0
  OBVIOUS
<1>1. PICK f : IsSum(f, h, {})
  BY SumExists, FS_EmptySet
<1>2. Total(h, {}) = f[{}]
  BY <1>1, TotalIs, FS_EmptySet
<1> QED
  BY <1>1, <1>2 DEF IsSum

LEMMA TotalChosen ==
    ASSUME NEW h, NEW S, IsFiniteSet(S), S # {}
    PROVE  \E x \in S : Total(h, S) = h[x] + Total(h, S \ {x})
<1>0. PICK x \in S : x = CHOOSE y \in S : TRUE
  OBVIOUS
<1>1. PICK f : IsSum(f, h, S)
  BY SumExists
<1>2. IsFiniteSet(S \ {x})
  BY FS_Subset
<1>3. PICK g : IsSum(g, h, S \ {x})
  BY <1>2, SumExists
<1>4. f[S] = h[x] + f[S \ {x}]
  BY <1>0, <1>1 DEF IsSum
<1>5. f[S \ {x}] = g[S \ {x}]
  BY <1>1, <1>2, <1>3, SumsAgree
<1> QED
  BY <1>1, <1>2, <1>3, <1>4, <1>5, TotalIs

LEMMA TotalType ==
    ASSUME NEW S, IsFiniteSet(S), NEW h, \A x \in S : h[x] \in Nat
    PROVE  Total(h, S) \in Nat
<1> DEFINE Good == {T \in SUBSET S : Total(h, T) \in Nat}
<1>1. ASSUME NEW T \in SUBSET S, \A U \in SUBSET T : U # T => U \in Good
      PROVE  T \in Good
  <2>1. CASE T = {}
    BY <2>1, TotalEmpty
  <2>2. CASE T # {}
    <3>1. IsFiniteSet(T)
      BY FS_Subset
    <3>2. PICK x \in T : Total(h, T) = h[x] + Total(h, T \ {x})
      BY <2>2, <3>1, TotalChosen
    <3>3. Total(h, T \ {x}) \in Nat /\ h[x] \in Nat
      BY <1>1
    <3> QED
      BY <3>2, <3>3
  <2> QED
    BY <2>1, <2>2
<1> HIDE DEF Good
<1>2. S \in Good
  BY <1>1, SubsetInduction
<1> QED
  BY <1>2 DEF Good

\* The elements may be added in any order.
LEMMA TotalSplit ==
    ASSUME NEW S, IsFiniteSet(S), NEW h, \A x \in S : h[x] \in Nat, NEW x \in S
    PROVE  Total(h, S) = h[x] + Total(h, S \ {x})
<1> DEFINE Good == {T \in SUBSET S :
                       \A y \in T : Total(h, T) = h[y] + Total(h, T \ {y})}
<1>1. ASSUME NEW T \in SUBSET S, \A U \in SUBSET T : U # T => U \in Good
      PROVE  T \in Good
  <2> SUFFICES ASSUME NEW y \in T
               PROVE  Total(h, T) = h[y] + Total(h, T \ {y})
    OBVIOUS
  <2>1. IsFiniteSet(T)
    BY FS_Subset
  <2>2. PICK c \in T : Total(h, T) = h[c] + Total(h, T \ {c})
    BY <2>1, TotalChosen
  <2>3. CASE y # c
    <3>1. Total(h, T \ {c}) = h[y] + Total(h, (T \ {c}) \ {y})
      BY <1>1, <2>1, <2>3
    <3>2. Total(h, T \ {y}) = h[c] + Total(h, (T \ {y}) \ {c})
      BY <1>1, <2>1, <2>3
    <3>3. (T \ {c}) \ {y} = (T \ {y}) \ {c}
      OBVIOUS
    <3>4. Total(h, (T \ {y}) \ {c}) \in Nat
      <4>1. IsFiniteSet((T \ {y}) \ {c})
        BY FS_Subset
      <4> QED
        BY <4>1, TotalType
    <3>5. h[y] \in Nat /\ h[c] \in Nat
      OBVIOUS
    <3> QED
      BY <2>2, <3>1, <3>2, <3>3, <3>4, <3>5
  <2> QED
    BY <2>2, <2>3
<1> HIDE DEF Good
<1>2. S \in Good
  BY <1>1, SubsetInduction
<1> QED
  BY <1>2 DEF Good

\* More that is added, and more of it, is no less.
LEMMA TotalGrows ==
    ASSUME NEW S, IsFiniteSet(S), NEW R \in SUBSET S, NEW h, NEW g,
           \A x \in S : g[x] \in Nat,
           \A x \in R : h[x] \in Nat /\ h[x] <= g[x]
    PROVE  Total(h, R) <= Total(g, S)
<1> DEFINE Good == {T \in SUBSET S : Total(h, T \cap R) <= Total(g, T)}
<1>1. ASSUME NEW T \in SUBSET S, \A U \in SUBSET T : U # T => U \in Good
      PROVE  T \in Good
  <2>1. CASE T = {}
    <3>1. T \cap R = {}
      BY <2>1
    <3> QED
      BY <2>1, <3>1, TotalEmpty
  <2>2. CASE T # {}
    <3>1. PICK y \in T : TRUE
      BY <2>2
    <3>2. /\ IsFiniteSet(T) /\ IsFiniteSet(T \ {y}) /\ IsFiniteSet(T \cap R)
          /\ IsFiniteSet((T \ {y}) \cap R)
      BY FS_Subset
    <3>3. Total(g, T) = g[y] + Total(g, T \ {y})
      BY <3>2, TotalSplit
    <3>4. Total(g, T \ {y}) \in Nat /\ Total(h, (T \ {y}) \cap R) \in Nat /\ g[y] \in Nat
      BY <3>2, TotalType
    <3>5. Total(h, (T \ {y}) \cap R) <= Total(g, T \ {y})
      BY <1>1, <3>1
    <3>6. CASE y \in R
      <4>1. Total(h, T \cap R) = h[y] + Total(h, (T \cap R) \ {y})
        BY <3>2, <3>6, TotalSplit
      <4>2. Total(h, T \cap R) = h[y] + Total(h, (T \ {y}) \cap R)
        <5>1. (T \cap R) \ {y} = (T \ {y}) \cap R
          OBVIOUS
        <5> QED
          BY <4>1, <5>1
      <4>3. h[y] \in Nat /\ h[y] <= g[y]
        BY <3>6
      <4> QED
        BY <3>3, <3>4, <3>5, <4>2, <4>3
    <3>7. CASE y \notin R
      <4>1. Total(h, T \cap R) = Total(h, (T \ {y}) \cap R)
        <5>1. T \cap R = (T \ {y}) \cap R
          BY <3>7
        <5> QED
          BY <5>1
      <4> QED
        BY <3>3, <3>4, <3>5, <4>1
    <3> QED
      BY <3>6, <3>7
  <2> QED
    BY <2>1, <2>2
<1> HIDE DEF Good
<1>2. S \in Good
  BY <1>1, SubsetInduction
<1>3. S \cap R = R
  OBVIOUS
<1> QED
  BY <1>2, <1>3 DEF Good

-----------------------------------------------------------------------------
(* Who is disabled *)

LEMMA AddGrows ==
    ASSUME TypeInv, SlaveInv, NEW p \in Port, NEW u, Add(p, u)
    PROVE  Grows
<1> USE DEF TypeInv, SlaveTypeOK
<1>1. CASE UNCHANGED slave BY <1>1 DEF slave, Grows
<1>2. CASE StartRun(p, u) /\ UNCHANGED sent
  <2>1. born + 1 \in Run BY <1>2, Bounds DEF StartRun, StartTime, Run
  <2>2. userOf[born + 1] = None BY <2>1 DEF SlaveInv
  <2> QED BY <1>2, <2>1, <2>2 DEF StartRun, StartTime, Grows
<1> QED BY <1>1, <1>2 DEF Add

LEMMA FlowsGrow ==
    ASSUME TypeInv, SlaveInv, "die" \notin events, [Next]_<<vars, events>>
    PROVE  Grows
<1>1. CASE UNCHANGED <<sent, userOf>> BY <1>1 DEF Grows, TypeInv, SlaveTypeOK
<1>2. ASSUME NEW p \in Port, Transfer(p) PROVE Grows
  BY <1>2, TransferGoesOn DEF GoesOn
<1>3. CASE SlaveRestart BY <1>3, RestartGoesOn DEF GoesOn
<1>4. ASSUME NEW p \in Port, Revive(p) PROVE FALSE
  BY <1>4 DEF Revive, SlaveInv, ListServers
<1>12. ASSUME NEW p \in Port, ReviveFails(p) PROVE FALSE
  BY <1>12 DEF ReviveFails, SlaveInv, ListServers
<1>5. ASSUME NEW p \in Port, FreeOne(p) \/ AllocateServer(p) PROVE Grows
  BY <1>1, <1>5, AddGrows DEF FreeOne, AllocateServer, Remove, slave
<1>6. ASSUME NEW p \in Port, Repair(p) PROVE Grows
  BY <1>1, <1>6, AddGrows DEF Repair, Remove, slave
<1>7. ASSUME NEW p \in Port, Report(p) \/ Die(p) \/ Delete(p) \/ CreateRecord(p)
                                 \/ RecordFlow(p)
      PROVE  UNCHANGED <<sent, userOf>>
  BY <1>7 DEF Report, Die, Delete, CreateRecord, RecordFlow, slave
<1>8. ASSUME NEW p \in Port, NEW u \in User, Insert(p, u)
      PROVE  UNCHANGED <<sent, userOf>>
  BY <1>8 DEF Insert, slave
<1>9. ASSUME NEW u \in User, Expire(u) PROVE UNCHANGED <<sent, userOf>>
  BY <1>9 DEF Expire, slave
<1>10. CASE HandleStat \/ Snapshot \/ GetStats \/ RecordDone \/ CheckUserLimit \/ MasterCrash
  BY <1>1, <1>10 DEF HandleStat, Snapshot, GetStats, RecordDone, CheckUserLimit, MasterCrash,
     slave
<1>11. CASE UNCHANGED <<vars, events>> BY <1>1, <1>11 DEF vars, slave
<1> QED
  BY <1>1, <1>2, <1>3, <1>4, <1>5, <1>6, <1>7, <1>8, <1>9, <1>10, <1>11, <1>12
     DEF Next, Serving, Working, Monitoring

RunsOf(u) == {k \in Run : userOf[k] = u}

LEMMA FlowsAreSums ==
    \A u : /\ Traffic(u) = Total(sent, RunsOf(u))
           /\ CurrentFlow(u) = Total(record[u], Recorded(u))
BY DEF Traffic, CurrentFlow, Total, RunsOf, MapThenSumSet, MapThenFoldSet

LEMMA RunsAreFinite == \A S \in SUBSET Run : IsFiniteSet(S)
<1>1. IsFiniteSet(Run) BY Bounds, FS_Interval DEF Run
<1> QED BY <1>1, FS_Subset

\* checkUserLimit counts no more than there was.
LEMMA FlowIsTraffic ==
    ASSUME TypeInv, MasterInv, NEW u \in User \ disabled
    PROVE  CurrentFlow(u) \in Nat /\ Traffic(u) \in Nat /\ CurrentFlow(u) <= Traffic(u)
<1> USE DEF TypeInv, SlaveTypeOK, MasterTypeOK
<1>1. ASSUME NEW k \in Recorded(u)
      PROVE  k \in RunsOf(u) /\ record[u][k] \in Nat /\ record[u][k] <= sent[k]
  <2>1. k \in Run /\ record[u][k] # None BY DEF Recorded
  <2> QED BY <2>1 DEF MasterInv, RunsOf
<1>2. \A k \in RunsOf(u) : sent[k] \in Nat BY DEF RunsOf
<1>3. IsFiniteSet(RunsOf(u)) /\ IsFiniteSet(Recorded(u))
  BY RunsAreFinite DEF RunsOf, Recorded
<1>4. Recorded(u) \in SUBSET RunsOf(u) BY <1>1
<1>5. Total(record[u], Recorded(u)) <= Total(sent, RunsOf(u))
  BY <1>1, <1>2, <1>3, <1>4, TotalGrows
<1>6. Total(record[u], Recorded(u)) \in Nat /\ Total(sent, RunsOf(u)) \in Nat
  BY <1>1, <1>2, <1>3, TotalType
<1> QED BY <1>5, <1>6, FlowsAreSums

LEMMA TrafficGrows ==
    ASSUME TypeInv, TypeInv', Grows, NEW u \in User
    PROVE  Traffic(u) \in Nat /\ Traffic(u)' \in Nat /\ Traffic(u) <= Traffic(u)'
<1> USE DEF TypeInv, SlaveTypeOK
<1>1. RunsOf(u) \in SUBSET RunsOf(u)' BY NoneIs DEF RunsOf, Grows
<1>2. IsFiniteSet(RunsOf(u)) /\ IsFiniteSet(RunsOf(u)')
  BY RunsAreFinite DEF RunsOf
<1>3. /\ \A k \in RunsOf(u)' : sent'[k] \in Nat
      /\ \A k \in RunsOf(u) : sent[k] \in Nat /\ sent[k] <= sent'[k]
  BY DEF RunsOf, Grows
<1>4. Total(sent, RunsOf(u)) <= Total(sent', RunsOf(u)')
  BY <1>1, <1>2, <1>3, TotalGrows
<1>5. Total(sent, RunsOf(u)) \in Nat /\ Total(sent', RunsOf(u)') \in Nat
  BY <1>2, <1>3, TotalType
<1>6. Traffic(u)' = Total(sent', RunsOf(u)')
  BY FlowsAreSums DEF Traffic, Total, RunsOf, MapThenSumSet, MapThenFoldSet
<1> QED BY <1>4, <1>5, <1>6, FlowsAreSums

LEMMA GuiltyStep ==
    ASSUME TypeInv, TypeInv', RecordInv, OnlyGuilty, [Next]_<<vars, events>>
    PROVE  OnlyGuilty'
<1> SUFFICES ASSUME Without({"die", "reassign"}), NEW u \in disabled', u \notin expired'
             PROVE  Traffic(u)' >= Quota
  BY DEF OnlyGuilty, Guilty, Without, Next
<1> USE DEF RecordInv
<1>1. Grows BY FlowsGrow DEF Without
<1>2. u \in User BY DEF TypeInv, MasterTypeOK
<1>3. u \notin expired
  BY DEF Next, Serving, Working, Monitoring, Transfer, Report, Revive, Die, Delete, FreeOne,
     AllocateServer, Insert, Expire, HandleStat, SlaveRestart, MasterCrash, Snapshot, GetStats,
     RecordDone, CheckUserLimit, Repair, CreateRecord, RecordFlow, ReviveFails, vars, db
<1>4. Traffic(u) >= Quota
  <2>1. CASE u \in disabled BY <1>3, <2>1 DEF OnlyGuilty, Guilty
  <2>2. CASE u \notin disabled
    <3>1. CheckUserLimit
      BY <2>2 DEF Next, Serving, Working, Monitoring, Transfer, Report, Revive, Die, Delete,
         FreeOne, AllocateServer, Insert, Expire, HandleStat, SlaveRestart, MasterCrash, Snapshot,
         GetStats, RecordDone, Repair, CreateRecord, RecordFlow, ReviveFails, vars, db
    <3>2. CurrentFlow(u) >= Quota
      BY <1>3, <2>2, <3>1 DEF CheckUserLimit, OverLimit
    <3> QED BY <1>2, <2>2, <3>2, FlowIsTraffic, FlowBounds
  <2> QED BY <2>1, <2>2
<1> QED BY <1>1, <1>2, <1>4, TrafficGrows, FlowBounds

\* Nobody is disabled who has neither used up the quota nor expired, if no
\* process dies and no port changes hands: what checkUserLimit adds up never
\* exceeds what the user's servers transferred.
THEOREM OnlyGuiltyDisabled == Spec => []OnlyGuilty
<1>1. Init => OnlyGuilty BY DEF Init, OnlyGuilty, Guilty
<1> QED BY <1>1, TypeInit, TypeStep, RecordInit, RecordStep, GuiltyStep, PTL DEF Spec
=============================================================================
