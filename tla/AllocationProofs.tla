-------------------------- MODULE AllocationProofs --------------------------
(***************************************************************************)
(* Proofs about Allocation for any users, ports, goroutines and regimes,   *)
(* and any bound on the events.                                            *)
(***************************************************************************)
EXTENDS Allocation, TLAPS

\* A goroutine that is about to save or to use an allocation has one.
HasRow == \A g \in Goroutine : pc[g] \in {"save", "allocate"} => row[g] \in Row

\* If no allocation is ever deleted and no query fails, what the goroutines and
\* updateStats have read stays true, and whatever is on the slave's disk was
\* saved before.
SavedBefore(p, w) == \E r \in rows : r.port = p /\ r.password = w
NeverStale ==
    Without({"change", "limit", "dbfail"}) =>
        /\ monitor # "remove"
        /\ \A g \in Goroutine : /\ pc[g] \notin {"scan", "delete"}
                                /\ pc[g] = "allocate" => row[g] \in rows
        /\ expected \subseteq rows
        /\ \A p \in Port : disk[p] # None => SavedBefore(p, disk[p])

SlaveInv == PTTypeOK /\ WriteAhead
Inv == AllocTypeOK /\ HasRow /\ WriteAhead /\ NeverStale

USE NoneIsNoPassword, PasswordsExist, MaxEventsType

LEMMA InitInv == AllocInit => Inv
<1> SUFFICES ASSUME AllocInit PROVE Inv
  OBVIOUS
<1> USE DEF AllocInit, Init, NoMemory
<1>1. AllocTypeOK
  BY DEF AllocTypeOK, PTTypeOK, Status, GoPC, MonitorPC
<1>2. HasRow /\ WriteAhead /\ NeverStale
  BY DEF HasRow, WriteAhead, NeverStale
<1> QED
  BY <1>1, <1>2 DEF Inv

\* RandomPassword is a password.
LEMMA RandomIsPassword == RandomPassword \in Password
<1>1. \E w \in Password : w \in Used => Password \subseteq Used
  OBVIOUS
<1> QED
  BY <1>1 DEF RandomPassword

\* What the RPCs do to the slave: Allocate may leave the port's password on
\* disk, Free nothing new, and a served port keeps its password on disk.
LEMMA AllocateRPCFacts ==
    ASSUME SlaveInv, happened \in 0 .. MaxEvents,
           NEW p \in Port, NEW w \in Password, AllocateRPC(p, w)
    PROVE  /\ SlaveInv' /\ happened' \in 0 .. MaxEvents
           /\ \A q \in Port : disk'[q] = disk[q] \/ (q = p /\ disk'[q] = w)
BY DEF SlaveInv, PTTypeOK, WriteAhead, AllocateRPC, Attempt, Happens, slave

LEMMA FreeRPCFacts ==
    ASSUME SlaveInv, happened \in 0 .. MaxEvents,
           NEW p \in Port, FreeRPC(p)
    PROVE  /\ SlaveInv' /\ happened' \in 0 .. MaxEvents
           /\ \A q \in Port : disk'[q] = disk[q] \/ disk'[q] = None
BY DEF SlaveInv, PTTypeOK, WriteAhead, FreeRPC, Happens, slave

\* The goroutines' variables, apart from the rest of the type invariant.
GoTypeOK ==
    /\ pc \in [Goroutine -> GoPC] /\ who \in [Goroutine -> SUBSET User]
    /\ row \in [Goroutine -> Row \cup {None}]
    /\ pending \in [Goroutine -> SUBSET Port] /\ again \in [Goroutine -> BOOLEAN]

\* A goroutine that ends, and one that begins.
LEMMA FinishFacts ==
    ASSUME GoTypeOK, HasRow, NEW g \in Goroutine, Finish(g)
    PROVE  GoTypeOK' /\ HasRow' /\ pc' = [pc EXCEPT ![g] = "idle"]
                                /\ row' = [row EXCEPT ![g] = None]
BY DEF GoTypeOK, HasRow, Finish, Goto, GoPC

LEMMA SpawnFacts ==
    ASSUME GoTypeOK, HasRow, NEW us \in SUBSET User, NEW b \in BOOLEAN,
           NEW here \in {"find", "scan"}, Spawn(here, us, b)
    PROVE  GoTypeOK' /\ HasRow'
<1> DEFINE g == CHOOSE h \in Goroutine : pc[h] = "idle"
<1>1. g \in Goroutine
  BY DEF Spawn, Busy
<1>2. /\ pc' = [pc EXCEPT ![g] = here] /\ who' = [who EXCEPT ![g] = us]
      /\ again' = [again EXCEPT ![g] = b] /\ UNCHANGED <<row, pending>>
  BY DEF Spawn
<1> QED
  BY <1>1, <1>2 DEF GoTypeOK, HasRow, GoPC

\* The steps of a goroutine.
LEMMA WorkInv ==
    ASSUME Inv, NEW g \in Goroutine, Work(g), UNCHANGED events
    PROVE  Inv'
<1> USE DEF Inv
<1>0. SlaveInv /\ happened \in 0 .. MaxEvents
  BY DEF SlaveInv, AllocTypeOK
<1>1. CASE Scan(g)
  BY <1>1 DEF Scan, Goto, AllocTypeOK, PTTypeOK, GoPC, HasRow, WriteAhead, NeverStale, SavedBefore,
              Without, RowsOf, Row, slave, db, updating
<1>2. CASE Delete(g)
  BY <1>2 DEF Delete, Happens, Goto, AllocTypeOK, PTTypeOK, GoPC, HasRow, WriteAhead, NeverStale, SavedBefore,
              Without, RowsOf, slave, updating
<1>3. CASE FreeDone(g)
  <2>1. CASE ~again[g]
    <3>1. Finish(g)
      BY <1>3, <2>1 DEF FreeDone
    <3>2. GoTypeOK' /\ HasRow' /\ pc' = [pc EXCEPT ![g] = "idle"]
                               /\ row' = [row EXCEPT ![g] = None]
      BY <3>1, FinishFacts DEF GoTypeOK, AllocTypeOK
    <3> QED
      BY <1>3, <3>2 DEF FreeDone, GoTypeOK, AllocTypeOK, PTTypeOK, WriteAhead, NeverStale,
                        SavedBefore, Without, slave, db, updating
  <2>2. CASE again[g]
    BY <1>3, <2>2 DEF FreeDone, Goto, AllocTypeOK, PTTypeOK, GoPC, HasRow, WriteAhead,
                      NeverStale, SavedBefore, Without, slave, db, updating
  <2> QED
    BY <2>1, <2>2
<1>4. CASE Find(g)
  BY <1>4 DEF Find, Goto, AllocTypeOK, PTTypeOK, GoPC, HasRow, WriteAhead, NeverStale, SavedBefore,
              Without, RowsOf, slave, db, updating
<1>5. CASE Choose(g)
  <2>1. ASSUME NEW p \in EmptyPorts, NEW u \in who[g] PROVE NewRow(u, p) \in Row
    BY RandomIsPassword DEF NewRow, Row, EmptyPorts, AllocTypeOK
  <2>2. CASE EmptyPorts = {}
    <3>1. Finish(g)
      BY <1>5, <2>2 DEF Choose
    <3>2. GoTypeOK' /\ HasRow' /\ pc' = [pc EXCEPT ![g] = "idle"]
                               /\ row' = [row EXCEPT ![g] = None]
      BY <3>1, FinishFacts DEF GoTypeOK, AllocTypeOK
    <3> QED
      BY <1>5, <3>2 DEF Choose, GoTypeOK, AllocTypeOK, PTTypeOK, WriteAhead, NeverStale,
                        SavedBefore, Without, slave, db, updating
  <2>3. CASE EmptyPorts # {}
    <3>1. PICK p \in EmptyPorts, u \in who[g] :
             row' = [row EXCEPT ![g] = NewRow(u, p)]
      BY <1>5, <2>3 DEF Choose
    <3>2. NewRow(u, p) \in Row
      BY <2>1, <3>1
    <3>3. /\ pc' = [pc EXCEPT ![g] = "save"]
          /\ UNCHANGED <<slave, db, saving, who, pending, again, updating, happened>>
      BY <1>5, <2>3 DEF Choose, Goto
    <3> QED
      BY <3>1, <3>2, <3>3 DEF AllocTypeOK, PTTypeOK, GoPC, HasRow, WriteAhead,
                        NeverStale, SavedBefore, Without, slave, db, updating
  <2> QED
    BY <2>2, <2>3
<1>6. CASE Save(g)
  BY <1>6 DEF Save, Happens, Goto, AllocTypeOK, PTTypeOK, GoPC, HasRow, WriteAhead, NeverStale, SavedBefore,
              Without, slave, updating
<1>7. CASE AllocateServer(g)
  <2>1. row[g].port \in Port /\ row[g].password \in Password
    BY <1>7 DEF AllocateServer, HasRow, Row
  <2>2. /\ SlaveInv' /\ happened' \in 0 .. MaxEvents
        /\ \A q \in Port : disk'[q] = disk[q]
                           \/ (q = row[g].port /\ disk'[q] = row[g].password)
    BY <1>0, <1>7, <2>1, AllocateRPCFacts DEF AllocateServer
  <2> QED
    BY <1>7, <2>2 DEF AllocateServer, Finish, Goto, SlaveInv, AllocTypeOK, GoPC, HasRow,
                      NeverStale, SavedBefore, Without, db, updating
<1>8. ASSUME NEW p \in Port, FreeOne(g, p) PROVE Inv'
  <2>1. /\ SlaveInv' /\ happened' \in 0 .. MaxEvents
        /\ \A q \in Port : disk'[q] = disk[q] \/ disk'[q] = None
    BY <1>0, <1>8, FreeRPCFacts DEF FreeOne
  <2> QED
    BY <1>8, <2>1 DEF FreeOne, SlaveInv, AllocTypeOK, HasRow, NeverStale, SavedBefore, Without,
                      db, updating
<1> QED
  BY <1>1, <1>2, <1>3, <1>4, <1>5, <1>6, <1>7, <1>8 DEF Work

\* The handlers.
LEMMA RequestInv ==
    ASSUME Inv, UNCHANGED events,
           SaveUser \/ \E u \in User : CreateUser(u) \/ ChangeUserGroup(u)
    PROVE  Inv'
<1> USE DEF Inv
<1>1. ASSUME NEW u \in User, CreateUser(u) PROVE Inv'
  BY <1>1 DEF CreateUser, Spawn, Busy, AllocTypeOK, PTTypeOK, GoPC, Status, HasRow, WriteAhead,
              NeverStale, SavedBefore, Without, slave, updating
<1>2. ASSUME NEW u \in User, ChangeUserGroup(u) PROVE Inv'
  BY <1>2 DEF ChangeUserGroup, Spawn, Busy, Happens, Known, AllocTypeOK, PTTypeOK, GoPC, Status,
              HasRow, WriteAhead, NeverStale, Without, slave, db, updating
<1>3. CASE SaveUser
  BY <1>3 DEF SaveUser, AllocTypeOK, PTTypeOK, Status, HasRow, WriteAhead, NeverStale, SavedBefore,
              Without, slave, goroutines, updating
<1> QED
  BY <1>1, <1>2, <1>3

\* Monitoring, and the start of the master.
LEMMA MonitoringInv ==
    ASSUME Inv, Monitoring, UNCHANGED events
    PROVE  Inv'
<1> USE DEF Inv
<1>0. SlaveInv /\ happened \in 0 .. MaxEvents
  BY DEF SlaveInv, AllocTypeOK
<1>1. CASE Snapshot
  BY <1>1 DEF Snapshot, AllocTypeOK, PTTypeOK, MonitorPC, HasRow, WriteAhead, NeverStale,
              SavedBefore, Without, slave, db, goroutines
<1>2. CASE GetStats
  BY <1>2 DEF GetStats, Missing, Extra, Happens, AllocTypeOK, PTTypeOK, MonitorPC, HasRow,
              WriteAhead, NeverStale, SavedBefore, Without, slave, db, goroutines
<1>3. CASE RecordFlow
  <2>1. recorded' \subseteq User
    <3>1. PICK m \in PortMaps(expected) :
             recorded' = recorded \cup {m[p].user : p \in actual \cap DOMAIN m}
      BY <1>3 DEF RecordFlow
    <3>2. \A p \in DOMAIN m : m[p] \in Row
      BY <3>1 DEF PortMaps, AllocTypeOK
    <3> QED
      BY <3>1, <3>2 DEF AllocTypeOK, Row
  <2> QED
    BY <1>3, <2>1 DEF RecordFlow, AllocTypeOK, PTTypeOK, MonitorPC, HasRow, WriteAhead, NeverStale,
                      SavedBefore, Without, slave, goroutines
<1>4. CASE CheckUserLimit
  BY <1>4 DEF CheckUserLimit, AllocTypeOK, PTTypeOK, MonitorPC, HasRow, WriteAhead, NeverStale,
              SavedBefore, Without, slave, db, goroutines
<1>9. CASE RemoveUser
  <2>1. /\ Spawn("scan", over, FALSE) /\ over \in SUBSET User
        /\ happened' \in 0 .. MaxEvents
    <3>1. over \in SUBSET User
      BY DEF AllocTypeOK
    <3>2. happened' = happened \/ (happened < MaxEvents /\ happened' = happened + 1)
      BY <1>9 DEF RemoveUser, Happens
    <3>3. happened' \in 0 .. MaxEvents
      BY <1>0, <3>2, MaxEventsType
    <3>4. Spawn("scan", over, FALSE)
      BY <1>9 DEF RemoveUser
    <3> QED
      BY <3>1, <3>3, <3>4
  <2>2. GoTypeOK' /\ HasRow'
    BY <2>1, SpawnFacts DEF GoTypeOK, AllocTypeOK
  <2>3. users' \in [User -> Status]
    BY <1>9 DEF RemoveUser, AllocTypeOK, Status
  <2>4. ~Without({"change", "limit", "dbfail"})
    BY <1>9 DEF RemoveUser, NeverStale
  <2> QED
    BY <1>9, <2>1, <2>2, <2>3, <2>4 DEF RemoveUser, GoTypeOK, AllocTypeOK, PTTypeOK, MonitorPC,
                      WriteAhead, NeverStale, Without, slave
<1>5. CASE Booted
  BY <1>5 DEF Booted, Happens, AllocTypeOK, PTTypeOK, MonitorPC, HasRow, WriteAhead, NeverStale,
              SavedBefore, Without, slave, db, goroutines
<1>6. ASSUME NEW p \in Port, AllocateMissing(p) PROVE Inv'
  <2>1. PICK r \in OnPort(expected, p) : AllocateRPC(p, r.password)
    BY <1>6 DEF AllocateMissing
  <2>2. r \in expected /\ r.port = p /\ r.password \in Password
    BY DEF OnPort, AllocTypeOK, Row
  <2>3. /\ SlaveInv' /\ happened' \in 0 .. MaxEvents
        /\ \A q \in Port : disk'[q] = disk[q] \/ (q = p /\ disk'[q] = r.password)
    BY <1>0, <2>1, <2>2, AllocateRPCFacts
  <2> QED
    BY <1>6, <2>2, <2>3 DEF AllocateMissing, SlaveInv, AllocTypeOK, HasRow, NeverStale,
                            SavedBefore, Without, db, goroutines
<1>7. ASSUME NEW p \in Port, FreeExtra(p) PROVE Inv'
  <2>1. /\ SlaveInv' /\ happened' \in 0 .. MaxEvents
        /\ \A q \in Port : disk'[q] = disk[q] \/ disk'[q] = None
    BY <1>0, <1>7, FreeRPCFacts DEF FreeExtra
  <2> QED
    BY <1>7, <2>1 DEF FreeExtra, SlaveInv, AllocTypeOK, HasRow, NeverStale, SavedBefore, Without,
                      db, goroutines
<1>8. ASSUME NEW u \in User, AllocateAtBoot(u) PROVE Inv'
  <2>1. PICK p \in EmptyPorts : rows' = rows \cup {NewRow(u, p)}
    BY <1>8 DEF AllocateAtBoot
  <2>2. NewRow(u, p) \in Row
    BY RandomIsPassword DEF NewRow, Row, EmptyPorts
  <2> QED
    BY <1>8, <2>1, <2>2 DEF AllocateAtBoot, AllocTypeOK, PTTypeOK, HasRow, WriteAhead, NeverStale,
                            SavedBefore, Without, slave, goroutines, updating
<1> QED
  BY <1>1, <1>2, <1>3, <1>4, <1>5, <1>6, <1>7, <1>8, <1>9 DEF Monitoring

\* Restarts and crashes.
LEMMA FailureInv ==
    ASSUME Inv, UNCHANGED events,
           SlaveRestart \/ MasterCrash \/ UNCHANGED vars
    PROVE  Inv'
<1> USE DEF Inv
<1>1. CASE SlaveRestart
  BY <1>1 DEF SlaveRestart, Happens, AllocTypeOK, PTTypeOK, HasRow, WriteAhead, NeverStale,
              SavedBefore, Without, db, goroutines, updating
<1>2. CASE MasterCrash
  BY <1>2 DEF MasterCrash, Gone, Happens, AllocTypeOK, PTTypeOK, GoPC, MonitorPC, HasRow,
              WriteAhead, NeverStale, SavedBefore, Without, slave, db
<1>3. CASE UNCHANGED vars
  BY <1>3 DEF vars, AllocTypeOK, PTTypeOK, HasRow, WriteAhead, NeverStale, SavedBefore, Without,
              slave, db, goroutines, updating
<1> QED
  BY <1>1, <1>2, <1>3

LEMMA NextInv == Inv /\ [AllocNext]_<<vars, events>> => Inv'
BY WorkInv, RequestInv, MonitoringInv, FailureInv DEF AllocNext

LEMMA InvAlways == AllocSpec => []Inv
BY InitInv, NextInv, PTL DEF AllocSpec

-----------------------------------------------------------------------------
\* Every variable of the master has its type.
THEOREM TypeCorrect == AllocSpec => []AllocTypeOK
<1>1. Inv => AllocTypeOK
  BY DEF Inv
<1> QED
  BY <1>1, InvAlways, PTL

\* If no allocation is ever deleted and no query fails, what is served is in the
\* table allocation with its password, whatever RPCs fail and whoever restarts.
THEOREM ServedIsAllocated == AllocSpec => []ServedAsSaved
<1>1. Inv => ServedAsSaved
  BY DEF Inv, WriteAhead, NeverStale, SavedBefore, ServedAsSaved, OnPort
<1> QED
  BY <1>1, InvAlways, PTL

-----------------------------------------------------------------------------
(* Who allocates, and for whom *)

Finding(g) == pc[g] \in {"find", "choose", "save"}

\* The master boots alone; a goroutine that allocates was spawned to, for one user.
AloneInv ==
    /\ monitor = "boot" => Busy = {}
    /\ \A g \in Goroutine : Finding(g) => again[g]
    /\ \A g \in Goroutine : again[g] => \E u \in User : who[g] = {u}

\* A goroutine that is spawned was idle, and the others stay as they are.
Becomes(g, here, us, b) ==
    /\ pc'[g] = here /\ who'[g] = us /\ again'[g] = b
    /\ \A h \in Goroutine \ {g} : pc'[h] = pc[h] /\ who'[h] = who[h] /\ again'[h] = again[h]

LEMMA Spawned ==
    ASSUME GoTypeOK, NEW here, NEW us, NEW b, Spawn(here, us, b)
    PROVE  \E g \in Goroutine : pc[g] = "idle" /\ Becomes(g, here, us, b) /\ UNCHANGED row
<1> DEFINE g == CHOOSE h \in Goroutine : pc[h] = "idle"
<1>1. g \in Goroutine /\ pc[g] = "idle"
  BY DEF Spawn, Busy
<1>2. /\ pc' = [pc EXCEPT ![g] = here] /\ who' = [who EXCEPT ![g] = us]
      /\ again' = [again EXCEPT ![g] = b] /\ UNCHANGED row
  BY DEF Spawn
<1>3. \A h \in Goroutine : again'[h] = IF h = g THEN b ELSE again[h]
  BY <1>2, Zenon DEF GoTypeOK
<1>4. Becomes(g, here, us, b)
  BY <1>1, <1>2, <1>3 DEF GoTypeOK, Becomes
<1> QED BY <1>1, <1>2, <1>4

LEMMA AloneInit == AllocInit => AloneInv
BY DEF AllocInit, NoMemory, AloneInv, Finding, Busy

LEMMA AloneStep ==
    ASSUME Inv, AloneInv, [AllocNext]_<<vars, events>>
    PROVE  AloneInv'
<1>0. GoTypeOK /\ monitor \in MonitorPC BY DEF Inv, AllocTypeOK, GoTypeOK
<1> USE <1>0 DEF AloneInv, Finding, Busy, GoTypeOK
<1>1. ASSUME NEW g \in Goroutine, Work(g) PROVE AloneInv'
  <2>1. monitor' = monitor /\ monitor # "boot"
    BY <1>1 DEF Work, Scan, Delete, FreeOne, FreeDone, Find, Choose, Save, AllocateServer,
                updating
  <2>2. CASE Finish(g) BY <2>1, <2>2 DEF Finish, Goto
  <2>3. CASE UNCHANGED <<who, again>> /\ \E here \in GoPC :
               pc' = [pc EXCEPT ![g] = here] /\ (here \in {"find", "choose", "save"} => again[g])
    BY <2>1, <2>3 DEF GoPC
  <2>4. Finish(g) \/ (UNCHANGED <<who, again>> /\ \E here \in GoPC :
               pc' = [pc EXCEPT ![g] = here] /\ (here \in {"find", "choose", "save"} => again[g]))
    <3>1. CASE Scan(g) BY <3>1 DEF Scan, Goto, GoPC
    <3>2. CASE Delete(g) BY <3>2 DEF Delete, Goto, GoPC
    <3>3. CASE FreeDone(g) BY <3>3 DEF FreeDone, Goto, GoPC
    <3>4. CASE Find(g) BY <3>4 DEF Find, Goto, GoPC
    <3>5. CASE Choose(g) BY <3>5 DEF Choose, Goto, GoPC
    <3>6. CASE Save(g) BY <3>6 DEF Save, Goto, GoPC
    <3>7. CASE AllocateServer(g) BY <3>7 DEF AllocateServer
    <3>8. ASSUME NEW p \in Port, FreeOne(g, p)
          PROVE UNCHANGED <<who, again>> /\ pc' = [pc EXCEPT ![g] = "free"]
      BY <3>8 DEF FreeOne
    <3> QED BY <1>1, <3>1, <3>2, <3>3, <3>4, <3>5, <3>6, <3>7, <3>8 DEF Work, GoPC
  <2> QED BY <2>2, <2>3, <2>4
<1>2. ASSUME NEW u \in User, CreateUser(u) \/ ChangeUserGroup(u) PROVE AloneInv'
  <2>1. monitor' = monitor /\ monitor # "boot"
    BY <1>2 DEF CreateUser, ChangeUserGroup, MayRequest, updating
  <2>2. PICK here \in {"find", "scan"} : Spawn(here, {u}, TRUE)
    BY <1>2 DEF CreateUser, ChangeUserGroup
  <2>3. PICK g \in Goroutine : Becomes(g, here, {u}, TRUE)
    BY <2>2, Spawned
  <2> QED BY <2>1, <2>3 DEF Becomes
<1>3. CASE RemoveUser
  <2>1. monitor' = "snapshot" /\ Spawn("scan", over, FALSE) BY <1>3 DEF RemoveUser
  <2>2. PICK g \in Goroutine : Becomes(g, "scan", over, FALSE)
    BY <2>1, Spawned
  <2> QED BY <2>1, <2>2 DEF Becomes
<1>4. CASE UNCHANGED goroutines /\ (monitor' = "boot" => monitor = "boot")
  BY <1>4 DEF goroutines
<1>5. ASSUME Monitoring, ~RemoveUser
      PROVE  UNCHANGED goroutines /\ (monitor' = "boot" => monitor = "boot")
  BY <1>5 DEF Monitoring, Snapshot, GetStats, RecordFlow, CheckUserLimit, Booted, AllocateMissing, FreeExtra,
              AllocateAtBoot, updating
<1>6. ASSUME SaveUser \/ SlaveRestart \/ UNCHANGED <<vars, events>>
      PROVE  UNCHANGED goroutines /\ (monitor' = "boot" => monitor = "boot")
  BY <1>6 DEF SaveUser, SlaveRestart, updating, vars
<1>7. CASE MasterCrash BY <1>7 DEF MasterCrash, Gone
<1> QED BY <1>1, <1>2, <1>3, <1>4, <1>5, <1>6, <1>7 DEF AllocNext

-----------------------------------------------------------------------------
(* Users and ports are one to one *)

Allocating(g) == pc[g] # "idle" /\ again[g]

\* Whoever is about to insert an allocation has found neither user nor port in
\* the table.
Unused(g) ==
    /\ pc[g] \in {"choose", "save"} => RowsOf(who[g]) = {}
    /\ pc[g] = "save" => row[g].user \in who[g] /\ OnPort(rows, row[g].port) = {}

\* One goroutine allocates at a time, so that what it has found stays true.
OneByOne == \A g, h \in Goroutine : Allocating(g) /\ Allocating(h) => g = h
OneToOneInv ==
    Without({"overlap"}) =>
        OneByOne /\ (\A g \in Goroutine : Unused(g)) /\ DistinctPorts /\ OnePort

LEMMA OneToOneInit == AllocInit => OneToOneInv
BY DEF AllocInit, NoMemory, OneToOneInv, OneByOne, Allocating, Unused, DistinctPorts, OnePort

\* What the steps of a goroutine leave alone.
Others(g) ==
    \A h \in Goroutine \ {g} :
        pc'[h] = pc[h] /\ who'[h] = who[h] /\ row'[h] = row[h] /\ again'[h] = again[h]

LEMMA FinishOthers ==
    ASSUME GoTypeOK, NEW g \in Goroutine, Finish(g)
    PROVE  Others(g) /\ pc'[g] = "idle"
<1>1. \A h \in Goroutine \ {g} : again'[h] = again[h]
  BY Zenon DEF Finish, GoTypeOK
<1> QED BY <1>1 DEF Finish, Goto, GoTypeOK, Others

LEMMA WorkOthers ==
    ASSUME GoTypeOK, NEW g \in Goroutine, Work(g)
    PROVE  /\ Others(g)
           /\ pc[g] # "idle" /\ (pc'[g] # "idle" => again'[g] = again[g] /\ who'[g] = who[g])
<1> USE DEF GoTypeOK, Others
<1>1. CASE Scan(g) BY <1>1 DEF Scan, Goto
<1>2. CASE Delete(g) BY <1>2 DEF Delete, Goto
<1>3. CASE FreeDone(g) BY <1>3, FinishOthers DEF FreeDone, Goto
<1>4. CASE Find(g) BY <1>4 DEF Find, Goto
<1>5. CASE Choose(g) BY <1>5, FinishOthers DEF Choose, Goto
<1>6. CASE Save(g) BY <1>6 DEF Save, Goto
<1>7. CASE AllocateServer(g) BY <1>7, FinishOthers DEF AllocateServer
<1>8. ASSUME NEW p \in Port, FreeOne(g, p)
      PROVE  /\ UNCHANGED <<pc, who, row, again>>
             /\ pc[g] # "idle"
  BY <1>8 DEF FreeOne
<1> QED BY <1>1, <1>2, <1>3, <1>4, <1>5, <1>6, <1>7, <1>8 DEF Work

LEMMA OneToOneStep ==
    ASSUME Inv, AloneInv, OneToOneInv, [AllocNext]_<<vars, events>>
    PROVE  OneToOneInv'
<1> events' = events BY DEF AllocNext
<1> SUFFICES ASSUME Without({"overlap"}), OneByOne, \A g \in Goroutine : Unused(g),
                    DistinctPorts, OnePort
             PROVE  OneByOne' /\ (\A g \in Goroutine : Unused(g)') /\ DistinctPorts' /\ OnePort'
  BY DEF OneToOneInv, Without
<1>0. GoTypeOK BY DEF Inv, AllocTypeOK, GoTypeOK
<1>1. ASSUME NEW g \in Goroutine, Others(g), rows' \subseteq rows, Unused(g)',
             Allocating(g)' => Allocating(g) \/ Busy = {}
      PROVE  OneByOne' /\ (\A h \in Goroutine : Unused(h)') /\ DistinctPorts' /\ OnePort'
  <2>1. OneByOne' BY <1>1 DEF OneByOne, Allocating, Others, Busy
  <2>2. \A h \in Goroutine : Unused(h)' BY <1>1 DEF Unused, Others, RowsOf, OnPort
  <2>3. DistinctPorts' /\ OnePort' BY <1>1 DEF DistinctPorts, OnePort
  <2> QED BY <2>1, <2>2, <2>3
<1>2. ASSUME NEW g \in Goroutine, Work(g), ~Save(g) \/ UNCHANGED rows
      PROVE  OneByOne' /\ (\A h \in Goroutine : Unused(h)') /\ DistinctPorts' /\ OnePort'
  <2>1. Others(g) /\ (Allocating(g)' => Allocating(g))
    BY <1>0, <1>2, WorkOthers DEF Allocating
  <2>2. rows' \subseteq rows
    BY <1>2 DEF Work, Scan, Delete, FreeOne, FreeDone, Find, Choose, AllocateServer, db
  <2>3. Unused(g)'
    <3>1. CASE Choose(g)
      <4>1. CASE Finish(g) BY <1>0, <4>1, FinishOthers DEF Unused
      <4>2. ASSUME NEW p \in EmptyPorts, NEW u \in who[g], row' = [row EXCEPT ![g] = NewRow(u, p)],
                   Goto(g, "save"), UNCHANGED who
            PROVE  Unused(g)'
        BY <1>0, <3>1, <4>2
           DEF Choose, Goto, GoTypeOK, Unused, NewRow, RowsOf, OnPort, EmptyPorts, db
      <4> QED BY <3>1, <4>1, <4>2 DEF Choose
    <3>2. CASE Find(g)
      BY <1>0, <3>2 DEF Find, Goto, GoTypeOK, Unused, RowsOf, db
    <3>3. ASSUME Scan(g) \/ Delete(g) \/ FreeDone(g) \/ Save(g) \/ AllocateServer(g)
                 \/ \E p \in Port : FreeOne(g, p)
          PROVE  pc'[g] \notin {"choose", "save"}
      BY <1>0, <3>3, FinishOthers
         DEF Scan, Delete, FreeDone, Save, AllocateServer, FreeOne, Goto, GoTypeOK
    <3> QED BY <1>2, <3>1, <3>2, <3>3 DEF Work, Unused
  <2> QED BY <1>1, <2>1, <2>2, <2>3
<1>3. ASSUME NEW g \in Goroutine, Save(g), rows' = rows \cup {row[g]}
      PROVE  OneByOne' /\ (\A h \in Goroutine : Unused(h)') /\ DistinctPorts' /\ OnePort'
  <2>1. /\ pc[g] = "save" /\ pc' = [pc EXCEPT ![g] = "allocate"]
        /\ rows' = rows \cup {row[g]} /\ UNCHANGED <<who, row, again>>
    BY <1>3 DEF Save, Goto
  <2>2. Unused(g) /\ again[g] BY <2>1 DEF AloneInv, Finding
  <2>3. \A h \in Goroutine \ {g} : pc[h] \notin {"choose", "save"}
    BY <2>1, <2>2 DEF OneByOne, Allocating, AloneInv, Finding
  <2>4. OneByOne' BY <1>0, <2>1, <2>2 DEF OneByOne, Allocating, GoTypeOK
  <2>5. \A h \in Goroutine : Unused(h)' BY <1>0, <2>1, <2>3 DEF Unused, GoTypeOK
  <2>6. DistinctPorts' /\ OnePort'
    BY <2>1, <2>2 DEF Unused, DistinctPorts, OnePort, RowsOf, OnPort
  <2> QED BY <2>4, <2>5, <2>6
<1>4. ASSUME NEW here \in {"find", "scan"}, NEW us, NEW b \in BOOLEAN, Spawn(here, us, b),
             Busy = {} \/ b = FALSE, UNCHANGED rows
      PROVE  OneByOne' /\ (\A h \in Goroutine : Unused(h)') /\ DistinctPorts' /\ OnePort'
  <2>1. PICK g \in Goroutine : pc[g] = "idle" /\ Becomes(g, here, us, b) /\ UNCHANGED row
    BY <1>0, <1>4, Spawned
  <2>2. Others(g) /\ Unused(g)' BY <2>1 DEF Becomes, Others, Unused
  <2>3. Allocating(g)' => Busy = {} BY <1>4, <2>1 DEF Becomes, Allocating
  <2> QED BY <1>1, <1>4, <2>2, <2>3
<1>5. ASSUME NEW u \in User, CreateUser(u) \/ ChangeUserGroup(u)
      PROVE  OneByOne' /\ (\A h \in Goroutine : Unused(h)') /\ DistinctPorts' /\ OnePort'
  <2>1. Busy = {} /\ UNCHANGED rows
    BY <1>5 DEF CreateUser, ChangeUserGroup, MayRequest, Without, db
  <2>2. Spawn("find", {u}, TRUE) \/ Spawn("scan", {u}, TRUE)
    BY <1>5 DEF CreateUser, ChangeUserGroup
  <2> QED BY <1>4, <2>1, <2>2
<1>6. CASE UNCHANGED <<rows, goroutines>>
  BY <1>6 DEF goroutines, OneByOne, Allocating, Unused, DistinctPorts, OnePort, RowsOf, OnPort
<1>7. CASE RemoveUser
  BY <1>4, <1>7 DEF RemoveUser
<1>8. ASSUME NEW u \in User, AllocateAtBoot(u)
      PROVE  OneByOne' /\ (\A h \in Goroutine : Unused(h)') /\ DistinctPorts' /\ OnePort'
  <2>1. PICK p \in EmptyPorts : rows' = rows \cup {NewRow(u, p)}
    BY <1>8 DEF AllocateAtBoot
  <2>2. Busy = {} /\ UNCHANGED goroutines /\ RowsOf({u}) = {}
    BY <1>8 DEF AllocateAtBoot, AloneInv
  <2>3. OneByOne' /\ \A h \in Goroutine : Unused(h)'
    BY <2>2 DEF goroutines, Busy, OneByOne, Allocating, Unused
  <2>4. DistinctPorts' /\ OnePort'
    BY <2>1, <2>2 DEF DistinctPorts, OnePort, RowsOf, OnPort, EmptyPorts, NewRow
  <2> QED BY <2>3, <2>4
<1>9. ASSUME SaveUser \/ SlaveRestart \/ UNCHANGED <<vars, events>>
             \/ (Monitoring /\ ~RemoveUser /\ ~\E u \in User : AllocateAtBoot(u))
      PROVE  UNCHANGED <<rows, goroutines>>
  BY <1>9 DEF SaveUser, SlaveRestart, Monitoring, Snapshot, GetStats, RecordFlow,
              CheckUserLimit, Booted,
              AllocateMissing, FreeExtra, db, vars
<1>10. CASE MasterCrash
  <2>1. UNCHANGED rows /\ \A g \in Goroutine : pc'[g] = "idle"
    BY <1>10 DEF MasterCrash, Gone, db
  <2> QED BY <2>1 DEF OneByOne, Allocating, Unused, DistinctPorts, OnePort
<1>11. ASSUME NEW g \in Goroutine, Work(g)
       PROVE  (Save(g) /\ rows' = rows \cup {row[g]}) \/ ~Save(g) \/ UNCHANGED rows
  BY DEF Save
<1> QED
  BY <1>2, <1>3, <1>5, <1>6, <1>7, <1>8, <1>9, <1>10, <1>11 DEF AllocNext, Monitoring

\* A port is allocated to one user and a user has one port, whatever fails and
\* whoever crashes, unless a request overlaps the goroutine of another one.
THEOREM PortsAreOneToOne == AllocSpec => []OneToOne
<1>1. OneToOneInv => OneToOne BY DEF OneToOneInv, OneToOne
<1> QED
  BY <1>1, InvAlways, AloneInit, AloneStep, OneToOneInit, OneToOneStep, PTL DEF AllocSpec

-----------------------------------------------------------------------------
(* Limits are enforced *)

\* Nothing was ever allocated to a user, nor does updateStats think so.
Fresh(u) == u \notin recorded /\ \A r \in rows \cup expected : r.user # u

\* Without changes of the group goroutines allocate for new users only, who
\* cannot be disabled before they have an allocation and a flow record.
ForNewUser(g) ==
    /\ again[g] => pc[g] \in {"find", "choose", "save", "allocate"}
    /\ Finding(g) => \A u \in who[g] : users[u] = "enabled" /\ Fresh(u)
    /\ pc[g] = "save" => row[g].user \in who[g]
OwnUser == \A g, h \in Goroutine : Finding(g) /\ Finding(h) /\ g # h => who[g] \cap who[h] = {}

Removing(u) == \E g \in Goroutine : pc[g] \in {"scan", "delete"} /\ u \in who[g]
Removed == \A r \in rows : users[r.user] = "disabled" => Removing(r.user)
UnknownIsFresh == \A u \in User : users[u] = "unknown" => Fresh(u)
AllForNew == \A g \in Goroutine : ForNewUser(g)

Limits == saving = None /\ AllForNew /\ OwnUser /\ Removed /\ UnknownIsFresh
LimitInv == Without({"change", "crash", "dbfail"}) => Limits

LEMMA LimitInit == AllocInit => LimitInv
BY DEF AllocInit, NoMemory, LimitInv, Limits, AllForNew, ForNewUser, OwnUser, Removed,
       UnknownIsFresh, Fresh, Finding

\* The steps of goroutines
LEMMA LimitWork ==
    ASSUME Inv, AloneInv, Limits, NEW g \in Goroutine, Work(g), ~Happens("dbfail")
    PROVE  Limits'
<1>0. GoTypeOK /\ users \in [User -> Status] /\ rows \subseteq Row
  BY DEF Inv, AllocTypeOK, GoTypeOK
<1>1. /\ Others(g)
      /\ pc[g] # "idle" /\ (pc'[g] # "idle" => again'[g] = again[g] /\ who'[g] = who[g])
  BY <1>0, WorkOthers
<1>2. UNCHANGED <<users, recorded, expected, saving>>
  BY DEF Work, Scan, Delete, FreeOne, FreeDone, Find, Choose, Save, AllocateServer, db, updating
<1>3. ForNewUser(g) BY DEF Limits, AllForNew
<1>4. CASE Save(g)
  <2>1. /\ pc[g] = "save" /\ pc' = [pc EXCEPT ![g] = "allocate"]
        /\ rows' = rows \cup {row[g]} /\ UNCHANGED <<who, row, again>>
    BY <1>4 DEF Save, Goto
  <2>2. row[g].user \in who[g] /\ users[row[g].user] = "enabled"
    BY <1>3, <2>1 DEF ForNewUser, Finding
  <2>3. \A u \in User : u # row[g].user /\ Fresh(u) => Fresh(u)'
    BY <1>2, <2>1 DEF Fresh
  <2>4. AllForNew'
    <3>1. ForNewUser(g)' BY <1>0, <2>1 DEF ForNewUser, Finding, GoTypeOK
    <3>2. ASSUME NEW h \in Goroutine \ {g} PROVE ForNewUser(h)'
      <4>1. ForNewUser(h) BY DEF Limits, AllForNew
      <4>2. Finding(h) => row[g].user \notin who[h]
        BY <2>1, <2>2 DEF Limits, OwnUser, Finding
      <4>3. who[h] \subseteq User BY <1>0 DEF GoTypeOK
      <4> QED BY <1>1, <1>2, <2>3, <4>1, <4>2, <4>3 DEF ForNewUser, Finding, Others
    <3> QED BY <3>1, <3>2 DEF AllForNew
  <2>5. OwnUser' BY <1>0, <2>1 DEF Limits, OwnUser, Finding, GoTypeOK
  <2>6. Removed' BY <1>0, <1>2, <2>1, <2>2 DEF Limits, Removed, Removing, GoTypeOK
  <2>7. UnknownIsFresh' BY <1>2, <2>2, <2>3 DEF Limits, UnknownIsFresh
  <2> QED BY <1>2, <2>4, <2>5, <2>6, <2>7 DEF Limits
<1>5. CASE ~Save(g)
  <2>1. rows' \subseteq rows
    BY <1>5 DEF Work, Scan, Delete, FreeOne, FreeDone, Find, Choose, AllocateServer, db
  <2>2. \A u \in User : Fresh(u) => Fresh(u)'
    BY <1>2, <2>1 DEF Fresh
  <2>3. CASE Finish(g)
    <3>1. pc'[g] = "idle" /\ again'[g] = FALSE BY <1>0, <2>3, FinishFacts DEF Finish, Goto, GoTypeOK
    <3>2. AllForNew'
      BY <1>0, <1>1, <1>2, <2>2, <3>1
         DEF Limits, AllForNew, ForNewUser, Finding, Others, GoTypeOK
    <3>3. OwnUser' BY <1>1, <3>1 DEF Limits, OwnUser, Finding, Others
    <3>4. pc[g] \notin {"scan", "delete"}
      BY <1>0, <1>5, <2>3, <3>1 DEF Work, Scan, Delete, FreeOne, FreeDone, Find, Choose,
                              AllocateServer, Goto, GoTypeOK
    <3>5. Removed' BY <1>1, <1>2, <2>1, <3>4 DEF Limits, Removed, Removing, Others
    <3> QED BY <1>2, <2>2, <3>2, <3>3, <3>5 DEF Limits, UnknownIsFresh
  <2>4. CASE ~Finish(g)
    <3>1. ForNewUser(g)' /\ (Finding(g)' => Finding(g)) /\ UNCHANGED <<who, again>>
      <4>1. CASE Scan(g) BY <1>0, <1>3, <4>1 DEF Scan, Goto, ForNewUser, Finding, GoTypeOK
      <4>2. CASE Delete(g) BY <1>0, <1>3, <4>2 DEF Delete, Goto, ForNewUser, Finding, GoTypeOK
      <4>3. CASE FreeDone(g) BY <1>3, <2>4, <4>3 DEF FreeDone, ForNewUser
      <4>4. CASE Find(g)
        BY <1>0, <1>2, <1>3, <2>1, <2>2, <4>4 DEF Find, Goto, ForNewUser, Finding, GoTypeOK
      <4>5. CASE Choose(g)
        <5>1. PICK p \in EmptyPorts, u \in who[g] : row' = [row EXCEPT ![g] = NewRow(u, p)]
          BY <2>4, <4>5 DEF Choose
        <5>2. pc' = [pc EXCEPT ![g] = "save"] /\ UNCHANGED <<who, again>>
          BY <2>4, <4>5 DEF Choose, Goto
        <5>3. pc[g] = "choose" BY <4>5 DEF Choose
        <5> QED
          BY <1>0, <1>2, <1>3, <2>2, <5>1, <5>2, <5>3
             DEF ForNewUser, Finding, GoTypeOK, NewRow
      <4>6. CASE AllocateServer(g) BY <2>4, <4>6 DEF AllocateServer
      <4>7. ASSUME NEW p \in Port, FreeOne(g, p)
            PROVE  ForNewUser(g)' /\ (Finding(g)' => Finding(g)) /\ UNCHANGED <<who, again>>
        BY <1>3, <4>7 DEF FreeOne, ForNewUser, Finding
      <4> QED BY <1>5, <4>1, <4>2, <4>3, <4>4, <4>5, <4>6, <4>7 DEF Work
    <3>2. AllForNew'
      BY <1>0, <1>1, <1>2, <2>2, <3>1
         DEF Limits, AllForNew, ForNewUser, Finding, Others, GoTypeOK
    <3>3. OwnUser' BY <1>1, <3>1 DEF Limits, OwnUser, Finding, Others
    <3>4. Removed'
      <4>1. ASSUME NEW r \in rows', users'[r.user] = "disabled" PROVE Removing(r.user)'
        <5>1. PICK h \in Goroutine : pc[h] \in {"scan", "delete"} /\ r.user \in who[h]
          BY <1>2, <2>1, <4>1 DEF Limits, Removed, Removing
        <5>2. CASE h # g BY <1>1, <5>1, <5>2 DEF Removing, Others
        <5>3. CASE h = g /\ pc[g] = "scan"
          <6>1. pc'[g] = "delete"
            BY <1>0, <1>5, <5>3 DEF Work, Scan, Delete, FreeOne, FreeDone, Find, Choose,
                                    AllocateServer, Goto, GoTypeOK
          <6> QED BY <3>1, <5>1, <5>3, <6>1 DEF Removing
        <5>4. CASE h = g /\ pc[g] = "delete"
          <6>1. rows' = rows \ RowsOf(who[g])
            BY <1>5, <5>4 DEF Work, Scan, Delete, FreeOne, FreeDone, Find, Choose,
                              AllocateServer
          <6> QED BY <2>1, <5>1, <5>4, <6>1 DEF RowsOf
        <5> QED BY <5>1, <5>2, <5>3, <5>4
      <4> QED BY <4>1 DEF Removed
    <3> QED BY <1>2, <2>2, <3>2, <3>3, <3>4 DEF Limits, UnknownIsFresh
  <2> QED BY <2>3, <2>4
<1> QED BY <1>4, <1>5

\* The steps that spawn goroutines
LEMMA LimitCreate ==
    ASSUME Inv, Limits, NEW u \in User, CreateUser(u)
    PROVE  Limits'
<1>0. GoTypeOK /\ users \in [User -> Status] /\ rows \subseteq Row
  BY DEF Inv, AllocTypeOK, GoTypeOK
<1>1. /\ users[u] = "unknown" /\ users' = [users EXCEPT ![u] = "enabled"]
      /\ UNCHANGED <<rows, recorded, expected, saving>>
  BY DEF CreateUser, updating
<1>2. PICK g \in Goroutine : pc[g] = "idle" /\ Becomes(g, "find", {u}, TRUE) /\ UNCHANGED row
  BY <1>0, Spawned DEF CreateUser
<1>3. Fresh(u) /\ \A v \in User : Fresh(v) => Fresh(v)'
  BY <1>1 DEF Limits, UnknownIsFresh, Fresh
<1>4. ForNewUser(g)' BY <1>0, <1>1, <1>2, <1>3 DEF Becomes, ForNewUser, Finding
<1>5. ASSUME NEW h \in Goroutine \ {g} PROVE ForNewUser(h)' /\ (Finding(h) => u \notin who[h])
  <2>1. ForNewUser(h) /\ who[h] \subseteq User BY <1>0 DEF Limits, AllForNew, GoTypeOK
  <2>2. Finding(h) => u \notin who[h] BY <1>1, <2>1 DEF ForNewUser
  <2> QED BY <1>0, <1>1, <1>2, <1>3, <2>1, <2>2 DEF Becomes, ForNewUser, Finding
<1>6. AllForNew' BY <1>4, <1>5 DEF AllForNew
<1>7. OwnUser' BY <1>2, <1>5 DEF Limits, OwnUser, Becomes, Finding
<1>8. Removed'
  BY <1>0, <1>1, <1>2 DEF Limits, Removed, Removing, Becomes, Row
<1>9. UnknownIsFresh' BY <1>0, <1>1, <1>3 DEF Limits, UnknownIsFresh
<1> QED BY <1>1, <1>6, <1>7, <1>8, <1>9 DEF Limits

LEMMA LimitRemove ==
    ASSUME Inv, Limits, RemoveUser, ~Happens("dbfail")
    PROVE  Limits'
<1>0. GoTypeOK /\ users \in [User -> Status] /\ rows \subseteq Row /\ over \subseteq recorded
  BY DEF Inv, AllocTypeOK, GoTypeOK
<1>1. UNCHANGED <<rows, recorded, expected, saving>> BY DEF RemoveUser
<1>2. \A v \in User : Fresh(v) => Fresh(v)' BY <1>1 DEF Fresh
<1>3. users' = [u \in User |-> IF u \in over THEN "disabled" ELSE users[u]]
  BY DEF RemoveUser
<1>4. PICK g \in Goroutine : pc[g] = "idle" /\ Becomes(g, "scan", over, FALSE) /\ UNCHANGED row
  BY <1>0, Spawned DEF RemoveUser
<1>5. ForNewUser(g)' BY <1>4 DEF Becomes, ForNewUser, Finding
<1>6. ASSUME NEW h \in Goroutine \ {g} PROVE ForNewUser(h)'
  <2>1. ForNewUser(h) /\ who[h] \subseteq User BY <1>0 DEF Limits, AllForNew, GoTypeOK
  <2>2. \A u \in User : Fresh(u) /\ users[u] = "enabled" => users'[u] = "enabled"
    BY <1>0, <1>3 DEF Fresh
  <2> QED BY <1>2, <1>4, <2>1, <2>2 DEF Becomes, ForNewUser, Finding
<1>7. AllForNew' BY <1>5, <1>6 DEF AllForNew
<1>8. OwnUser' BY <1>4 DEF Limits, OwnUser, Becomes, Finding
<1>9. Removed'
  BY <1>0, <1>1, <1>3, <1>4 DEF Limits, Removed, Removing, Becomes, Row
<1>10. UnknownIsFresh' BY <1>2, <1>3 DEF Limits, UnknownIsFresh
<1> QED BY <1>1, <1>7, <1>8, <1>9, <1>10 DEF Limits

\* What updateStats does to the tables and to what it has read of them.
LEMMA LimitUpdate ==
    ASSUME Inv, Limits, UNCHANGED <<users, rows, saving, goroutines>>,
           recorded' \subseteq recorded \cup {r.user : r \in expected},
           expected' \subseteq rows \cup expected
    PROVE  Limits'
<1>1. \A u \in User : Fresh(u) => Fresh(u)' BY DEF Fresh
<1>2. who \in [Goroutine -> SUBSET User] BY DEF Inv, AllocTypeOK
<1>3. AllForNew'
  BY <1>1, <1>2 DEF Limits, AllForNew, ForNewUser, Finding, goroutines
<1> QED
  BY <1>1, <1>3 DEF Limits, OwnUser, Removed, Removing, UnknownIsFresh, Finding, goroutines

LEMMA LimitStep ==
    ASSUME Inv, AloneInv, LimitInv, [AllocNext]_<<vars, events>>
    PROVE  LimitInv'
<1> events' = events BY DEF AllocNext
<1> SUFFICES ASSUME Without({"change", "crash", "dbfail"}), Limits PROVE Limits'
  BY DEF LimitInv, Without
<1>0. ~Happens("dbfail") BY DEF Happens, Without
<1>1. ASSUME NEW g \in Goroutine, Work(g) PROVE Limits' BY <1>0, <1>1, LimitWork
<1>2. ASSUME NEW u \in User, CreateUser(u) PROVE Limits' BY <1>2, LimitCreate
<1>3. ~MasterCrash /\ ~SaveUser /\ \A u \in User : ~ChangeUserGroup(u)
  BY DEF MasterCrash, SaveUser, ChangeUserGroup, Happens, Without, Limits
<1>4. CASE RemoveUser BY <1>0, <1>4, LimitRemove
<1>5. ASSUME NEW u \in User, AllocateAtBoot(u) PROVE Limits'
  <2>1. PICK p \in EmptyPorts : rows' = rows \cup {NewRow(u, p)}
    BY <1>5 DEF AllocateAtBoot
  <2>2. /\ Busy = {} /\ users[u] = "enabled"
        /\ UNCHANGED <<users, recorded, expected, saving, goroutines>>
    BY <1>5 DEF AllocateAtBoot, AloneInv, updating
  <2>3. \A v \in User : v # u /\ Fresh(v) => Fresh(v)' BY <2>1, <2>2 DEF Fresh, NewRow
  <2>4. AllForNew'
    BY <2>2 DEF Limits, AllForNew, ForNewUser, Finding, Busy, goroutines
  <2>5. Removed' BY <2>1, <2>2 DEF Limits, Removed, Removing, NewRow, goroutines
  <2>6. UnknownIsFresh' BY <2>2, <2>3 DEF Limits, UnknownIsFresh
  <2> QED BY <2>2, <2>4, <2>5, <2>6 DEF Limits, OwnUser, Finding, goroutines
<1>6. CASE RecordFlow
  <2>1. PICK m \in PortMaps(expected) :
           recorded' = recorded \cup {m[p].user : p \in actual \cap DOMAIN m}
    BY <1>6 DEF RecordFlow
  <2>2. \A p \in DOMAIN m : m[p] \in expected BY <2>1 DEF PortMaps
  <2>3. recorded' \subseteq recorded \cup {r.user : r \in expected} BY <2>1, <2>2
  <2> QED BY <1>6, <2>3, LimitUpdate DEF RecordFlow
<1>7. ASSUME SlaveRestart \/ UNCHANGED <<vars, events>> \/ Snapshot \/ GetStats \/ Booted
             \/ CheckUserLimit \/ \E p \in Port : AllocateMissing(p) \/ FreeExtra(p)
      PROVE  Limits'
  <2>1. UNCHANGED <<users, rows, saving, goroutines, recorded>>
        /\ expected' \subseteq rows \cup expected
    BY <1>7 DEF SlaveRestart, Snapshot, GetStats, Booted, CheckUserLimit, AllocateMissing, FreeExtra, db,
                updating, vars
  <2> QED BY <2>1, LimitUpdate
<1> QED
  BY <1>1, <1>2, <1>3, <1>4, <1>5, <1>6, <1>7 DEF AllocNext, Monitoring

\* When the goroutines are done no disabled user has an allocation, however
\* requests, goroutines and Monitoring interleave and whatever RPCs fail,
\* unless groups are changed, a query fails or the master crashes.
THEOREM LimitsAreEnforced == AllocSpec => []LimitEnforced
<1>1. LimitInv => LimitEnforced
  BY DEF LimitInv, Limits, Removed, Removing, LimitEnforced, Busy
<1> QED
  BY <1>1, InvAlways, AloneInit, AloneStep, LimitInit, LimitStep, PTL DEF AllocSpec
=============================================================================
