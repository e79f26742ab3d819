----------------------------- MODULE Allocation -----------------------------
(***************************************************************************)
(* The master's allocation of ports to users on one slave: the handlers    *)
(* and goroutines of master/user.go, the Monitoring loop of                *)
(* master/slave.go, the tables users, allocation and flow_record, and the  *)
(* slave, which is a PortTable.                                            *)
(*                                                                         *)
(* Nothing in the master locks or opens a transaction: every query, and    *)
(* every RPC, is a step of its own.  RPCs and the queries that write       *)
(* allocations or disable users may fail; nobody looks at the errors of    *)
(* these queries.  Queries that read, and those that write users as a      *)
(* whole, do not fail in the model.                                        *)
(***************************************************************************)
EXTENDS PortTable, Integers, FiniteSets

CONSTANTS
    User,       \* users, in the order of their ids
    Goroutine,  \* goroutines that CreateUser, ChangeUserGroup, RemoveUser spawn
    Regimes,    \* environments: sets of the events that may happen in one
    MaxEvents   \* bound on crashes, restarts, failures and group changes

ASSUME UsersAreOrdered == User \subseteq Nat
ASSUME PortsAreNumbers == Port \subseteq Nat
ASSUME MaxEventsType == MaxEvents \in Nat
ASSUME PasswordsExist == Password # {}

Row == [user : User, port : Port, password : Password]
GoPC == {"idle", "find", "choose", "save", "allocate", "scan", "delete", "free"}
MonitorPC == {"boot", "snapshot", "stats", "repair", "limit", "remove"}
Status == {"unknown", "enabled", "disabled"}

\* What may happen in a behaviour, chosen once and for all.  overlap: a
\* request arrives while a goroutine is at work.  change: users change their
\* group.  limit: users reach their limit.  fault: an RPC fails.  dbfail: a
\* query does.  restart: the slave restarts.  crash: the master does.
VARIABLE events

VARIABLES
    users,      \* table users: [User -> Status]
    rows,       \* table allocation, without a primary key
    recorded,   \* table flow_record: the users that have a record
    saving,     \* what ChangeUserGroup has read and will save, or None
    pc, who,    \* per goroutine: where it is and the users it works for
    row,        \* per goroutine: the allocation it found or made
    pending,    \* per goroutine: the ports it has yet to free
    again,      \* per goroutine: does allocateForUser follow
    monitor,    \* where Monitoring() is
    expected,   \* updateStats: the allocations it has read
    actual,     \* updateStats: the ports that GetStats reported
    toAlloc, toFree,
    over,       \* checkUserLimit: the users it has found to be over their limit
    happened    \* how many of the bounded events there were

slave == <<table, disk>>
db == <<users, rows, recorded>>
goroutines == <<pc, who, row, pending, again>>
updating == <<monitor, expected, actual, toAlloc, toFree, over>>
vars == <<slave, db, saving, goroutines, updating, happened>>

AllocTypeOK ==
    /\ PTTypeOK
    /\ users \in [User -> Status] /\ rows \subseteq Row /\ recorded \subseteq User
    /\ saving \in [user : User, status : Status] \cup {None}
    /\ pc \in [Goroutine -> GoPC]
    /\ who \in [Goroutine -> SUBSET User]
    /\ row \in [Goroutine -> Row \cup {None}]
    /\ pending \in [Goroutine -> SUBSET Port]
    /\ again \in [Goroutine -> BOOLEAN]
    /\ monitor \in MonitorPC /\ expected \subseteq Row
    /\ actual \subseteq Port /\ toAlloc \subseteq Port /\ toFree \subseteq Port
    /\ over \subseteq recorded
    /\ happened \in 0 .. MaxEvents

NoMemory ==
    /\ saving = None
    /\ pc = [g \in Goroutine |-> "idle"]
    /\ who = [g \in Goroutine |-> {}]
    /\ row = [g \in Goroutine |-> None]
    /\ pending = [g \in Goroutine |-> {}]
    /\ again = [g \in Goroutine |-> FALSE]
    /\ monitor = "boot"
    /\ expected = {} /\ actual = {} /\ toAlloc = {} /\ toFree = {} /\ over = {}

AllocInit ==
    /\ events \in Regimes
    /\ Init /\ NoMemory
    /\ users = [u \in User |-> "unknown"]
    /\ rows = {} /\ recorded = {} /\ happened = 0

-----------------------------------------------------------------------------
(* Helpers *)

RowsOf(us) == {r \in rows : r.user \in us}
OnPort(rs, p) == {r \in rs : r.port = p}
Known == {u \in User : users[u] # "unknown"}

First(x, xs) == \A y \in xs : x <= y

\* Bug: a port is empty if the slave does not serve it.
UnservedPorts == {p \in Port : table[p] = None}

\* The ports that no allocation in the table has.
EmptyPorts == {p \in Port : OnPort(rows, p) = {}}

\* RandomPassword never repeats one in use, in an instance with enough of them.
Used ==
    {r.password : r \in rows \cup expected}
        \cup {row[g].password : g \in {h \in Goroutine : row[h] # None}}
        \cup {table[p] : p \in Port} \cup {disk[p] : p \in Port}
RandomPassword ==
    CHOOSE w \in Password : w \in Used => Password \subseteq Used
NewRow(u, p) == [user |-> u, port |-> p, password |-> RandomPassword]

Happens(kind) ==
    /\ kind \in events /\ happened < MaxEvents
    /\ happened' = happened + 1

-----------------------------------------------------------------------------
(* The RPCs.  The master only logs their errors, so an RPC whose answer is *)
(* lost is like one that succeeds.                                         *)

\* Add: Attempt and Admit, or an error if the port is served; if it fails
\* it may leave the configuration behind.
AllocateRPC(p, w) ==
    \/ /\ table[p] = None
       /\ table' = [table EXCEPT ![p] = w]
       /\ disk' = [disk EXCEPT ![p] = w]
       /\ UNCHANGED happened
    \/ table[p] # None /\ UNCHANGED <<slave, happened>>
    \/ Happens("fault") /\ (Attempt(p, w) \/ UNCHANGED slave)

\* Remove: Release and Forget, or an error.
FreeRPC(p) ==
    \/ /\ table' = [table EXCEPT ![p] = None]
       /\ disk' = IF table[p] # None THEN [disk EXCEPT ![p] = None] ELSE disk
       /\ UNCHANGED happened
    \/ Happens("fault") /\ UNCHANGED slave

\* The slave crashes and Restore brings back what it finds and can start.
SlaveRestart ==
    /\ Happens("restart")
    /\ \E kept \in SUBSET Port :
          /\ table' = [p \in Port |-> IF p \in kept THEN disk[p] ELSE None]
          /\ disk' = [p \in Port |-> IF p \in kept THEN disk[p] ELSE None]
    /\ UNCHANGED <<db, saving, goroutines, updating>>

-----------------------------------------------------------------------------
(* The goroutines: removeUserAllocation and allocateForUser.               *)

Busy == {g \in Goroutine : pc[g] # "idle"}
MayRequest == monitor # "boot" /\ ("overlap" \in events \/ Busy = {})

\* Which idle goroutine is taken makes no difference.
Spawn(here, us, allocates) ==
    /\ Goroutine \ Busy # {}
    /\ LET g == CHOOSE g \in Goroutine : pc[g] = "idle" IN
          /\ pc' = [pc EXCEPT ![g] = here]
          /\ who' = [who EXCEPT ![g] = us]
          /\ again' = [again EXCEPT ![g] = allocates]
          /\ UNCHANGED <<row, pending>>

Goto(g, here) == pc' = [pc EXCEPT ![g] = here]

Finish(g) ==
    /\ Goto(g, "idle")
    /\ who' = [who EXCEPT ![g] = {}]
    /\ row' = [row EXCEPT ![g] = None]
    /\ pending' = [pending EXCEPT ![g] = {}]
    /\ again' = [again EXCEPT ![g] = FALSE]

\* Bug: the allocations are left in the table.
ScanFrees(g) ==
    /\ pc[g] = "scan"
    /\ pending' = [pending EXCEPT ![g] = {r.port : r \in RowsOf(who[g])}]
    /\ Goto(g, "free")
    /\ UNCHANGED <<slave, db, saving, who, row, again, updating, happened>>

\* removeUserAllocation reads the allocations,
Scan(g) ==
    /\ pc[g] = "scan"
    /\ pending' = [pending EXCEPT ![g] = {r.port : r \in RowsOf(who[g])}]
    /\ Goto(g, "delete")
    /\ UNCHANGED <<slave, db, saving, who, row, again, updating, happened>>

\* deletes whatever allocations the users have by now,
Delete(g) ==
    /\ pc[g] = "delete"
    /\ \/ rows' = rows \ RowsOf(who[g]) /\ UNCHANGED happened
       \/ Happens("dbfail") /\ UNCHANGED rows
    /\ Goto(g, "free")
    /\ UNCHANGED <<slave, users, recorded, saving, who, row, pending, again, updating>>

\* and frees the ports it has read, one by one.
FreeOne(g, p) ==
    /\ pc[g] = "free" /\ p \in pending[g]
    /\ FreeRPC(p)
    /\ pending' = [pending EXCEPT ![g] = @ \ {p}]
    /\ UNCHANGED <<db, saving, pc, who, row, again, updating>>

FreeDone(g) ==
    /\ pc[g] = "free" /\ pending[g] = {}
    /\ \/ ~again[g] /\ Finish(g)
       \/ again[g] /\ Goto(g, "find") /\ UNCHANGED <<who, row, pending, again>>
    /\ UNCHANGED <<slave, db, saving, updating, happened>>

\* Bug: an allocation that FirstOrInit only initialised is taken for one.
FindUnchecked(g) ==
    /\ pc[g] = "find"
    /\ Goto(g, "save")
    /\ UNCHANGED <<slave, db, saving, who, row, pending, again, updating, happened>>

\* findOrInitAllocation: take an allocation that exists,
Find(g) ==
    /\ pc[g] = "find"
    /\ \/ \E r \in RowsOf(who[g]) :
             row' = [row EXCEPT ![g] = r] /\ Goto(g, "allocate")
       \/ RowsOf(who[g]) = {} /\ Goto(g, "choose") /\ UNCHANGED row
    /\ UNCHANGED <<slave, db, saving, who, pending, again, updating, happened>>

\* or read all allocations of the server and choose the first empty port,
Choose(g) ==
    /\ pc[g] = "choose"
    /\ \/ EmptyPorts = {} /\ Finish(g)
       \/ /\ \E p \in EmptyPorts, u \in who[g] :
                /\ First(p, EmptyPorts)
                /\ row' = [row EXCEPT ![g] = NewRow(u, p)]
          /\ Goto(g, "save")
          /\ UNCHANGED <<who, pending, again>>
    /\ UNCHANGED <<slave, db, saving, updating, happened>>

\* Bug: the allocation is not inserted.
SaveNothing(g) ==
    /\ pc[g] = "save"
    /\ Goto(g, "allocate")
    /\ UNCHANGED <<slave, db, saving, who, row, pending, again, updating, happened>>

\* and insert it.
Save(g) ==
    /\ pc[g] = "save"
    /\ \/ rows' = rows \cup {row[g]} /\ UNCHANGED happened
       \/ Happens("dbfail") /\ UNCHANGED rows
    /\ Goto(g, "allocate")
    /\ UNCHANGED <<slave, users, recorded, saving, who, row, pending, again, updating>>

AllocateServer(g) ==
    /\ pc[g] = "allocate"
    /\ AllocateRPC(row[g].port, row[g].password)
    /\ Finish(g)
    /\ UNCHANGED <<db, saving, updating>>

-----------------------------------------------------------------------------
(* The handlers *)

CreateUser(u) ==
    /\ MayRequest /\ users[u] = "unknown"
    /\ users' = [users EXCEPT ![u] = "enabled"]
    /\ Spawn("find", {u}, TRUE)
    /\ UNCHANGED <<slave, rows, recorded, saving, updating, happened>>

\* It reads the first user of the table, whatever user it is called for,
ChangeUserGroup(u) ==
    /\ MayRequest /\ u \in Known /\ saving = None
    /\ Happens("change")
    /\ \E v \in Known :
          First(v, Known) /\ saving' = [user |-> v, status |-> users[v]]
    /\ Spawn("scan", {u}, TRUE)
    /\ UNCHANGED <<slave, db, updating>>

\* and writes all of it back.
SaveUser ==
    /\ saving # None
    /\ users' = [users EXCEPT ![saving.user] = saving.status]
    /\ saving' = None
    /\ UNCHANGED <<slave, rows, recorded, goroutines, updating, happened>>

-----------------------------------------------------------------------------
(* Monitoring *)

Snapshot ==
    /\ monitor = "snapshot"
    /\ expected' = rows
    /\ monitor' = "stats"
    /\ UNCHANGED <<slave, db, saving, goroutines, actual, toAlloc, toFree, over, happened>>

\* Bug: the two slices are mixed up.
CounterSwapped(as, bs, p) ==
    Cardinality(OnPort(as, p)) - (IF p \in bs THEN 1 ELSE 0)

\* diffPorts counts for every port its reports minus its allocations; a port
\* is missing if that is -1 and should not exist if it is 1.
Counter(as, bs, p) ==
    (IF p \in bs THEN 1 ELSE 0) - Cardinality(OnPort(as, p))
Missing(as, bs) == {p \in Port : Counter(as, bs, p) = -1}
Extra(as, bs) == {p \in Port : Counter(as, bs, p) = 1}

\* One allocation for every allocated port; of several, the last one read.
PortMaps(as) ==
    {m \in [{r.port : r \in as} -> as] : \A p \in DOMAIN m : m[p].port = p}

GetStats ==
    /\ monitor = "stats"
    /\ \/ /\ actual' = {p \in Port : table[p] # None}
          /\ toAlloc' = Missing(expected, actual')
          /\ toFree' = Extra(expected, actual')
          /\ monitor' = "repair"
          /\ UNCHANGED <<expected, happened>>
       \/ /\ Happens("fault")
          /\ expected' = {}
          /\ monitor' = "limit"
          /\ UNCHANGED <<actual, toAlloc, toFree>>
    /\ UNCHANGED <<slave, db, saving, goroutines, over>>

AllocateMissing(p) ==
    /\ monitor = "repair" /\ p \in toAlloc
    /\ \E r \in OnPort(expected, p) : AllocateRPC(p, r.password)
    /\ toAlloc' = toAlloc \ {p}
    /\ UNCHANGED <<db, saving, goroutines, monitor, expected, actual, toFree, over>>

FreeExtra(p) ==
    /\ monitor = "repair" /\ toAlloc = {} /\ p \in toFree
    /\ FreeRPC(p)
    /\ toFree' = toFree \ {p}
    /\ UNCHANGED <<db, saving, goroutines, monitor, expected, actual, toAlloc, over>>

RecordFlow ==
    /\ monitor = "repair" /\ toAlloc = {} /\ toFree = {}
    /\ \E portMap \in PortMaps(expected) :
          recorded' = recorded \cup {portMap[p].user : p \in actual \cap DOMAIN portMap}
    /\ monitor' = "limit"
    /\ expected' = {} /\ actual' = {}
    /\ UNCHANGED <<slave, users, rows, saving, goroutines, toAlloc, toFree, over, happened>>

\* checkUserLimit: enabled users with a flow record may be over their limit.
CheckUserLimit ==
    /\ monitor = "limit"
    /\ over' \in SUBSET {u \in recorded : users[u] = "enabled"}
    /\ \/ over' = {} /\ monitor' = "snapshot"
       \/ over' # {} /\ "limit" \in events /\ monitor' = "remove"
    /\ UNCHANGED <<slave, db, saving, goroutines, expected, actual, toAlloc, toFree,
                   happened>>

\* RemoveUser, for all of them at once
RemoveUser ==
    /\ monitor = "remove"
    /\ \/ /\ users' = [u \in User |-> IF u \in over THEN "disabled" ELSE users[u]]
          /\ UNCHANGED happened
       \/ Happens("dbfail") /\ UNCHANGED users
    /\ Spawn("scan", over, FALSE)
    /\ over' = {}
    /\ monitor' = "snapshot"
    /\ UNCHANGED <<slave, rows, recorded, saving, expected, actual, toAlloc, toFree>>

-----------------------------------------------------------------------------
(* The master starts, and crashes.                                         *)

\* AllocateAllUsers, before anything else runs; without a free port, or if the
\* insertion fails, it goes on with the next user.
AllocateAtBoot(u) ==
    /\ monitor = "boot"
    /\ users[u] = "enabled" /\ RowsOf({u}) = {}
    /\ \E p \in EmptyPorts :
          First(p, EmptyPorts) /\ rows' = rows \cup {NewRow(u, p)}
    /\ UNCHANGED <<slave, users, recorded, saving, goroutines, updating, happened>>

\* Bug: users who have no allocation are left alone.
BootedAnyway ==
    /\ monitor = "boot"
    /\ monitor' = "snapshot"
    /\ UNCHANGED <<slave, db, saving, goroutines, expected, actual, toAlloc, toFree, over,
                   happened>>

Booted ==
    /\ monitor = "boot"
    /\ \/ /\ \A u \in User : users[u] = "enabled" => RowsOf({u}) # {} \/ EmptyPorts = {}
          /\ UNCHANGED happened
       \/ Happens("dbfail")
    /\ monitor' = "snapshot"
    /\ UNCHANGED <<slave, db, saving, goroutines, expected, actual, toAlloc, toFree, over>>

Gone ==
    /\ saving' = None
    /\ pc' = [g \in Goroutine |-> "idle"]
    /\ who' = [g \in Goroutine |-> {}]
    /\ row' = [g \in Goroutine |-> None]
    /\ pending' = [g \in Goroutine |-> {}]
    /\ again' = [g \in Goroutine |-> FALSE]
    /\ monitor' = "boot"
    /\ expected' = {} /\ actual' = {} /\ toAlloc' = {} /\ toFree' = {} /\ over' = {}

MasterCrash ==
    /\ Happens("crash")
    /\ Gone
    /\ UNCHANGED <<slave, db>>

-----------------------------------------------------------------------------
Work(g) ==
    \/ Scan(g) \/ Delete(g) \/ FreeDone(g) \/ Find(g) \/ Choose(g) \/ Save(g)
    \/ AllocateServer(g)
    \/ \E p \in Port : FreeOne(g, p)

Monitoring ==
    \/ Snapshot \/ GetStats \/ RecordFlow \/ CheckUserLimit \/ RemoveUser \/ Booted
    \/ \E p \in Port : AllocateMissing(p) \/ FreeExtra(p)
    \/ \E u \in User : AllocateAtBoot(u)

AllocNext ==
    /\ \/ \E g \in Goroutine : Work(g)
       \/ \E u \in User : CreateUser(u) \/ ChangeUserGroup(u)
       \/ SaveUser \/ Monitoring \/ SlaveRestart \/ MasterCrash
    /\ UNCHANGED events

AllocSpec == AllocInit /\ [][AllocNext]_<<vars, events>>
-----------------------------------------------------------------------------
(* Properties *)

Without(kinds) == events \cap kinds = {}
DistinctPorts == \A r, s \in rows : r.port = s.port => r = s
OnePort == \A r, s \in rows : r.user = s.user => r = s

\* A port is allocated to one user and a user has one port on a server, as
\* the table flow_record assumes, if no request arrives while a goroutine of
\* an earlier one still allocates (findOrInitAllocation: nothing but the
\* order of its queries prevents duplicates).
OneToOne == Without({"overlap"}) => DistinctPorts /\ OnePort

\* If no allocation is ever deleted, whatever the slave serves is in the table
\* allocation, with the password the user is shown, although the goroutines
\* and updateStats act on what they read long ago and RPCs, the slave and the
\* master fail: the row is saved before the RPC, if the query that saves it does
\* not fail, which nobody would notice.  Deleting an allocation
\* breaks this for good: updateStats may allocate the port again with the
\* password it read before, and it never compares passwords.
ServedAsSaved ==
    Without({"change", "limit", "dbfail"}) => \A p \in Port : table[p] # None =>
        \E r \in OnPort(rows, p) : r.password = table[p]

\* When no goroutine is at work no disabled user has an allocation, if no user
\* changes the group and if neither the deletion by the goroutine of RemoveUser
\* fails nor the master crashes before it.
LimitEnforced ==
    Without({"change", "crash", "dbfail"}) /\ Busy = {} =>
        \A r \in rows : users[r.user] # "disabled"

\* A disabled user loses the allocations, whatever happened before: Monitoring
\* checks whether to remove the user (ChangeUserGroup relies on it).
DisabledRemoved ==
    \A u \in User : users[u] = "disabled" ~> RowsOf({u}) = {}

\* When requests and faults are over, the slave serves a port that one
\* allocation has, and no port that none has, from some time on: updateStats
\* repairs what lost RPCs, restarts and its own stale reads did.
Converges ==
    <>[]\A p \in Port :
        /\ OnPort(rows, p) = {} => table[p] = None
        /\ Cardinality(OnPort(rows, p)) = 1 => table[p] # None

\* A user who is enabled has an allocation from some time on, although the
\* master may crash between the queries of CreateUser or ChangeUserGroup and of
\* their goroutines, which delete and insert while others do: whoever deletes
\* allocates afterwards, and AllocateAllUsers makes up for a crash.  That needs
\* a port for every user, queries that do not fail, and that a change of the
\* group neither overlaps with another request (it may insert a second
\* allocation) nor with the removal of the user, whom it enables again.
EnabledAllocated ==
    /\ Cardinality(User) <= Cardinality(Port) /\ Without({"dbfail"})
    /\ Without({"change"}) \/ Without({"overlap", "limit"})
    => <>[]\A u \in User : users[u] = "enabled" => RowsOf({u}) # {}

\* Goroutines are scheduled, and RPCs and queries return.
AllocFairSpec ==
    /\ AllocSpec
    /\ \A g \in Goroutine : WF_vars(Work(g))
    /\ WF_vars(Monitoring) /\ WF_vars(SaveUser)
=============================================================================
