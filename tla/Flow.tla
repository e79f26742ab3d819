-------------------------------- MODULE Flow --------------------------------
(***************************************************************************)
(* How traffic is measured and charged: ss-server processes report what    *)
(* they transferred in UDP packets to the manager's listener, GetStats     *)
(* passes it on, updateStats writes it into flow_record under the user who *)
(* had the port when it read the allocations, and checkUserLimit disables  *)
(* users over their quota or past their time (slave/shadowsocks/manager.go *)
(* and server.go, slave/server.go, master/slave.go).                       *)
(*                                                                         *)
(* One slave.  A run of a server is what one start time stands for: start()*)
(* sets a new one, a restarted slave finds that of a live process in its   *)
(* configuration.  A packet that is lost is one that was not sent.         *)
(***************************************************************************)
EXTENDS Naturals, Sequences, FiniteSetsExt, Functions

CONSTANTS
    User, Port,
    Owner,      \* [Port -> the user in the table when the master boots, or None]
    MaxRun,     \* bound on the runs of servers
    MaxTraffic, \* bound on what a run transfers
    MaxQueue,   \* packets that the socket holds; more are dropped
    Quota,      \* quota_flow of every user
    Regimes,    \* environments: sets of the events that may happen in one
    MaxEvents,  \* bound on all of these events together
    None

Run == 1 .. MaxRun

ASSUME FlowBounds == {MaxRun, MaxTraffic, MaxQueue, Quota, MaxEvents} \subseteq Nat
ASSUME PortsAreFinite == IsFiniteSet(Port)
ASSUME OwnerType == Owner \in [Port -> User \cup {None}]
ASSUME NoneIsNothing == None \notin User \cup Nat \cup [run : Run, traffic : Nat]

\* What may happen in a behaviour, chosen once and for all.  die: a process
\* dies.  execfail: it cannot be started again.  restart: the slave restarts.
\* crash: the master does.  fault: an RPC fails.  reassign: ports are taken
\* from users and given to users.  expire: the time of users is over.
VARIABLE events

VARIABLES
    \* the slave and its processes
    run,        \* [Port -> the run of the server there, or None]
    alive,      \* ports whose process lives
    stat,       \* [Port -> Server.stat]
    inbox,      \* packets in the listener's socket
    born,       \* runs there have been
    sent,       \* [Run -> what it transferred]
    userOf,     \* [Run -> the user whose password it has]
    \* the database
    rows,       \* table allocation: [Port -> User or None]
    record,     \* table flow_record: [User -> [Run -> flow or None]]
    disabled, expired,
    \* the master
    monitor,    \* where Monitoring() is
    portMap,    \* updateStats: what it read of rows
    reply,      \* updateStats: what GetStats answered
    pending,    \* updateStats: the ports it has yet to compare, or to update
    freeing,    \* ports that removeUserAllocation has yet to free
    happened

slave == <<run, alive, stat, inbox, born, sent, userOf>>
db == <<rows, record, disabled, expired>>
updating == <<monitor, portMap, reply, pending>>
vars == <<slave, db, updating, freeing, happened>>

Packet == [port : Port, traffic : Nat]
FlowUnit == [run : Run, traffic : Nat]

ListServers == {p \in Port : run[p] # None}

\* The type invariant; a process that is alive belongs to a server.
FlowTypeOK ==
    /\ run \in [Port -> Run \cup {None}] /\ alive \subseteq ListServers
    /\ stat \in [Port -> Nat] /\ inbox \in Seq(Packet)
    /\ born \in 0 .. MaxRun
    /\ sent \in [Run -> Nat] /\ userOf \in [Run -> User \cup {None}]
    /\ rows \in [Port -> User \cup {None}]
    /\ record \in [User -> [Run -> Nat \cup {None}]]
    /\ disabled \subseteq User /\ expired \subseteq User
    /\ monitor \in {"snapshot", "stats", "repair", "record", "limit"}
    /\ portMap \in [Port -> User \cup {None}]
    /\ reply \in [Port -> FlowUnit \cup {None}]
    /\ pending \subseteq Port /\ freeing \subseteq Port
    /\ happened \in 0 .. MaxEvents

\* The master has just booted and the slave serves nothing yet.
Init ==
    /\ events \in Regimes
    /\ rows = Owner
    /\ run = [p \in Port |-> None] /\ alive = {} /\ stat = [p \in Port |-> 0]
    /\ inbox = <<>> /\ born = 0
    /\ sent = [k \in Run |-> 0] /\ userOf = [k \in Run |-> None]
    /\ record = [u \in User |-> [k \in Run |-> None]]
    /\ disabled = {} /\ expired = {} /\ freeing = {} /\ pending = {}
    /\ monitor = "snapshot"
    /\ portMap = [p \in Port |-> None] /\ reply = [p \in Port |-> None]
    /\ happened = 0

Happens(kind) ==
    /\ kind \in events /\ happened < MaxEvents
    /\ happened' = happened + 1

-----------------------------------------------------------------------------
(* The slave *)

\* start(): a new start time; the statistics stay what they are.
StartTime(p, u) ==
    /\ born < MaxRun
    /\ born' = born + 1
    /\ run' = [run EXCEPT ![p] = born + 1]
    /\ userOf' = [userOf EXCEPT ![born + 1] = u]

\* start(), if the process can be executed.
StartRun(p, u) == StartTime(p, u) /\ alive' = alive \cup {p}

\* Add: a new Server, unless there is one or (in the model) no run is left.
Add(p, u) ==
    \/ /\ run[p] = None
       /\ StartRun(p, u)
       /\ stat' = [stat EXCEPT ![p] = 0]
       /\ UNCHANGED <<inbox, sent>>
    \/ (run[p] # None \/ born = MaxRun) /\ UNCHANGED slave

\* Bug: the process is not killed.
RemoveOnly(p) ==
    /\ run' = [run EXCEPT ![p] = None]
    /\ stat' = [stat EXCEPT ![p] = 0]
    /\ UNCHANGED <<alive, inbox, born, sent, userOf>>

Remove(p) ==
    /\ run' = [run EXCEPT ![p] = None]
    /\ alive' = alive \ {p}
    /\ stat' = [stat EXCEPT ![p] = 0]
    /\ UNCHANGED <<inbox, born, sent, userOf>>

Transfer(p) ==
    /\ p \in alive /\ sent[run[p]] < MaxTraffic
    /\ sent' = [sent EXCEPT ![run[p]] = @ + 1]
    /\ UNCHANGED <<run, alive, stat, inbox, born, userOf, db, updating, freeing, happened>>

\* A packet names the port and the traffic of the process so far.
Report(p) ==
    /\ p \in alive /\ Len(inbox) < MaxQueue
    /\ inbox' = Append(inbox, [port |-> p, traffic |-> sent[run[p]]])
    /\ UNCHANGED <<run, alive, stat, born, sent, userOf, db, updating, freeing, happened>>

\* Bug: what a process reports is taken for what is new.
UpdateStatAdds(p, traffic) == stat' = [stat EXCEPT ![p] = @ + traffic]

UpdateStat(p, traffic) == stat' = [stat EXCEPT ![p] = traffic]

\* One round of the listener.  handleStat knows the server by its port only.
HandleStat ==
    /\ inbox # <<>>
    /\ inbox' = Tail(inbox)
    /\ IF run[Head(inbox).port] = None THEN UNCHANGED stat
       ELSE UpdateStat(Head(inbox).port, Head(inbox).traffic)
    /\ UNCHANGED <<run, alive, born, sent, userOf, db, updating, freeing, happened>>

Die(p) ==
    /\ p \in alive /\ Happens("die")
    /\ alive' = alive \ {p}
    /\ UNCHANGED <<run, stat, inbox, born, sent, userOf, db, updating, freeing>>

Revive(p) ==
    /\ run[p] # None /\ p \notin alive
    /\ StartRun(p, userOf[run[p]])
    /\ UNCHANGED <<stat, inbox, sent, db, updating, freeing, happened>>

\* The start time is set before the process is executed.
ReviveFails(p) ==
    /\ run[p] # None /\ p \notin alive /\ Happens("execfail")
    /\ StartTime(p, userOf[run[p]])
    /\ UNCHANGED <<alive, stat, inbox, sent, db, updating, freeing>>

\* The manager forgets all statistics.  Restore adds the servers whose process
\* lives as they are and starts the others.
SlaveRestart ==
    LET dead == ListServers \ alive
        new == born + 1 .. born + Cardinality(dead)
    IN  /\ Happens("restart")
        /\ born + Cardinality(dead) <= MaxRun
        /\ \E start \in Bijection(dead, new) :
              /\ run' = [p \in Port |-> IF p \in dead THEN start[p] ELSE run[p]]
              /\ userOf' = [k \in Run |-> IF k \in new
                               THEN userOf[run[Inverse(start, dead, new)[k]]]
                               ELSE userOf[k]]
        /\ born' = born + Cardinality(dead)
        /\ alive' = ListServers
        /\ stat' = [p \in Port |-> 0]
        /\ inbox' = <<>>
        /\ UNCHANGED <<sent, db, updating, freeing>>

-----------------------------------------------------------------------------
(* Users and their allocations, as far as flows depend on them: Allocation *)
(* has the details.                                                        *)

Delete(p) ==
    /\ rows[p] # None
    /\ \/ rows[p] \in disabled /\ UNCHANGED happened
       \/ Happens("reassign")
    /\ rows' = [rows EXCEPT ![p] = None]
    /\ freeing' = freeing \cup {p}
    /\ UNCHANGED <<slave, record, disabled, expired, updating>>

FreeOne(p) ==
    /\ p \in freeing
    /\ freeing' = freeing \ {p}
    /\ \/ Remove(p) /\ UNCHANGED happened
       \/ Happens("fault") /\ UNCHANGED slave
    /\ UNCHANGED <<db, updating>>

Insert(p, u) ==
    /\ rows[p] = None /\ u \notin disabled /\ \A q \in Port : rows[q] # u
    /\ Happens("reassign")
    /\ rows' = [rows EXCEPT ![p] = u]
    /\ UNCHANGED <<slave, record, disabled, expired, updating, freeing>>

AllocateServer(p) ==
    /\ rows[p] # None /\ run[p] = None
    /\ Add(p, rows[p])
    /\ UNCHANGED <<db, updating, freeing, happened>>

Expire(u) ==
    /\ u \notin expired /\ Happens("expire")
    /\ expired' = expired \cup {u}
    /\ UNCHANGED <<slave, rows, record, disabled, updating, freeing>>

-----------------------------------------------------------------------------
(* Monitoring *)

Nothing == [p \in Port |-> None]

Snapshot ==
    /\ monitor = "snapshot"
    /\ portMap' = rows
    /\ monitor' = "stats"
    /\ UNCHANGED <<slave, db, reply, pending, freeing, happened>>

\* An error ends updateStats.
GetStats ==
    /\ monitor = "stats"
    /\ \/ /\ reply' = [p \in Port |-> IF p \in ListServers
                          THEN [run |-> run[p], traffic |-> stat[p]] ELSE None]
          /\ pending' = Port
          /\ monitor' = "repair"
          /\ UNCHANGED <<portMap, happened>>
       \/ /\ Happens("fault")
          /\ portMap' = Nothing
          /\ monitor' = "limit"
          /\ UNCHANGED <<reply, pending>>
    /\ UNCHANGED <<slave, db, freeing>>

\* A port is allocated that should be, or freed that should not.
Repair(p) ==
    /\ monitor = "repair" /\ p \in pending
    /\ \/ portMap[p] # None /\ reply[p] = None /\ Add(p, portMap[p])
       \/ portMap[p] = None /\ reply[p] # None /\ Remove(p)
       \/ (portMap[p] = None <=> reply[p] = None) /\ UNCHANGED slave
    /\ pending' = pending \ {p}
    /\ monitor' = IF pending = {p} THEN "record" ELSE "repair"
    /\ UNCHANGED <<db, portMap, reply, freeing, happened>>

\* FirstOrCreate of the record of a port: the flow is nothing as yet.
CreateRecord(p) ==
    /\ monitor = "record" /\ reply[p] # None /\ portMap[p] # None /\ pending = {}
    /\ record[portMap[p]][reply[p].run] = None
    /\ record' = [record EXCEPT ![portMap[p]][reply[p].run] = 0]
    /\ pending' = {p}
    /\ UNCHANGED <<slave, rows, disabled, expired, monitor, portMap, reply, freeing, happened>>

\* Bug: the record that FirstOrCreate found is not updated.
UpdateNothing(u, k, flow) == UNCHANGED record

Update(u, k, flow) == record' = [record EXCEPT ![u][k] = flow]

\* The record that exists by now is updated; a port to be freed has none.
RecordFlow(p) ==
    /\ monitor = "record" /\ reply[p] # None /\ pending \subseteq {p}
    /\ \/ portMap[p] = None /\ UNCHANGED record
       \/ /\ portMap[p] # None /\ record[portMap[p]][reply[p].run] # None
          /\ Update(portMap[p], reply[p].run, reply[p].traffic)
    /\ reply' = [reply EXCEPT ![p] = None]
    /\ pending' = {}
    /\ UNCHANGED <<slave, rows, disabled, expired, monitor, portMap, freeing, happened>>

RecordDone ==
    /\ monitor = "record" /\ reply = Nothing
    /\ portMap' = Nothing
    /\ monitor' = "limit"
    /\ UNCHANGED <<slave, db, reply, pending, freeing, happened>>

Recorded(u) == {k \in Run : record[u][k] # None}

CurrentFlow(u) == MapThenSumSet(LAMBDA k : record[u][k], Recorded(u))

\* Bug: users whose time is not over are taken for expired.
OverLimitNotYet(u) == CurrentFlow(u) >= Quota \/ u \notin expired

\* Bug: a user may use what is more than the quota.
OverLimitStrictly(u) == CurrentFlow(u) > Quota \/ u \in expired

\* Bug: only the quota counts.
OverQuota(u) == CurrentFlow(u) >= Quota

OverLimit(u) == CurrentFlow(u) >= Quota \/ u \in expired

\* Only users who have a record are found.
CheckUserLimit ==
    /\ monitor = "limit"
    /\ disabled' = disabled \cup {u \in User : Recorded(u) # {} /\ OverLimit(u)}
    /\ monitor' = "snapshot"
    /\ UNCHANGED <<slave, rows, record, expired, portMap, reply, pending, freeing, happened>>

\* The master crashes and boots; goroutines that free ports are gone.
MasterCrash ==
    /\ Happens("crash")
    /\ monitor' = "snapshot"
    /\ portMap' = Nothing /\ reply' = Nothing /\ pending' = {} /\ freeing' = {}
    /\ UNCHANGED <<slave, db>>

-----------------------------------------------------------------------------
Serving(p) == Report(p) \/ Revive(p)
Working(p) == FreeOne(p) \/ AllocateServer(p)
Monitoring ==
    \/ Snapshot \/ GetStats \/ RecordDone \/ CheckUserLimit
    \/ \E p \in Port : Repair(p) \/ CreateRecord(p) \/ RecordFlow(p)

Next ==
    /\ \/ \E p \in Port : Transfer(p) \/ Serving(p) \/ Die(p) \/ ReviveFails(p)
       \/ \E p \in Port : Delete(p) \/ Working(p)
       \/ \E p \in Port, u \in User : Insert(p, u)
       \/ \E u \in User : Expire(u)
       \/ HandleStat \/ SlaveRestart \/ MasterCrash \/ Monitoring
    /\ UNCHANGED events

Spec == Init /\ [][Next]_<<vars, events>>
-----------------------------------------------------------------------------
(* Properties *)

Without(kinds) == events \cap kinds = {}

\* What the servers with the password of a user transferred.
Traffic(u) == MapThenSumSet(LAMBDA k : sent[k], {k \in Run : userOf[k] = u})

\* As long as processes live and ports stay with their users, a flow record of
\* an enabled user names a run of that user and never exceeds what the run
\* transferred, although packets wait in the socket, GetStats and updateStats
\* work on snapshots and slave and master restart.
RecordsTrue ==
    Without({"die", "reassign"}) =>
        \A u \in User \ disabled, k \in Run : record[u][k] # None =>
            userOf[k] = u /\ record[u][k] <= sent[k]

\* Nobody is disabled who has neither used up the quota nor expired
\* (checkUserLimit logs: "User expired or reached limit").
Guilty == \A u \in disabled : u \in expired \/ Traffic(u) >= Quota

\* Guilty holds as long as processes live and ports stay with their users: what
\* checkUserLimit adds up is no more than there was, whatever is late or lost
\* on the way. A revival has traffic charged again, a hand-over to the wrong
\* user.
OnlyGuilty == Without({"die", "reassign"}) => Guilty

\* When traffic stops, the record of every run that still serves its user says
\* what the run transferred, from some time on: cumulative reports make up for
\* lost packets, for statistics lost in a restart and for stale snapshots.
Settles ==
    <>[]\A p \in alive : rows[p] # None /\ userOf[run[p]] = rows[p] =>
        record[rows[p]][run[p]] = sent[run[p]]

\* A user who used up the quota is disabled, if processes live to report it.
OverLimitRemoved ==
    \A u \in User : Without({"die", "reassign"}) /\ Traffic(u) >= Quota ~> u \in disabled

\* An expired user is disabled, or is served no longer, although processes die
\* and start times change while GetStats and updateStats are under way: the
\* record that checkUserLimit joins with exists once the port is served.
Served(u) == \E p \in Port : rows[p] = u /\ run[p] # None
ExpiredRemoved ==
    \A u \in User : u \in expired /\ Served(u) ~> u \in disabled \/ ~Served(u)

\* ss-server reports from time to time, the watch daemon revives, the listener
\* and the goroutines are scheduled, and RPCs and queries return.
FairSpec ==
    /\ Spec
    /\ WF_vars(HandleStat) /\ WF_vars(Monitoring)
    /\ \A p \in Port :
          SF_vars(Report(p)) /\ WF_vars(Revive(p)) /\ WF_vars(Working(p))
=============================================================================
