# Verification of ssmgr

ssmgr runs shadowsocks for many users. A **master** keeps users and port
allocations in a SQL database and tells **slaves** over gRPC which ports to
serve; a slave runs one `ss-server` process per port, keeps it alive, and finds
its processes again when it restarts. This directory holds TLA+ models of both,
TLC configurations that check them on small instances, and TLAPS proofs.

    PROJECT.json         components, runs, mutants, map to the source, hazards, theorems
    PortTable            what a slave promises (abstract)        + PortTableProofs
    SSServer             Server objects of a slave               + SSServerProofs
    SSManager            the slave: manager, handlers, run()     EXTENDS SSServer, refines PortTable,
                                                                 + SSManagerProofs, SSManagerDisk,
                                                                 SSManagerProcesses
    Allocation           the master: users, allocations, Monitoring
                                                                 EXTENDS PortTable, + AllocationProofs
    Flow                 traffic: from the processes to the quota, master and slave
                                                                 + FlowProofs
    LogHook              the master's log and its bounded queue
    Web                  the master's request handlers           EXTENDS LogHook, + WebProofs
    MC*, *.cfg           instances for TLC

`tlc -config SSManager.cfg MCSSManager.tla` checks a configuration,
`tlapm SSServerProofs.tla` a proof.

## Inventory

| Component | State | Operations | Talks to |
|---|---|---|---|
| shadowsocks server (`slave/shadowsocks/server.go`) | `rtMu`, process handle, `Extra`, `cancel` of the watch daemon; files `ss_server.conf`, `ss_server.pid`; an iptables rule | Start, Stop, Restart, Restore, watch daemon, revive | the OS: processes, files, iptables |
| shadowsocks manager (`slave/shadowsocks/manager.go`) | `serverMu`, map port → Server, directory `~/.ssmgr`, `stat` of each server, a UDP socket | Add, Remove, GetServer, ListServers, Restore, CleanUp, Listen and handleStat | its servers |
| slave RPC server (`slave/server.go`) | none | Allocate, Free, GetStats (one goroutine per request) | the manager |
| slave program (`slave/cli/slave.go`) | where `run()` is | Restore, serve, GracefulStop, CleanUp | all of these; signals, systemd |
| master: users and allocations (`master/user.go`, `group.go`) | tables `users`, `allocation` | CreateUser, ChangeUserGroup, RemoveUser, AllocateAllUsers and the goroutines these spawn | database, slaves |
| master: monitoring (`master/slave.go`) | table `flow_record`, the maps of `updateStats` | Monitoring: updateStats and diffPorts, checkUserLimit; InitSlaves, CleanInvalidAllocation | database, slaves, RemoveUser |
| master: database (`master/orm`) | the tables, no transactions, no unique index on ports | queries | |
| master: web handlers (`master/web.go`) | table `verify_code`, sessions, the configuration and its file | e-mail codes, login, user and configuration pages | users, database, SMTP |
| master: log hook (`master/slack`) | a channel of 200 messages | Fire, consumer | Slack |
| master program (`master/main.go`) | configuration | start-up order | all of these |
| frontend, `plugins/ssmgr-collector`, tools, systemd, Docker | | | |

### What is hard here, and what must hold

*Server.* Three kinds of threads meet at `rtMu`: handlers, the watch daemon,
and `Restore`. The daemon looks at the process under the read lock, releases
it, and revives under the write lock; Stop may come in between. `start()` has
five steps that may fail, and processes die at any of them. Correct means: no
live handle is dropped (`KeepsTrack`), one daemon per Server (`DaemonOwned`),
handle, daemon and firewall rule come and go together (`Watched`), no process
is left that nobody can stop (`Tracked`), a dead server comes back (`StaysUp`).

*Manager and slave program.* Two locks are nested; directories are made outside
of them; the slave can crash, or the machine reboot, between any two steps, and
`Restore` has only the files and the process table. Correct means: no orphan
processes (`NoOrphan`), configurations on disk for whatever is managed
(`Durable`), acknowledged servers are not lost (`NeverLost`, `SurvivesCrash`),
managed servers run after a reboot (`AllServed`, `SurvivesReboot`), `Remove` kills
(`RemoveKills`), every managed server is watched and limited (`Guarded`), `CleanUp` leaves
nothing (`NothingLeft`, `CleanedUp`), no dereference of a nil
`Extra` (`StatsSafe`), no deadlock (`RPCReturns`, `RestoreEnds`), and all of it
together looks like a simple table (`PortTableSpec`).

*Master.* Nothing locks and there are no transactions: every query is atomic and
nothing else is. Goroutines outlive the requests that spawned them, RPC errors
are only logged, and Monitoring, reading the table and the slave at different
times, repairs what it believes is wrong. Correct means: a port belongs to one
user and a user has one port (`OneToOne`, `DistinctPorts`, `OnePort`), what is served is in the table
(`ServedAsSaved`), users over their limit are cut off (`LimitEnforced`,
`DisabledRemoved`), table and slave agree in the end (`Converges`), and whoever is
enabled has an allocation in the end (`EnabledAllocated`).

*Traffic.* What a process transferred passes through a socket that drops packets,
the statistics of a Server that is found by its port only, a snapshot of
`GetStats`, a map from ports to users that was read before, and a table keyed by user
and start time, until a query adds it up. Each of these is stale when it is used. Correct
means: users are charged for their own traffic and no more than it
(`RecordsTrue`), nobody is disabled without a reason (`Guilty`, `OnlyGuilty`), records catch up
(`Settles`), users over their quota or time are disabled
(`OverLimitRemoved`, `ExpiredRemoved`).

*Requests.* iris runs each handler in a goroutine of its own. Handlers count before
they insert and look before they create; one goroutine per request saves the
configuration; all of them log, into a queue of which they read the length
before they send. Correct means: what races may exceed is bounded (`SentLimit`,
`OneUser`), the file keeps what the admin set (`ConfigSaved`, `ConfigKept`), logging blocks nobody
for ever and never everybody (`RequestsEnd`, `NotAllBlocked`).

Several of these names come in pairs. The first is the promise as the code or its comments
make it (`NeverLost`, `AllServed`, `NothingLeft`, `DistinctPorts` and `OnePort`, `Guilty`,
`ConfigSaved`), which the code does not keep in every environment; the second (`SurvivesCrash`,
`SurvivesReboot`, `CleanedUp`, `OneToOne`, `OnlyGuilty`, `ConfigKept`) is what it keeps: the
promise, in the environments named in the antecedent.

The list `hazards` in PROJECT.json names the places in the code.

## How the models correspond to the code

### SSServer

One `Server` object is one element of `Server`; `PortOf` gives the port it was
made for, and with it the run directory. A *thread* is a caller of the exported
methods (`Caller`) or the goroutine of a watch daemon (`Daemon`).

| Code | Model |
|---|---|
| `rtMu` | `rtMu[s]`: the thread in `start()`; critical sections of one step are single actions with the guard `Free(s)` |
| `runtime.proc` | `runtime[s]`, a pid or `None`; `Alive(s)` is `kill(pid, 0)`, true for any process with that pid |
| `watchDaemon.cancel`, its context | `cancel[s]`, `done` |
| `start()` | `Start`/`Restart`/`Revive` → `Begin`, `Write`, `ExecOK` or `ExecFail`, `ReadPid` or `NoPid` |
| `WriteFile` | `Begin` truncates (`Torn`), `Write` writes through the open descriptor; of two writers the last one wins, and one whose file was removed meanwhile writes to the lost file |
| `Stop()`, `Restart()` | `BeforeStop` and `Kill` under one lock, then for Restart `Begin` |
| watch daemon loop | `Tick`, `Exit`, `Check`, `NotNeeded`, `Revive`; between `Check` and `Revive` no lock is held |
| kernel | `proc`: pid → the `ss-server` (port and password), `Other`, or `None`; a second server on a bound port dies at once |

`start()` holds the lock over several steps because deaths, vanishing
directories and crashes of the slave need no lock. Everything nobody can see half
done is one step. Command lines, ciphers, timeouts and statistics are left out;
a password stands for the whole configuration of a server.

### SSManager

Extends SSServer by the manager, the RPC handlers and `run()`. `phase` is where
`run()` is; `mpc[t]` is where caller `t` is in `Add`, `Remove` or `restore`.
`Allocate` is a handler's `prepareServer` and the `MkdirAll` of `Add`, before the
lock; `AddLock`, `AddExists`, `AddDone` are the rest; `FreePort` (`RemoveLock`),
`RemoveStop`, `RemoveFiles` are `Remove`. `RestoreLoad`, `RestoreAfter`,
`RestoreAlive`/`RestoreDead`, `Discard` are `manager.Restore` for one directory;
`Shutdown`, `CleanDir`, `CleanServer`, `ExitClean` the graceful end. `Crash`
forgets memory; `Reboot` also ends all processes and rules, and may give their
pids to other processes. `acked` is a history variable: ports whose `Allocate`
succeeded and which were not freed since.

Server objects are allocated by the code and collected; the model takes an
unreferenced one from the pool `Server` (`Garbage`, `NewServer`).

### PortTable

The promise: `table` is what is served, `disk` what a restart would find.
`SSManager!PortTableSpec` maps `table` to the passwords of the managed servers
and `disk` to the readable configurations. The point is the order of steps: a
configuration is on disk before its port is served and leaves the disk only
afterwards, so a restart never serves an older password.

### Allocation

The master with one slave that every group has. `users`, `rows`, `recorded` are the
tables; a goroutine of `removeUserAllocation` and `allocateForUser` walks `scan`,
`delete`, `free`, `find`, `choose`, `save`, `allocate`; Monitoring walks
`snapshot`, `stats`, `repair`, `limit`, `remove` (`CheckUserLimit` selects, `RemoveUser`
updates). `ChangeUserGroup` reads the first user of
the table and writes all of it back in another step (`saving`), as the code does.
`Counter` is `diffPorts`: reports minus allocations; a port is missing at -1
and superfluous at 1. The slave's operations are those of PortTable: `AllocateRPC`
is `Attempt` then `Admit`, `FreeRPC` is `Release` then `Forget`, `SlaveRestart`
is `Lose` and then `Admit` or `Forget` for each port. The queries that save or delete an
allocation or disable users may fail (`dbfail`), which the code ignores, and so may those of
`AllocateAllUsers`. Whether a
user is over the limit is a free choice among the enabled users with a flow
record, as `checkUserLimit` joins these tables.

### Flow

The path of a number of bytes through both programs, with one slave. A *run* is what one
`StartTime` stands for: `start()` sets a new one, and a restarted slave reads that
of a live process from its configuration.

| Code | Model |
|---|---|
| `ss-server --manager-address` sends `stat: {port: bytes so far}` | `Transfer`, `Report`; a lost packet is one that was not sent |
| `listen()`, `handleStat`, `UpdateStat` | `HandleStat`: one packet; the server is looked up by port, a packet for none is dropped |
| `start()`, `revive()`, `Add`, `Remove`, `Restore` | `StartRun`, `Revive`, `ReviveFails`, `Add`, `Remove`, `SlaveRestart`: `stat` survives a revival, successful or not, and not a restart |
| `GetStats` of the slave, its RPC in `updateStats` | `GetStats`; the counter of `diffPorts` is `portMap` against `reply` |
| the rest of `updateStats` | `Snapshot`, `Repair`, `RecordFlow`, `RecordDone`, one step per port |
| `FirstOrCreate`, `Update` on `flow_record` | `CreateRecord`, `Update` in `RecordFlow`: the record of a user and a start time |
| `checkUserLimit` | `CheckUserLimit`: one query, an inner join |

What Allocation has in detail is coarse here: a row is inserted and deleted in a step
(`Insert`, `Delete`), and the RPCs of its goroutine follow at any time (`AllocateServer`,
`FreeOne`). Locks, files and the failed starts of `Add` are in SSManager.

### LogHook and Web

LogHook is `Fire`, `msgQ` and the goroutine that posts. `Fire` is two steps: it
reads the length of the channel (`Fire`) and sends (`Send`), which waits while the
channel is full. Web uses it by its actions: a handler that logs calls `Fire` and
goes on when `at[h]` is `"run"` again, and `MasterLogs` says that what the master
does is what LogHook describes.

In Web `pc[h]` is where the request of handler `h` is. `handleEmail` is
`HandleEmail` (count), `SayCode` (log), `InsertCode`; `handleCode` is `HandleCode`
(the code exists), `FindUser`, and `ReadFlow`, `CreateUser`, `Greet` of
`CreateUser`; `handleUserPut` is `ChangeUserGroup` (read) and `SaveUser` (write
all of it back); `handleConfigPut` is `HandleConfigPut` and `SetTime`, two fields
in memory without a lock, and `Marshal`, `Truncate`, `WriteFile` of the goroutine. The file may
not be opened or not be written in full (`SaveFails`), which is only logged. `lost` is a
history variable: the last attempt to save failed, or the master died during one, and no later
one and no start of the master has made file and memory agree.
`Crash` and `Boot` are the end and the start of the master; `main()` does
not come up without a configuration that parses. Codes are counted, since only their
number matters; `CodeExpires` is the passing of `verifyCodeExpire` seconds.

## Environments

What a property needs differs: a crash, a reboot or a daemon's timer each break
some property that holds without them, and all of them together make an instance
too large. So each module has a rigid variable `events`, chosen in the initial
state from the constant `Regimes` and never changed: the set of things that may
happen in this behaviour. One run explores several environments, each property
says in its antecedent which events it excludes, and the comment says why.
Every event is in a regime of a passing run.

| Event | Meaning |
|---|---|
| `tick`, `die`, `execfail`, `rmdir` | the 5 s timer of a daemon fires; a process dies; `ss-server` cannot be run; a run directory is removed or made by somebody else |
| `free`, `crash`, `reboot`, `reuse`, `shutdown` | Free requests; the slave dies; the machine restarts; old pids are taken by other processes after that; the slave is interrupted |
| `overlap`, `change`, `limit` | requests arrive while a goroutine is at work; users change their group; users exceed their limit |
| `fault`, `dbfail`, `restart`, `crash` | an RPC fails, done or not; a query that writes fails; the slave restarts; the master crashes |
| `die`, `execfail`, `restart`, `fault`, `crash` (Flow) | a process dies; a revival fails; the slave restarts; an RPC fails; the master crashes |
| `reassign`, `expire` (Flow) | ports are taken from users and given to users; a user's time is over |
| `login`, `overlap`, `change`, `limit` (Web) | people ask for codes and log in; requests overlap; the admin changes a group; users are disabled |
| `put`, `resave`, `diskfail`, `crash` (Web) | the admin changes the configuration; does so again before it is saved; the file cannot be written; the master dies |

What was found when a property's excluded events are let in. Where a run is named it is one of
the violated runs; the other traces were found by checking the first name of a pair, or the
property without its antecedent, in the environment given here:

- `NoOrphan`, `Durable`, `RemoveKills` with `tick` and `free`: a daemon passes
  `Alive()`, Remove stops the server, the daemon's `revive()` starts it again
  (run `remove_kills`).
- `NoOrphan`, `Durable` with `tick` and `crash` or `reboot`: a server dies between
  the two looks of `Restore` (next item) and the daemon that the first one started
  revives it while `Restore` adds a clone or removes the directory; or the slave dies
  between a daemon's exec and the end of its `start()`.
- `NoOrphan`, `SurvivesCrash` with `shutdown` and `crash`: `CleanUp` removes the
  directories first; a crash after that leaves processes that no `Restore` finds and
  that keep their ports.
- `NeverLost` with `die` and `crash`: in `Restore` a process may die between the
  look of `Server.Restore` and that of `manager.restore`. The handle is then not nil, the
  `Start` inside `Add` returns `errServerAlreadyStarted`, and `Restore` removes the
  directory of a server that only had to be started. With `reboot` or `die`, a
  second stop while `Restore` rewrites a configuration leaves it truncated (run
  `restore_torn`).
- `AllServed` with `reboot` and `reuse`: a pid file names some other process, the server
  counts as alive and nobody starts it.
- `NothingLeft` with `tick`, `die` and `shutdown`: `CleanUp` removes the directories first; a daemon
  between exec and reading the pid file cannot find its process and forgets it.
- `Tracked` with `rmdir`: the same.
- `OneToOne` with `overlap`: two users get one port (run `shared_port`). With `change` too, a
  user whose group is changed while the user is created gets two ports, since both goroutines
  look for an allocation before either inserts one.
- `ServedAsSaved` with `change` or `limit`: `updateStats` allocates a missing
  port with the password of a row that was replaced since; only ports are compared
  later, so the old password stays.
- `ServedAsSaved`, `LimitEnforced`, `EnabledAllocated` with `dbfail`: nobody looks at the
  error of the query, so a port is served without a row, or a disabled user keeps one, or an
  enabled user gets none until the master starts again.
- `EnabledAllocated` with `change` and `overlap`: a user with two ports (see `OneToOne`) may
  leave none for another one. With `change` and `limit`: `RemoveUser` disables a user whose
  row `ChangeUserGroup` writes back as it was, and its goroutine deletes the allocation.
- `LimitEnforced` with `crash`: the master dies after disabling a user and before
  the goroutine deletes the allocations; `checkUserLimit` only looks at enabled
  users, so nobody ever deletes them. With `change`: run `disabled_served`.
- `RecordsTrue`, `Guilty` with `die` (run `double_charge`): a revival sets a new start time and keeps `stat`.
  Until the new process reports, `GetStats` pairs the new start time with the old traffic,
  and the user is charged twice: the record of the old run stays in the sum. If no report
  arrives before the next death it stays so.
- `RecordsTrue`, `Guilty` with `reassign`: a packet of the old server is read when
  the port has a new one, or the port changes hands between `Snapshot` and `GetStats`.
  Records of start times that are over are never corrected.
- `Settles` is an "in the end" since a restarted slave answers 0 under the old start time:
  the record shrinks to 0 until the process reports, and a user over the
  quota is taken for innocent meanwhile.
- `ExpiredRemoved` says "or not served": `checkUserLimit` joins with `flow_record`, so
  a user who never was served is never found.
- `SentLimit` and `OneUser` allow what requests that overlap may exceed, and they do: without
  the allowance TLC finds one code more than `MaxSent`, and two users of one address.
- `OneUser` with `change`: a disabled user logs in again as a new one, and
  `ChangeUserGroup` writes back a row it read before the old one was disabled.
- `ConfigSaved` with `resave`: of two savers the one that marshalled first
  may write last, or write a shorter text over a longer one and leave its end behind.

## Runs

| Run | Instance | States | Shows |
|---|---|---|---|
| `server` | 1 Server, 1 caller, 3 daemon goroutines, 2 pids; {tick, die, execfail}, {tick, die, rmdir} | 31 thousand | `TypeOK`, `DaemonOwned`, `Watched`, `Tracked`, `KeepsTrack`, and `StaysUp` under fairness |
| `manager_crash` | 1 port, 3 objects, 2 passwords, 2 handlers and main; every event but tick and shutdown | 16 thousand | `MgrTypeOK` and the refinement `PortTableSpec` |
| `manager` | 2 ports, 4 objects, 2 handlers and main; seven regimes | 102 thousand | `NoOrphan`, `Durable`, `SurvivesCrash`, `SurvivesReboot`, `CleanedUp` |
| `manager_live` | 1 port, 2 handlers and main; every event | 87 thousand | `StatsSafe`, `Guarded`; `RPCReturns` and `RestoreEnds` under fairness |
| `allocation` | 2 users, 2 ports, 2 goroutines, 6 passwords, one fault, crash or change; five regimes | 471 thousand | `AllocTypeOK`, `OneToOne`, `ServedAsSaved`, `LimitEnforced`; `Converges` and `EnabledAllocated` under fairness |
| `flow` | 1 port, 2 users, 2 runs, quota 2, two events; four regimes | 351 thousand | `FlowTypeOK`, `RecordsTrue`, `OnlyGuilty`; `Settles`, `OverLimitRemoved`, `ExpiredRemoved` under fairness |
| `web` | 1 e-mail address, 3 users, 2 handlers, 1 other goroutine that logs, a queue of 1, 2 savers, three events; five regimes | 212 thousand | `WebTypeOK`, `NotAllBlocked`, `SentLimit`, `OneUser`, `ConfigKept`, and `RequestsEnd` under fairness |
| `remove_kills` | 1 port, 1 handler; {tick, free} | violated | a removed server is started again by its daemon |
| `restore_torn` | 1 port, 1 handler; {reboot} | violated | a reboot inside Restore loses an acknowledged server |
| `shared_port` | 2 users; {overlap} | violated | two users get one port |
| `disabled_served` | 1 user; {change, limit}; fair | violated | a disabled user keeps an allocation for ever |
| `double_charge` | 1 port, 2 users; {die} | violated | a user below the quota is disabled after a revival |

Each property of a passing run has a mutant: a version of a mapped definition
with a plausible bug ("Bug:" in its comment) under which TLC finds the property
violated.

### Bounds, and why they are enough

- One Server suffices for SSServer: Servers share nothing but the port, and two
  Servers of one port are what SSManager is about. A second caller would only
  wait for `rtMu`, except for orders of calls that one caller also makes. Three daemon goroutines
  are one that is active and two that were cancelled and have yet to exit.
- `SpareDaemon` and `CanWatch` keep a `start()` from beginning when no goroutine
  name would be left for the daemon it spawns; `Fresh` keeps a pid from being
  handed out while a file or a handle still names it. When the pids or names run
  out a behaviour stops there, which `RPCReturns` and `RestoreEnds` except
  (`Exhausted`). Reuse of pids is the event `reuse`.
- `CanAllocate` keeps a call from beginning when every object of the pool is
  referenced: two objects per port are one that is managed and one that is being
  added; a third lets another handler in.
- `Regimes` of `manager` are the maximal sets of events that TLC finishes in a minute.
  With the larger sets that the antecedents admit, the properties were checked on one
  port and, except `Durable` without `tick`, on two. `Converges` was checked with all
  events of Allocation but `dbfail` together (3 million states).
- Two ports show interference between ports in `Restore`, `CleanUp` and
  `NoOrphan`; one port suffices for what happens inside a port.
- A daemon's 5 s timer does not fire between `RestoreAfter`, which starts the daemon, and the
  next look `Restore` takes at the same Server, a few milliseconds later: the guard in
  `ServerStep`.
- `MaxEvents = 1`: one failed RPC, slave restart, query, master crash or group change in
  a behaviour, beside any number of interleavings of two goroutines, two requests
  and Monitoring. The proofs hold for any `MaxEvents`.
- Flow: one port and two users show what the hand-over of a port does; ports share
  only the socket and the sum in `checkUserLimit`. The invariants were also
  checked on two ports with one event (1.3 million states) and `RecordsTrue` is proved for any number.
  Two runs are one before and one after a death or a hand-over; a quota of 2 is reached by one
  run, or by two that transferred 1 each; two events are a death and a restart, or a
  `Delete` and an `Insert`. `MaxQueue = 1` drops packets at once. When the runs are used up,
  `Add` does nothing and `Revive` is disabled.
- Web: two handlers are what a race needs, and three user ids let two of them create a user
  each and a third one come after, when one was disabled (`OneUser`); `SentLimit`, `OneUser`, `ConfigKept` and
  `NotAllBlocked` are proved for any number. `MaxSent` is 2 so that the limit is
  reached by overlapping and by successive requests; the code's is 3. A queue of 1
  with three goroutines that log has one place for which they race. Two values of a limit and two savers
  are an old and a new configuration. Three events are a change that is
  lost, the failure or crash that loses it, and a change that makes up for it, or a user who is
  disabled, logs in again and is disabled again. `SpareUser` keeps a login from beginning
  when no id is left for the user it may create; `MayPut` keeps a change from
  beginning when all savers are busy.
- Passwords: `RandomPassword` takes one that is nowhere in use, so that stale
  passwords are told apart; six suffice for two ports.
- Choices that make no difference are made by `CHOOSE`: the unused object and
  the idle goroutine. Handlers, daemons and pids are symmetric in the safety runs of
  SSManager; runs with temporal properties use no symmetry, except
  `manager_crash`, whose property is a safety one (initial states and steps).

### Fairness

- SSServer: `start()` goes on (weak), timers of daemons fire and cancelled ones
  exit (weak), and whoever waits for an `RWMutex` gets it although others take it
  over and over (strong fairness of `Check`, `NotNeeded`, `Revive`): Go's
  `RWMutex` blocks new readers once a writer waits. Strong fairness of `ExecOK`
  says that `ss-server` can be run if tried over and over. Callers need not call.
- SSManager: each caller's and daemon's steps are strongly fair, since locks
  disable them; main's steps weakly. Timers need not fire, requests
  need not come, processes need not live.
- Allocation: goroutines and Monitoring are scheduled, RPCs and queries return
  (weak). Users need not do anything, and nothing bounded needs to happen.
- Flow: the listener, Monitoring, revivals and the goroutines go on (weak); a live process
  reports although the socket is full now and then (strong: it reports every few seconds,
  and the listener empties the socket). Nobody needs to transfer anything.
- Web: handlers, savers and the hook's goroutine go on (weak); Slack answers or the request
  fails. Who waits to send into a channel gets its turn (strong fairness of `SendLog`):
  Go keeps the waiting senders of a channel in a queue.

## Proofs

| Theorem | Says | Assumes |
|---|---|---|
| `SSServerProofs!TypeCorrect` | `Spec => []TypeOK` | |
| `SSServerProofs!OneDaemon` | `[]DaemonOwned` | |
| `SSServerProofs!HandleKept` | `KeepsTrack`, a property of steps | |
| `SSServerProofs!AlwaysWatched` | `[]Watched` | `OwnPort`: each Server its own port |
| `SSServerProofs!NoneUntracked` | `[]Tracked` | `OwnPort` |
| `SSManagerProofs!ManagerTypeCorrect` | `MgrSpec => []MgrTypeOK` | |
| `SSManagerProofs!StatsAreSafe` | `[]StatsSafe` | |
| `SSManagerProofs!ManagerImplementsPortTable` | `MgrSpec /\ Calm => PortTableSpec`: the slave implements its promise in every behaviour in which no timer fires and nobody interrupts it (`Calm`) | |
| `SSManagerDisk!ManagedIsSaved` | `MgrSpec => []Durable` | |
| `SSManagerProcesses!NoneIsOrphaned` | `[]NoOrphan` | |
| `SSManagerProcesses!AckedSurvive` | `[]SurvivesCrash` | |
| `SSManagerProcesses!ServedAfterReboot` | `[]SurvivesReboot` | |
| `SSManagerProcesses!CleanUpCleans` | `[]CleanedUp` | |
| `SSManagerProcesses!ManagedAreGuarded` | `[]Guarded` | |
| `PortTableProofs!ServedIsSaved` | `[]WriteAhead` of the abstract slave | |
| `AllocationProofs!TypeCorrect` | `AllocSpec => []AllocTypeOK` | |
| `AllocationProofs!ServedIsAllocated` | `[]ServedAsSaved` | |
| `AllocationProofs!PortsAreOneToOne` | `[]OneToOne` | |
| `AllocationProofs!LimitsAreEnforced` | `[]LimitEnforced` | |
| `FlowProofs!FlowTypeCorrect` | `Spec => []FlowTypeOK` | |
| `FlowProofs!RecordsAreTrue` | `[]RecordsTrue` | |
| `FlowProofs!OnlyGuiltyDisabled` | `[]OnlyGuilty` | |
| `WebProofs!SomebodyRuns` | `LogSpec => []NotAllBlocked` | |
| `WebProofs!MasterLogs` | `WebSpec => LogSpec`: the master implements the log hook's module | |
| `WebProofs!MasterRuns` | `WebSpec => []NotAllBlocked` | |
| `WebProofs!WebTypeCorrect` | `WebSpec => []WebTypeOK` | |
| `WebProofs!FileIsMemory` | `[]ConfigKept` | |
| `WebProofs!CodesAreLimited` | `[]SentLimit` | |
| `WebProofs!UsersAreLimited` | `[]OneUser` | |

They hold for any Servers, threads, pids, users, ports, regimes and bounds, under
the assumptions named in the modules: constants of different kinds are distinct
(`NoneIsNil` and the like), ports and users are numbers in Allocation, there is a
password, ports and handlers are finitely many.

*SSServer.* `TypeOK` is not inductive: the steps of `start()` use `target[t]`
as a Server, and `DaemonOwned` needs to know that nobody is in `start()` twice.
`LockInv` says who holds `rtMu`: the holder is in `start()` on that Server, whoever
is in `start()` is the holder, and the handle is nil meanwhile. The last is what
`KeepsTrack` needs: `ReadPid` overwrites the handle. `Inv` is `TypeOK`, `LockInv`
and `DaemonOwned`; there is a lemma per action. `Watched` is strengthened to
`WatchedInv` and `Tracked` to `TrackInv`, which extend them into the critical
sections: the firewall rule belongs to the daemon also while `rtMu` is held, and the
only process on a port whose Server is at the reading of the pid file is the one the
file names. `OwnPort` is needed there because two Servers of one port share its rule and
its files; in SSManager the manager's map takes its place (`Guarded`, `NoOrphan`).
The lemmas of the actions prove `BaseInv`, which is `TypeOK` and `LockInv`, apart from
`DaemonOwned`, so that SSManager can use them: there `Restore` clones a Server with
its `cancel`, and `DaemonOwned` does not hold.

*SSManager.* `MInv` adds to `BaseInv` what the manager's lock protects. `CallerInv`: whoever is
inside `Add` or `Remove` holds `serverMu`, and whoever is in `start()` works on its own
Server, so an object nobody refers to is not locked (`GarbageIsFree`) and may be
overwritten. `PhaseInv`: where each caller may be while the slave restores, serves, cleans up
or is down. `TableInv`: the map sends a port to a Server of that port, and the port that is
being added, removed or restored is not in it. `StatsInv` is `StatsSafe` without its guards,
and the same of the Servers that are on their way into the map.

`ManagerImplementsPortTable` needs `SavedInv`, which holds while `Calm` does: the
configuration on disk is the password of the Server that is being started or restored, from
`Write` on, and no daemon starts anything. Then `Write` is `Attempt`, `AddDone` and
`RestoreAlive` are `Admit` (`ServerIsAdmitted`), `RemoveLock` is `Release`, the truncation in
`AddLock` and the removal of files are `Forget` (`ConfIsForgotten`), `Crash` and `Reboot` are `Lose`,
and everything else changes neither the table nor the disk (`SameView`). Without `Calm`
the refinement is not claimed: what a daemon starts behind the manager's back is not a
step of PortTable, nor is the truncation of a managed port's configuration by a revival or
the removal of its directory by `CleanUp`.

*SSManagerDisk.* `Durable` also holds with timers, in the environments its antecedent names.
`SaveInv` adds to `MInv`: nobody but its caller knows a Server that is being added, and no
two callers have the same (`ObjInv`); what is left of directories and daemons in each
phase (`LifeInv`); without timers a daemon never leaves its `select` (`TimerInv`), and
with them it looks after a Server that is *kept*: managed, or on its way into the map
(`WorkInv`). At most one Server of a port is kept (`OneKept`), so the configuration of a
kept Server is on disk but between the truncation and the write (`ConfInv`).

*SSManagerProcesses.* `ProcInv` says where every running `ss-server` can be found again.
A pid file or a handle names a process of its own port (`DiskInv`), and every `ss-server`
is *traced* (`TracedInv`): by its pid file and its configuration while the program is
down or has yet to restore the port, and by the Server in use otherwise, through the
critical section of a `start()` that has run it and has not read the pid file yet. `NoOrphan`
is the case in which nobody is at work. `HistInv` follows what was promised:
`ReadyInv` (a `start()` that has exec'ed has a process), `AckedInv` (the process of an
acknowledged port runs, also while the slave is down, hence `SurvivesCrash` by
`NoOrphan`), `ServedInv` (a managed port has a process, hence `SurvivesReboot`) and
`RuleInv` (a rule belongs to a port that is managed, being added or being removed,
hence `CleanedUp`). Each is proved under the events its property excludes, no more.

`Guarded` needs no event excluded. `GuardInv` follows a Server before it enters the map: it has no
daemon until its `start()` reads the pid file (`NewInv`), or until `RestoreAfter` (`LoadedInv`),
and then the daemon waits until the next look of `Restore` (`CheckedInv`, which rests
on the guard of `ServerStep`, see Bounds). From then on only its own Stop takes the
daemon or the rule away (`StaysCared`), and Remove takes the Server out of the map first.

The invariants of these two modules were checked by TLC on the instances of SSManager, and
on a larger one, before they were proved.

*PortTable, Allocation.* `WriteAhead` of PortTable is inductive with the types. `ServedAsSaved`
needs `NeverStale`: if nothing deletes allocations, what the goroutines and
`updateStats` hold remains in the table, and everything on the slave's disk,
from which a restart rebuilds what is served, was saved to the table before.
`OneToOne` needs that what `findOrInitAllocation` has found stays true until it inserts:
`Unused` says so of each goroutine, `OneByOne` that only one allocates at a time, and
`AloneInv` that nobody does while `AllocateAllUsers` runs. `LimitEnforced` needs that
whom `checkUserLimit` has found has a flow record (`AllocTypeOK`), that
whoever is disabled is being removed by a goroutine (`Removed`) and that a goroutine that
will still insert works for a user who cannot be disabled yet: one who never
had an allocation, so has no flow record (`ForNewUser`, `Fresh`).

*Flow.* `RecordsTrue` follows each number on its way. `SteadyRun` says of the port
of an enabled user that the server there has the user's password and that neither `stat`
nor a packet in the socket exceeds what its run transferred; before there is a
server the socket holds nothing for the port. `SteadyReply` says the same of what
`updateStats` holds, and that nobody is about to free the port. Both are about enabled
users: who is disabled may still be charged by a stale reply, and is not protected.
Disabling only shrinks what must hold, and `sent` only grows.
`OnlyGuilty` compares two sums over runs. Runs are finitely many, and an induction over the
subsets of a finite set (`SubsetInduction`, by the well-foundedness of `\subset`, with the
predicate given as a set) shows that a sum is unique (`SumsAgree`), grows with its
summands (`TotalGrows`) and can be split (`TotalSplit`). So what `checkUserLimit`
adds up for an enabled user is at most the user's traffic (`FlowIsTraffic`, from `RecordsTrue`),
and traffic never shrinks (`TrafficGrows`).

*Web.* `SentLimit` and `OneUser` need to count who has looked and not yet acted: with
`Sending(e)` and `Creating(e)`, the handlers in between, what is there plus who is on
the way stays below the bound (`SentInv`, `UserInv`), and `OneByOne` says that without
overlap this is at most one. `ConfigKept` needs that one handler or saver is at work at a time
(`AloneInv`) and that what it has marshalled is still in memory (`SavedInv`); a write that
fails or is cut off sets `lost`, and only a completed one, of what is in memory, or a start of
the master, which reads the file, resets it.
`NotAllBlocked` is inductive for LogHook with its types; for Web it follows from `MasterLogs`,
without a look at the handlers.

Every invariant of a passing run, and its two temporal properties that are about steps
(`KeepsTrack`, `PortTableSpec`), is stated by a theorem. Only model-checked is liveness
(`StaysUp`, `RPCReturns`, `RestoreEnds`, `Converges`, `EnabledAllocated`, `Settles`, `OverLimitRemoved`,
`ExpiredRemoved`, `RequestsEnd`) and everything under fairness, which TLAPS cannot treat, and the
violated runs, which refute.

## What the violated runs say

1. `server.go` 321: the daemon's `Alive()` and `revive()` are two critical sections,
   and `revive()` does not look whether the daemon was cancelled. `Remove` "kills the
   ss-server if found", but the daemon may start it again, with a new daemon, after the
   port left the map. Only a restart of the slave or of the process table ends it.
2. `server.go` 421: `save()` truncates the configuration and then writes it, also when
   `Restore` starts a server whose configuration was complete. If the machine stops in
   between, the next `Restore` cannot parse it and removes the directory.
3. `user.go` 151: `findOrInitAllocation` chooses a port and inserts the row
   in separate queries. Two users created at once share a port; the second `Allocate`
   fails; when the slave loses the port the counter of `diffPorts` is -2 and the port is
   never allocated again.
4. `slave.go` 173: `checkUserLimit` skips disabled users, and `ChangeUserGroup` allocates
   ports whatever the state of the user: a user who is disabled before or meanwhile
   keeps a port that Monitoring keeps served.
5. `server.go` 515: a revival pairs a new start time with the old traffic, which is recorded
   twice; a user below the quota is disabled.

What no run shows, but was found as described under Environments: `manager.go` 279 (a server
that dies while `Restore` looks at it is removed), `server.go` 642 (any process with the pid of
the pid file counts as the server's), `manager.go` 337 (`CleanUp` removes the files of servers
whose daemons still work), `user.go` 142 (a second port), `slave.go` 161 (flow recorded for the
user who had the port before), `web.go` 83 and 134 (limits of the login are read and acted upon
in separate queries), `web.go` 292 (nothing orders two goroutines that save the configuration).
Plain to see in the code are `user.go` 39, where `ChangeUserGroup` reads the first user of the
table, and 48, where it takes the time limit of the default group, although `orm.go` says that
both limits are to be updated when the group changes; the models have both.

## Not modelled

- Frontend, `plugins/ssmgr-collector`, `tools`, `testdata`, Docker: no state the
  master or the slave depends on. `systemd` only as the restart in `Boot`.
- Handlers of `web.go` that only read, sessions, routing, JSON, templates and mail: no
  state but the caller's session. `parseLogrusLevels` and colours of log entries: pure.
- Entries that are still in the queue of the log hook when the master ends are lost; a
  fatal entry is always one of them. Nothing promises otherwise.
- `CleanInvalidAllocation` and `InitSlaves`: they run once, before anything else does.
- Several slaves: each has tables, ports and RPCs of its own, and `updateStats` and
  `checkUserLimit` treat one after the other; the model's slave is in every group.
- Failing queries other than those of Allocation: reads, the insertion and saving of users, codes
  and flow records. Most errors are ignored by the code and leave a request without effect.
- systemd's control group: under the shipped unit a crash of the slave also ends its
  ss-servers. The models let them live, as the code of `Restore` is written for; that all of
  them die with the slave is the events `die` and `crash` together.
- TLS, tokens, gRPC set-up, flags, logging, command lines of `ss-server` and iptables:
  data or I/O without state.
- `kill()` does not wait for the process, and nothing reaps: the model's
  processes die at once.

## Plan

Order of work: the slave first, since all of the concurrency with locks, crashes and
recovery is in it; then the master's allocations, which talk to it through
PortTable; then what the master does beside that.

Done: SSServer, SSManager, PortTable, Allocation, Flow, LogHook, Web; twelve runs;
the theorems above.

Left, most useful first:

1. **Groups**: several slaves and groups, a slave that is down while the others are
   not, and an abstract *AccessControl* (who may use which port) that Allocation implements
   without overlap.
2. Proofs: what of a regime with timers PortTable still allows, if revivals are steps of it.
