------------------------------ MODULE SSManager ------------------------------
(***************************************************************************)
(* The slave program: the manager of shadowsocks servers                   *)
(* (slave/shadowsocks/manager.go) on top of the Server objects of          *)
(* SSServer, driven by the RPC handlers of slave/server.go and by the life *)
(* of the program itself (run() in slave/cli/slave.go): start, Restore,    *)
(* serve, and either a graceful shutdown with CleanUp or a crash, after    *)
(* which only the disk, the iptables rules and the processes are left.     *)
(***************************************************************************)
EXTENDS SSServer

\* The goroutine of run(); the other callers are RPC handlers.  The events of
\* a regime may also be: crash (the slave dies), reboot (the machine
\* restarts), reuse (after that, old pids are taken), free (Free requests
\* arrive), shutdown (the slave is interrupted).
CONSTANT Main

Handler == Caller \ {Main}

ASSUME MainIsCaller == Main \in Caller
ASSUME NoneIsNoPort == None \notin Port
ASSUME PasswordsExist == Password # {}

VARIABLES
    phase,      \* where run() is
    serverMu,   \* the holder of the manager's lock, or None
    servers,    \* [Port -> Server or None]: the managed servers
    mpc, obj,   \* per caller: where it is in Add, Remove, restore; its Server
    todo,       \* the run directories Restore or CleanUp has yet to visit
    acked       \* history: ports whose Allocate succeeded, since then neither
                \* freed nor cleaned up

mgrVars == <<phase, serverMu, servers, mpc, obj, todo, acked>>
allVars == <<vars, mgrVars>>

Phase == {"down", "restore", "serve", "clean", "off"}
MgrPC == {"idle", "add", "adding", "removing", "deleting",
          "loaded", "checked", "discard"}

MgrTypeOK ==
    /\ TypeOK
    /\ phase \in Phase
    /\ serverMu \in Caller \cup {None}
    /\ servers \in [Port -> Server \cup {None}]
    /\ mpc \in [Caller -> MgrPC]
    /\ obj \in [Caller -> Server \cup {None}]
    /\ todo \subseteq Port /\ acked \subseteq Port

AnyPassword == CHOOSE w \in Password : TRUE

EmptyMemory ==
    /\ rtMu = [s \in Server |-> None]
    /\ runtime = [s \in Server |-> None]
    /\ extra = [s \in Server |-> FALSE]
    /\ cancel = [s \in Server |-> None]
    /\ password = [s \in Server |-> AnyPassword]
    /\ pc = [t \in Thread |-> IF t \in Daemon THEN "off" ELSE "idle"]
    /\ target = [t \in Thread |-> None]
    /\ done = {}
    /\ serverMu = None
    /\ servers = [p \in Port |-> None]
    /\ mpc = [t \in Caller |-> "idle"]
    /\ obj = [t \in Caller |-> None]
    /\ todo = {}

MgrInit ==
    /\ events \in Regimes
    /\ EmptyMemory /\ phase = "down"
    /\ InitWorld /\ dir = {} /\ acked = {}

-----------------------------------------------------------------------------
(* Helpers *)

\* A Server object nobody refers to: the model's garbage, reused when the
\* code allocates one.
Garbage(s) ==
    /\ \A p \in Port : servers[p] # s
    /\ \A t \in Caller : obj[t] # s
    /\ \A d \in Daemon : target[d] # s

\* Which unused object is taken makes no difference.
NewServer(p) == CHOOSE s \in Server : PortOf[s] = p /\ Garbage(s)
CanAllocate(p) == \E s \in Server : PortOf[s] = p /\ Garbage(s)

MgrFree == serverMu = None
AtRest(t) == mpc[t] = "idle"
Managed(p) == servers[p] # None
Up == phase \in {"restore", "serve", "clean"}

Go(t, here, s) ==
    /\ mpc' = [mpc EXCEPT ![t] = here]
    /\ obj' = [obj EXCEPT ![t] = s]

-----------------------------------------------------------------------------
(* Add: MkdirAll before the lock, then Start and the map under serverMu.   *)
(* Whoever fails leaves the directory and the files in it as they are.     *)

\* An Allocate request: prepareServer makes a Server with its own lock.
Allocate(t, p, w) ==
    /\ phase = "serve" /\ AtRest(t) /\ CanAllocate(p)
    /\ LET s == NewServer(p) IN
          /\ runtime' = [runtime EXCEPT ![s] = None]
          /\ extra' = [extra EXCEPT ![s] = FALSE]
          /\ cancel' = [cancel EXCEPT ![s] = None]
          /\ password' = [password EXCEPT ![s] = w]
          /\ Go(t, "add", s)
    /\ MkdirAll(p)
    /\ UNCHANGED <<rtMu, threads, rule, proc, phase, serverMu, servers, todo, acked>>

\* Bug: Add does not look whether the port is managed already.
AddLockBlind(t) ==
    /\ mpc[t] = "add" /\ MgrFree
    /\ Start(t, obj[t])
    /\ serverMu' = t
    /\ Go(t, "adding", obj[t])
    /\ UNCHANGED <<phase, servers, todo, acked>>

AddLock(t) ==
    /\ mpc[t] = "add" /\ MgrFree
    /\ ~Managed(PortOf[obj[t]])
    /\ Start(t, obj[t])
    /\ serverMu' = t
    /\ Go(t, "adding", obj[t])
    /\ UNCHANGED <<phase, servers, todo, acked>>

\* Bug: Restore tries a server that cannot be started again and again.
AddRetries(t) == Go(t, IF t = Main THEN "add" ELSE "idle",
                       IF t = Main THEN obj[t] ELSE None)

\* What a caller does after a failed Add: a handler returns the error,
\* Restore removes the directory.
AddFailed(t) == Go(t, IF t = Main THEN "discard" ELSE "idle",
                      IF t = Main THEN obj[t] ELSE None)

AddExists(t) ==
    /\ mpc[t] = "add" /\ MgrFree
    /\ Managed(PortOf[obj[t]])
    /\ AddFailed(t)
    /\ UNCHANGED <<vars, phase, serverMu, servers, todo, acked>>

AddDone(t) ==
    /\ mpc[t] = "adding" /\ pc[t] \in {"ok", "fail"}
    /\ pc' = [pc EXCEPT ![t] = "idle"]
    /\ serverMu' = None
    /\ \/ /\ pc[t] = "ok"
          /\ servers' = [servers EXCEPT ![PortOf[obj[t]]] = obj[t]]
          /\ acked' = acked \cup {PortOf[obj[t]]}
          /\ Go(t, "idle", None)
       \/ /\ pc[t] = "fail"
          /\ UNCHANGED <<servers, acked>>
          /\ AddFailed(t)
    /\ UNCHANGED <<memory, target, done, disk, rule, proc, phase, todo>>

-----------------------------------------------------------------------------
(* Remove, called by Free and by CleanUp: all of it under serverMu, Stop   *)
(* also under rtMu; the watch daemon may run between Stop and RemoveAll.   *)

RemoveLock(t, p) ==
    /\ AtRest(t) /\ MgrFree /\ Managed(p)
    /\ serverMu' = t
    /\ servers' = [servers EXCEPT ![p] = None]
    /\ acked' = acked \ {p}
    /\ Go(t, "removing", servers[p])
    /\ UNCHANGED <<vars, phase, todo>>

FreePort(t, p) ==
    /\ "free" \in events /\ phase = "serve"
    /\ RemoveLock(t, p)

\* Bug: Remove unlocks before it removes the files.
RemoveStopUnlocks(t) ==
    /\ mpc[t] = "removing"
    /\ Stop(t, obj[t])
    /\ Go(t, "deleting", obj[t])
    /\ serverMu' = None
    /\ UNCHANGED <<phase, servers, todo, acked>>

RemoveStop(t) ==
    /\ mpc[t] = "removing"
    /\ Stop(t, obj[t])
    /\ Go(t, "deleting", obj[t])
    /\ UNCHANGED <<phase, serverMu, servers, todo, acked>>

\* Bug: Remove returns without unlocking.
RemoveFilesLocked(t) ==
    /\ mpc[t] = "deleting"
    /\ RemoveAll(PortOf[obj[t]])
    /\ Go(t, "idle", None)
    /\ UNCHANGED <<memory, threads, rule, proc, phase, serverMu, servers, todo,
                   acked>>

RemoveFiles(t) ==
    /\ mpc[t] = "deleting"
    /\ RemoveAll(PortOf[obj[t]])
    /\ serverMu' = None
    /\ Go(t, "idle", None)
    /\ UNCHANGED <<memory, threads, rule, proc, phase, servers, todo, acked>>

-----------------------------------------------------------------------------
(* systemd starts the program again however it ended (Restart=always).     *)
(* Restore, before any request is served: for every run directory (in the  *)
(* order of their names; the order makes no difference) load the           *)
(* configuration and the pid file, look whether the process lives, start   *)
(* its watch daemon, look again, and add or start the server.              *)

Boot ==
    /\ phase \in {"down", "off"}
    /\ phase' = "restore"
    /\ todo' = dir
    /\ UNCHANGED <<vars, serverMu, servers, mpc, obj, acked>>

\* Bugs: the error of restoreConf is ignored; Extra is not part of the file;
\* the pid file is not read.
ReadableAlways(p) == TRUE
NoExtra(p) == FALSE
NoRuntime(p) == None

\* restoreConf: a configuration that cannot be parsed is an error.  What
\* save() wrote has Extra.
Readable(p) == conf[p] \in Password
HasExtra(p) == conf[p] \in Password

\* restoreRuntime: the process of the pid file, if it is alive.
RestoredRuntime(p) == IF Live(pidFile[p]) THEN pidFile[p] ELSE None

\* Restore of one directory; an error makes manager.Restore remove it.
RestoreLoad(p) ==
    /\ phase = "restore" /\ AtRest(Main) /\ p \in todo /\ CanAllocate(p)
    /\ todo' = todo \ {p}
    /\ LET s == NewServer(p) IN
       IF ~Readable(p)
       THEN /\ Go(Main, "discard", s)
            /\ UNCHANGED <<runtime, extra, cancel, password>>
       ELSE /\ password' = [password EXCEPT ![s] = conf[p]]
            /\ extra' = [extra EXCEPT ![s] = HasExtra(p)]
            /\ cancel' = [cancel EXCEPT ![s] = None]
            /\ runtime' = [runtime EXCEPT ![s] = RestoredRuntime(p)]
            /\ Go(Main, "loaded", s)
    /\ UNCHANGED <<rtMu, threads, disk, rule, proc, phase, serverMu, servers, acked>>

\* Bug: Server.Restore leaves afterStart() to start(), which a server that is
\* alive never reaches.
RestoreAfterNothing ==
    /\ mpc[Main] = "loaded"
    /\ Go(Main, "checked", obj[Main])
    /\ UNCHANGED <<vars, phase, serverMu, servers, todo, acked>>

\* The end of Server.Restore: afterStart() if Alive(), without rtMu.
RestoreAfter ==
    /\ mpc[Main] = "loaded"
    /\ IF Alive(obj[Main])
       THEN AfterStart(Main, obj[Main], "idle")
       ELSE UNCHANGED <<cancel, threads, rule>>
    /\ Go(Main, "checked", obj[Main])
    /\ UNCHANGED <<rtMu, runtime, extra, password, disk, proc,
                   phase, serverMu, servers, todo, acked>>

\* Bug: every restored server is taken for alive.
RestoreAliveBlind ==
    /\ mpc[Main] = "checked" /\ Free(obj[Main]) /\ MgrFree
    /\ servers' = [servers EXCEPT ![PortOf[obj[Main]]] = obj[Main]]
    /\ Go(Main, "idle", None)
    /\ UNCHANGED <<vars, phase, serverMu, todo, acked>>

\* manager.restore looks at Alive() again: addAlive, if it is still alive.
RestoreAlive ==
    /\ mpc[Main] = "checked" /\ Free(obj[Main]) /\ MgrFree
    /\ Alive(obj[Main])
    /\ servers' = [servers EXCEPT ![PortOf[obj[Main]]] = obj[Main]]
    /\ Go(Main, "idle", None)
    /\ UNCHANGED <<vars, phase, serverMu, todo, acked>>

\* Else Add, on a clone that shares the handle and the cancel function.
RestoreDead ==
    /\ mpc[Main] = "checked" /\ Free(obj[Main])
    /\ ~Alive(obj[Main])
    /\ CanAllocate(PortOf[obj[Main]])
    /\ LET o == obj[Main]  s == NewServer(PortOf[o]) IN
          /\ runtime' = [runtime EXCEPT ![s] = runtime[o]]
          /\ extra' = [extra EXCEPT ![s] = extra[o]]
          /\ cancel' = [cancel EXCEPT ![s] = cancel[o]]
          /\ password' = [password EXCEPT ![s] = password[o]]
          /\ Go(Main, "add", s)
    /\ MkdirAll(PortOf[obj[Main]])
    /\ UNCHANGED <<rtMu, threads, rule, proc, phase, serverMu, servers, todo, acked>>

Discard ==
    /\ mpc[Main] = "discard"
    /\ RemoveAll(PortOf[obj[Main]])
    /\ Go(Main, "idle", None)
    /\ UNCHANGED <<memory, threads, rule, proc, phase, serverMu, servers, todo, acked>>

Serve ==
    /\ phase = "restore" /\ AtRest(Main) /\ todo = {}
    /\ phase' = "serve"
    /\ UNCHANGED <<vars, serverMu, servers, mpc, obj, todo, acked>>

-----------------------------------------------------------------------------
(* The end of the program *)

\* GracefulStop waits for the handlers; CleanUp removes every directory,
\* with no lock, and then every server.
Shutdown ==
    /\ "shutdown" \in events /\ phase = "serve"
    /\ \A t \in Handler : AtRest(t)
    /\ phase' = "clean"
    /\ todo' = dir
    /\ acked' = {}
    /\ UNCHANGED <<vars, serverMu, servers, mpc, obj>>

CleanDir(p) ==
    /\ phase = "clean" /\ p \in todo
    /\ RemoveAll(p)
    /\ todo' = todo \ {p}
    /\ UNCHANGED <<memory, threads, rule, proc, phase, serverMu, servers, mpc, obj,
                   acked>>

CleanServer(p) ==
    /\ phase = "clean" /\ todo = {}
    /\ RemoveLock(Main, p)

Gone ==
    /\ rtMu' = [s \in Server |-> None]
    /\ runtime' = [s \in Server |-> None]
    /\ extra' = [s \in Server |-> FALSE]
    /\ cancel' = [s \in Server |-> None]
    /\ password' = [s \in Server |-> AnyPassword]
    /\ pc' = [t \in Thread |-> IF t \in Daemon THEN "off" ELSE "idle"]
    /\ target' = [t \in Thread |-> None]
    /\ done' = {}
    /\ serverMu' = None
    /\ servers' = [p \in Port |-> None]
    /\ mpc' = [t \in Caller |-> "idle"]
    /\ obj' = [t \in Caller |-> None]
    /\ todo' = {}
    /\ UNCHANGED <<disk, acked>>

\* The process ends when CleanUp returns, whatever its daemons were doing.
ExitClean ==
    /\ phase = "clean" /\ todo = {} /\ AtRest(Main)
    /\ \A p \in Port : ~Managed(p)
    /\ phase' = "off"
    /\ Gone /\ UNCHANGED <<rule, proc>>

Crash ==
    /\ "crash" \in events /\ Up
    /\ phase' = "down"
    /\ Gone /\ UNCHANGED <<rule, proc>>

\* The machine restarts: no ss-server and no rule is left, and the pids in
\* the pid files may soon be those of other processes.
Reboot ==
    /\ "reboot" \in events /\ Up
    /\ phase' = "down"
    /\ \E reused \in SUBSET {q \in Pid : \E p \in Port : pidFile[p] = q} :
          /\ "reuse" \in events \/ reused = {}
          /\ proc' = [q \in Pid |-> IF q \in reused THEN Other ELSE None]
    /\ rule' = {}
    /\ Gone

-----------------------------------------------------------------------------
\* The steps of SSServer that the manager does not start itself.  A daemon's
\* timer takes 5 s: it never fires between the two looks RestoreAfter and
\* RestoreAlive or RestoreDead take at the Server it was just started for.
ServerStep ==
    /\ \/ \E t \in Thread : Starting(t)
       \/ \E d \in Daemon :
             /\ Watching(d)
             /\ pc[d] = "select" /\ d \notin done =>
                   ~(mpc[Main] = "checked" /\ target[d] = obj[Main])
       \/ \E q \in Pid : Die(q)
    /\ UNCHANGED mgrVars

Request(t) ==
    \/ \E p \in Port, w \in Password : Allocate(t, p, w)
    \/ \E p \in Port : FreePort(t, p)

Handle(t) ==
    AddLock(t) \/ AddExists(t) \/ AddDone(t) \/ RemoveStop(t) \/ RemoveFiles(t)

RestoreStep ==
    \/ \E p \in Port : RestoreLoad(p)
    \/ RestoreAfter \/ RestoreAlive \/ RestoreDead \/ Discard \/ Serve

CleanStep == (\E p \in Port : CleanDir(p) \/ CleanServer(p)) \/ ExitClean

MgrNext ==
    /\ \/ ServerStep
       \/ \E t \in Handler : Request(t)
       \/ \E t \in Caller : Handle(t)
       \/ Boot \/ RestoreStep
       \/ Shutdown \/ CleanStep
       \/ Crash \/ Reboot
    /\ UNCHANGED events

MgrSpec == MgrInit /\ [][MgrNext]_<<allVars, events>>
-----------------------------------------------------------------------------
(* Properties *)

Quiet == phase = "serve" /\ MgrFree
Without(kinds) == events \cap kinds = {}
NotBoth(these, those) == Without(these) \/ Without(those)

\* While the slave serves and nobody is inside Add or Remove, every ss-server
\* that runs belongs to a managed Server, runs with that Server's password,
\* and is the process that Stop would kill: no order of requests, failed
\* starts, crashes and restorations leaves an ss-server behind (manager.go
\* Add, Remove, Restore).  The watch daemons keep this only as long as no
\* server is removed, see RemoveKills, and a crash must not fall between
\* their exec() and the end of the start(), nor into CleanUp, after the pid
\* files are gone.
NoOrphan ==
    Quiet /\ NotBoth({"tick"}, {"free", "crash", "reboot", "shutdown"})
          /\ NotBoth({"crash"}, {"shutdown"}) =>
        \A q \in Pid, p \in Port : Serves(q, p) =>
            LET s == servers[p] IN
            /\ s # None
            /\ Free(s) => runtime[s] = q /\ proc[q].password = password[s]

\* Every managed Server has its configuration on disk before its Add returns
\* and as long as it is managed, so that a crash at any time finds it (save()
\* is called before exec()); CleanUp removes the files first.  Two daemons of
\* one port break this: one of a removed Server, or the one that Restore
\* starts for a Server that dies before the next look at it.
Durable ==
    phase \in {"restore", "serve"} /\ NotBoth({"tick"}, {"free", "crash", "reboot"}) =>
        \A p \in Port : Managed(p) /\ Free(servers[p]) =>
            conf[p] = password[servers[p]]

\* From the moment a server enters the map until it leaves it, exactly one
\* watch daemon works on it, one that goes on and that Stop will cancel, and
\* the iptables rule of its port is there: also when it is one that Restore
\* has found alive, when its process cannot be started, and whatever the
\* daemons of removed servers of its port still do (afterStart and beforeStop
\* of server.go, Add, Remove and restore of manager.go).
WatchedBy(d, s) ==
    /\ cancel[s] = d /\ pc[d] # "off" /\ d \notin done
    /\ \A e \in Daemon : target[e] = s <=> e = d

Guarded ==
    \A p \in Port : Managed(p) =>
        p \in rule /\ \E d \in Daemon : WatchedBy(d, servers[p])

\* GetStats dereferences Extra of every managed Server while it holds only
\* read locks: Extra is never nil then, since kill() resets it only on the
\* way out of the map and every restored configuration carries it.
StatsSafe ==
    \A p \in Port : MgrFree /\ Managed(p) /\ Free(servers[p]) => extra[servers[p]]

\* A server whose Allocate succeeded is managed whenever the slave serves,
\* until it is freed, however often the slave crashed in between.
NeverLost == Quiet => \A p \in acked : Managed(p)

\* NeverLost holds as long as no ss-server dies; if one may, Restore can lose
\* it: it truncates the configuration of a dead server to write it again, and
\* it removes a server that dies between two looks at it.  What a crash
\* inside CleanUp leaves running takes its port from the next server.
SurvivesCrash ==
    Without({"die", "reboot", "tick"}) /\ NotBoth({"crash"}, {"shutdown"}) =>
        NeverLost

\* Restore starts all ss-servers that leave their directories: whenever the
\* slave serves, a process runs for every managed server, if no ss-server dies
\* but with the machine.
AllServed == Quiet => \A p \in Port : Managed(p) => Bound(p)

\* AllServed holds if the pids of the machine's earlier life are not reused.
SurvivesReboot == Without({"die", "tick", "reuse"}) => AllServed

\* Remove kills the ss-server if found: when nobody is inside Add or Remove,
\* no process runs on a port that is not managed.
RemoveKills ==
    Quiet => \A q \in Pid, p \in Port : Serves(q, p) => Managed(p)

\* CleanUp removes all servers and files: when the program ends after an
\* interrupt, no ss-server runs, no run directory is left and no iptables
\* rule (manager.go: "CleanUp removes all servers and files").
NothingLeft ==
    phase = "off" => (\A p \in Port : ~Bound(p)) /\ dir = {} /\ rule = {}

\* NothingLeft holds unless a watch daemon starts a server during CleanUp, if
\* the program did not crash before: whatever failed in Add, Remove or Restore.
CleanedUp == Without({"tick", "crash", "reboot"}) => NothingLeft

\* Every request is answered and Restore ends: serverMu and rtMu are always
\* taken in this order and no daemon wants serverMu, so nobody waits for ever
\* (unless the model has run out of names for goroutines or processes).
Exhausted == ~SpareDaemon \/ \A q \in Pid : ~Fresh(q)
RPCReturns == \A t \in Handler : ~AtRest(t) ~> AtRest(t) \/ Exhausted
RestoreEnds == phase = "restore" ~> phase # "restore" \/ Exhausted

Serving(t) == Starting(t) /\ UNCHANGED mgrVars
Waking(d) == (Exit(d) \/ Check(d) \/ NotNeeded(d) \/ Revive(d)) /\ UNCHANGED mgrVars

\* Every goroutine that is not idle goes on, a lock it waits for is granted if
\* it is free over and over, and main goes on.  Timers need not fire.
MgrFairness ==
    /\ \A t \in Caller : SF_allVars(Handle(t) \/ Serving(t))
    /\ \A d \in Daemon : SF_allVars(Waking(d) \/ Serving(d))
    /\ WF_allVars(RestoreStep) /\ WF_allVars(CleanStep)

MgrFairSpec == MgrSpec /\ MgrFairness

-----------------------------------------------------------------------------
(* What the manager promises the master, see PortTable: while the timers   *)
(* of the watch daemons do not fire and nobody interrupts the slave        *)
(* (CleanUp removes the files before the servers), every behaviour of the  *)
(* slave is one of PortTable, with the passwords of the managed servers as *)
(* its table and the readable configurations as its disk.                  *)

table == [p \in Port |-> IF Managed(p) THEN password[servers[p]] ELSE None]
saved == [p \in Port |-> IF conf[p] \in Password THEN conf[p] ELSE None]

PT == INSTANCE PortTable WITH disk <- saved
PortTableSpec == PT!Spec
=============================================================================
