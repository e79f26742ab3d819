------------------------------ MODULE SSServer ------------------------------
(***************************************************************************)
(* One slave's shadowsocks.Server objects (slave/shadowsocks/server.go):   *)
(* the rtMu lock, the runtime handle, the watch daemon goroutines, the run *)
(* directory on disk, the iptables rule, and the ss-server processes that  *)
(* the operating system runs.                                              *)
(*                                                                         *)
(* A thread is a caller of the exported methods or the goroutine of a      *)
(* watch daemon.  start() holds rtMu over several steps, because it can be *)
(* overtaken by what needs no lock: the death of a process, the removal of *)
(* the run directory, the crash of the slave.  A critical section that     *)
(* nothing outside the lock can observe half done is one step.             *)
(***************************************************************************)
EXTENDS Naturals, FiniteSets

CONSTANTS
    Server,     \* Server objects
    Port,       \* ports, each with the run directory ~/.ssmgr/<port>
    PortOf,     \* PortOf[s]: the port a Server object was made for
    Password,   \* passwords
    Caller,     \* goroutines that call Start, Stop and Restart
    Daemon,     \* goroutines that startWatchDaemon may spawn
    Pid,        \* process ids
    Regimes,    \* environments: sets of the events that may happen in one
    None,       \* Go's nil, or a missing file
    Torn,       \* a configuration file that was truncated, not yet written
    Other       \* a process that is no ss-server

Thread == Caller \cup Daemon

ASSUME PortOfType == PortOf \in [Server -> Port]
ASSUME ThreadsDisjoint == Caller \cap Daemon = {}
ASSUME NoneIsNil == None \notin Thread \cup Server \cup Pid \cup Password \cup {Torn, Other}
ASSUME TornIsNoPassword == Torn \notin Password
ASSUME NoProcess == {None, Other} \cap [port : Port, password : Password] = {}

\* What may happen in a behaviour, chosen once and for all.  tick: the 5 s
\* timer of a watch daemon fires.  die: a process dies.  execfail: running
\* ss-server fails.  rmdir: a run directory is removed.
VARIABLE events

VARIABLES
    rtMu,       \* [Server -> Thread or None]: the holder of the write lock
    runtime,    \* [Server -> Pid or None]: the handle of the process
    extra,      \* [Server -> BOOLEAN]: is Extra (the start time) set
    cancel,     \* [Server -> Daemon or None]: watchDaemon.cancel
    password,   \* [Server -> Password]
    pc, target, \* per thread: where it is, the Server it works on
    done,       \* daemons whose context is cancelled
    dir,        \* ports whose run directory exists
    conf,       \* [Port -> ss_server.conf]
    pidFile,    \* [Port -> ss_server.pid]
    rule,       \* ports with a connection limit rule in iptables
    proc        \* [Pid -> the process with that id, or None]

memory == <<rtMu, runtime, extra, cancel, password>>
threads == <<pc, target, done>>
disk == <<dir, conf, pidFile>>
vars == <<memory, threads, disk, rule, proc>>

InStart == {"write", "exec", "pid"}
CallerPC == {"idle", "ok", "fail"} \cup InStart
DaemonPC == {"off", "select", "check", "revive"} \cup InStart
Process == [port : Port, password : Password]   \* an ss-server

MemoryType ==
    /\ rtMu \in [Server -> Thread \cup {None}]
    /\ runtime \in [Server -> Pid \cup {None}]
    /\ extra \in [Server -> BOOLEAN]
    /\ cancel \in [Server -> Daemon \cup {None}]
    /\ password \in [Server -> Password]

ThreadType ==
    /\ pc \in [Thread -> CallerPC \cup DaemonPC]
    /\ \A t \in Caller : pc[t] \in CallerPC
    /\ \A d \in Daemon : pc[d] \in DaemonPC
    /\ target \in [Thread -> Server \cup {None}]
    /\ done \subseteq Daemon

WorldType ==
    /\ dir \subseteq Port
    /\ conf \in [Port -> Password \cup {None, Torn}]
    /\ pidFile \in [Port -> Pid \cup {None}]
    /\ rule \subseteq Port
    /\ proc \in [Pid -> Process \cup {None, Other}]

TypeOK == MemoryType /\ ThreadType /\ WorldType

InitMemory ==
    /\ rtMu = [s \in Server |-> None]
    /\ runtime = [s \in Server |-> None]
    /\ extra = [s \in Server |-> FALSE]
    /\ cancel = [s \in Server |-> None]
    /\ password \in [Server -> Password]
    /\ pc = [t \in Thread |-> IF t \in Daemon THEN "off" ELSE "idle"]
    /\ target = [t \in Thread |-> None]
    /\ done = {}

InitWorld ==
    /\ conf = [p \in Port |-> None]
    /\ pidFile = [p \in Port |-> None]
    /\ rule = {}
    /\ proc = [q \in Pid |-> None]

Init == events \in Regimes /\ InitMemory /\ InitWorld /\ dir = Port

-----------------------------------------------------------------------------
(* Helpers *)

\* What kill(pid, 0) tells.
Live(q) == q # None /\ proc[q] # None
Alive(s) == Live(runtime[s])
Serves(q, p) == proc[q] \in Process /\ proc[q].port = p
Bound(p) == \E q \in Pid : Serves(q, p)

\* The kernel hands out a pid that no process has.  That no file or handle
\* still names it is the model's assumption that pids are not reused so soon.
Fresh(q) ==
    /\ proc[q] = None
    /\ \A s \in Server : runtime[s] # q
    /\ \A p \in Port : pidFile[p] # q

\* A bound of the model, not of the code: a start() that will spawn a watch
\* daemon does not begin unless a goroutine name will be left for it.
SpareDaemon ==
    Cardinality({d \in Daemon : pc[d] = "off"})
        > Cardinality({s \in Server : rtMu[s] # None /\ cancel[s] = None})
CanWatch(s) == PortOf[s] \notin dir \/ cancel[s] # None \/ SpareDaemon

\* Bug: the goroutine of the watch daemon returns after its first revival.
EndedOnce(t, result) == result

\* Where a thread is when start() is over.
Ended(t, result) == IF t \in Daemon THEN "select" ELSE result
Leave(t) == IF t \in Daemon THEN target[t] ELSE None

Free(s) == rtMu[s] = None

-----------------------------------------------------------------------------
(* start(), from the assignment of Extra to the truncation of the          *)
(* configuration file by WriteFile.  Without the directory save() fails    *)
(* and Extra stays set.                                                    *)

Begin(t, s) ==
    /\ extra' = [extra EXCEPT ![s] = TRUE]
    /\ IF PortOf[s] \in dir
       THEN /\ conf' = [conf EXCEPT ![PortOf[s]] = Torn]
            /\ rtMu' = [rtMu EXCEPT ![s] = t]
            /\ pc' = [pc EXCEPT ![t] = "write"]
            /\ target' = [target EXCEPT ![t] = s]
       ELSE /\ pc' = [pc EXCEPT ![t] = Ended(t, "fail")]
            /\ target' = [target EXCEPT ![t] = Leave(t)]
            /\ UNCHANGED <<conf, rtMu>>
    /\ UNCHANGED <<password, dir, pidFile>>

Idle(t) == pc[t] \in {"idle", "ok", "fail"}

Start(t, s) ==
    /\ Idle(t) /\ Free(s) /\ CanWatch(s)
    /\ \/ /\ runtime[s] = None
          /\ Begin(t, s)
       \/ /\ runtime[s] # None      \* errServerAlreadyStarted
          /\ pc' = [pc EXCEPT ![t] = "fail"]
          /\ UNCHANGED <<extra, conf, rtMu, target, password, dir, pidFile>>
    /\ UNCHANGED <<runtime, cancel, done, rule, proc>>

\* Bug: the error of a failed write is lost.
WriteNothing(t) ==
    /\ pc[t] = "write"
    /\ pc' = [pc EXCEPT ![t] = "exec"]
    /\ UNCHANGED <<memory, target, done, disk, rule, proc>>

\* The file is written through the descriptor opened in Begin.  Of several
\* threads that write the file of a port the last one wins; what is written to
\* a file that was removed since, and maybe made anew by another thread, is
\* lost.  The model does not tell such files apart: both may happen.
Write(t) ==
    LET p == PortOf[target[t]]
        others == {u \in Thread \ {t} : pc[u] = "write" /\ PortOf[target[u]] = p}
    IN  /\ pc[t] = "write"
        /\ \/ conf[p] # None /\ conf' = [conf EXCEPT ![p] = password[target[t]]]
           \/ (conf[p] # Torn \/ others # {}) /\ UNCHANGED conf
        /\ pc' = [pc EXCEPT ![t] = "exec"]
        /\ UNCHANGED <<memory, target, done, dir, pidFile, rule, proc>>

\* start() gives up: the lock is released and runtime stays nil.
Fail(t) ==
    /\ rtMu' = [rtMu EXCEPT ![target[t]] = None]
    /\ pc' = [pc EXCEPT ![t] = Ended(t, "fail")]
    /\ target' = [target EXCEPT ![t] = Leave(t)]
    /\ UNCHANGED <<runtime, extra, cancel, password, done, disk, rule>>

\* cmd.Run: ss-server reads its configuration, forks, leaves the pid of the
\* child in the pid file and exits.  The child dies at once when the port is
\* bound already.
ExecOK(t) ==
    LET p == PortOf[target[t]] IN
    /\ pc[t] = "exec" /\ conf[p] \in Password
    /\ \E q \in Pid :
          /\ Fresh(q)
          /\ proc' = IF Bound(p) THEN proc
                     ELSE [proc EXCEPT ![q] = [port |-> p, password |-> conf[p]]]
          /\ pidFile' = [pidFile EXCEPT ![p] = q]
    /\ pc' = [pc EXCEPT ![t] = "pid"]
    /\ UNCHANGED <<memory, target, done, dir, conf, rule>>

ExecFail(t) ==
    /\ pc[t] = "exec"
    /\ conf[PortOf[target[t]]] \notin Password \/ "execfail" \in events
    /\ Fail(t)
    /\ UNCHANGED proc

\* startWatchDaemon and createConnLimit.  A daemon that runs already is left
\* alone (errWatchDaemonAlreadyStarted is only logged).
AfterStart(t, s, here) ==
    /\ rule' = rule \cup {PortOf[s]}
    /\ \/ /\ cancel[s] # None
          /\ pc' = [pc EXCEPT ![t] = here]
          /\ target' = [target EXCEPT ![t] = Leave(t)]
          /\ UNCHANGED <<cancel, done>>
       \/ /\ cancel[s] = None
          /\ \E d \in Daemon :
                /\ pc[d] = "off"
                /\ cancel' = [cancel EXCEPT ![s] = d]
                /\ done' = done \ {d}
                /\ pc' = [pc EXCEPT ![t] = here, ![d] = "select"]
                /\ target' = [target EXCEPT ![t] = Leave(t), ![d] = s]

\* findProcFromPidFile, then afterStart.  If the file is gone start() fails
\* and forgets the process it has just started.
ReadPid(t) ==
    LET s == target[t]  p == PortOf[target[t]] IN
    /\ pc[t] = "pid" /\ pidFile[p] # None
    /\ runtime' = [runtime EXCEPT ![s] = pidFile[p]]
    /\ rtMu' = [rtMu EXCEPT ![s] = None]
    /\ AfterStart(t, s, Ended(t, "ok"))
    /\ UNCHANGED <<extra, password, disk, proc>>

NoPid(t) ==
    /\ pc[t] = "pid" /\ pidFile[PortOf[target[t]]] = None
    /\ Fail(t)
    /\ UNCHANGED proc

-----------------------------------------------------------------------------
(* Stop and Restart.  beforeStop deletes the rule and cancels the daemon;  *)
(* kill() forgets the handle and kills the process.                        *)

\* Bug: cancel is not reset to nil.
BeforeStopKeeps(s) ==
    /\ rule' = rule \ {PortOf[s]}
    /\ done' = done \cup ({cancel[s]} \ {None})
    /\ UNCHANGED cancel

\* Bug: the connection limit is not deleted.
BeforeStopNoRule(s) ==
    /\ done' = done \cup ({cancel[s]} \ {None})
    /\ cancel' = [cancel EXCEPT ![s] = None]
    /\ UNCHANGED rule

BeforeStop(s) ==
    /\ rule' = rule \ {PortOf[s]}
    /\ done' = done \cup ({cancel[s]} \ {None})
    /\ cancel' = [cancel EXCEPT ![s] = None]

\* Bug: the handle is dropped before the signal is sent.
KillNobody(s) ==
    /\ runtime' = [runtime EXCEPT ![s] = None]
    /\ UNCHANGED proc

Kill(s) ==
    /\ runtime' = [runtime EXCEPT ![s] = None]
    /\ proc' = [q \in Pid |-> IF q = runtime[s] THEN None ELSE proc[q]]

Stop(t, s) ==
    /\ Idle(t) /\ Free(s)
    /\ BeforeStop(s) /\ Kill(s)
    /\ extra' = [extra EXCEPT ![s] = @ /\ runtime[s] = None]
    /\ UNCHANGED <<rtMu, password, pc, target, disk>>

Restart(t, s) ==
    /\ Idle(t) /\ Free(s) /\ SpareDaemon
    /\ BeforeStop(s) /\ Kill(s) /\ Begin(t, s)

-----------------------------------------------------------------------------
(* The watch daemon: select, Alive() under the read lock, and then, with   *)
(* no lock held in between, revive() under the write lock.                 *)

Tick(d) ==
    /\ "tick" \in events
    /\ pc[d] = "select" /\ d \notin done
    /\ pc' = [pc EXCEPT ![d] = "check"]
    /\ UNCHANGED <<memory, target, done, disk, rule, proc>>

Exit(d) ==
    /\ pc[d] = "select" /\ d \in done
    /\ pc' = [pc EXCEPT ![d] = "off"]
    /\ target' = [target EXCEPT ![d] = None]
    /\ done' = done \ {d}
    /\ UNCHANGED <<memory, disk, rule, proc>>

Check(d) ==
    /\ pc[d] = "check" /\ Free(target[d])
    /\ pc' = [pc EXCEPT ![d] = IF Alive(target[d]) THEN "select" ELSE "revive"]
    /\ UNCHANGED <<memory, target, done, disk, rule, proc>>

\* revive() looks again, since the server may have come back meanwhile.
NotNeeded(d) ==
    /\ pc[d] = "revive" /\ Free(target[d]) /\ Alive(target[d])
    /\ pc' = [pc EXCEPT ![d] = "select"]
    /\ UNCHANGED <<memory, target, done, disk, rule, proc>>

\* Bug: revive() trusts what Alive() said before the lock was taken.
ReviveBlind(d) ==
    /\ pc[d] = "revive" /\ Free(target[d])
    /\ CanWatch(target[d])
    /\ runtime' = [runtime EXCEPT ![target[d]] = None]
    /\ Begin(d, target[d])
    /\ UNCHANGED <<cancel, done, rule, proc>>

Revive(d) ==
    /\ pc[d] = "revive" /\ Free(target[d]) /\ ~Alive(target[d])
    /\ CanWatch(target[d])
    /\ runtime' = [runtime EXCEPT ![target[d]] = None]
    /\ Begin(d, target[d])
    /\ UNCHANGED <<cancel, done, rule, proc>>

-----------------------------------------------------------------------------
(* The environment *)

Die(q) ==
    /\ "die" \in events
    /\ proc[q] # None
    /\ proc' = [proc EXCEPT ![q] = None]
    /\ UNCHANGED <<memory, threads, disk, rule>>

\* os.RemoveAll and os.MkdirAll on the run directory of a port
RemoveAll(p) ==
    /\ dir' = dir \ {p}
    /\ conf' = [conf EXCEPT ![p] = None]
    /\ pidFile' = [pidFile EXCEPT ![p] = None]

MkdirAll(p) ==
    /\ dir' = dir \cup {p}
    /\ UNCHANGED <<conf, pidFile>>

RmDir(p) ==
    /\ "rmdir" \in events /\ p \in dir
    /\ RemoveAll(p)
    /\ UNCHANGED <<memory, threads, rule, proc>>

MkDir(p) ==
    /\ "rmdir" \in events /\ p \notin dir
    /\ MkdirAll(p)
    /\ UNCHANGED <<memory, threads, rule, proc>>

-----------------------------------------------------------------------------
Starting(t) == Write(t) \/ ExecOK(t) \/ ExecFail(t) \/ ReadPid(t) \/ NoPid(t)
Watching(d) == Tick(d) \/ Exit(d) \/ Check(d) \/ NotNeeded(d) \/ Revive(d)
Calling(t) == \E s \in Server : Start(t, s) \/ Stop(t, s) \/ Restart(t, s)

Next ==
    /\ \/ \E t \in Thread : Starting(t)
       \/ \E d \in Daemon : Watching(d)
       \/ \E t \in Caller : Calling(t)
       \/ \E q \in Pid : Die(q)
       \/ \E p \in Port : RmDir(p) \/ MkDir(p)
    /\ UNCHANGED events

Spec == Init /\ [][Next]_<<vars, events>>
-----------------------------------------------------------------------------
(* Properties *)

\* No step makes runtime forget a process that is alive, unless that step
\* kills it: a start() never runs over a live handle, and revive() looks at
\* the process again under the lock before it drops the handle.
KeepsTrack ==
    [][\A s \in Server :
          Alive(s) /\ runtime'[s] # runtime[s] => proc'[runtime[s]] = None]_vars

\* Each Server has at most one watch daemon that will go on watching it, the
\* one its cancel function stops; no daemon is left running uncancelled when
\* start() and stop() and a revival by an already cancelled daemon overlap.
DaemonOwned ==
    /\ \A s \in Server : cancel[s] # None =>
          pc[cancel[s]] # "off" /\ target[cancel[s]] = s /\ cancel[s] \notin done
    /\ \A d \in Daemon : pc[d] # "off" /\ d \notin done => cancel[target[d]] = d

\* Outside a critical section a Server that has a process handle is watched
\* by a daemon, and the iptables rule of its port is there exactly as long as
\* the daemon is: failed revivals and stops leave neither one alone behind.
Watched ==
    \A s \in Server : Free(s) =>
        /\ runtime[s] # None => cancel[s] # None
        /\ cancel[s] # None <=> PortOf[s] \in rule

\* Outside a critical section the only process on a Server's port is the one
\* its handle names: whatever the order of deaths of the process, failed
\* execs, Start, Stop, Restart and revivals, no ss-server is left untracked.
\* Removing the run directory between exec() and the reading of the pid file
\* breaks this: start() fails and the process runs on.
Tracked ==
    "rmdir" \notin events =>
        \A s \in Server, q \in Pid :
            Free(s) /\ Serves(q, PortOf[s]) => runtime[s] = q

\* A watched Server whose process is gone gets a process again, or is stopped.
StaysUp ==
    \A s \in Server :
        cancel[s] # None /\ "rmdir" \notin events
            ~> Bound(PortOf[s]) \/ cancel[s] = None

\* Goroutines are scheduled, timers fire and an RWMutex starves nobody who
\* waits for it.  That ss-server can be run, if tried over and over, is an
\* assumption about the environment.
Fairness ==
    /\ \A t \in Thread : WF_vars(Starting(t)) /\ SF_vars(ExecOK(t))
    /\ \A d \in Daemon :
          /\ WF_vars(Tick(d) \/ Exit(d))
          /\ SF_vars(Check(d) \/ NotNeeded(d) \/ Revive(d))

FairSpec == Spec /\ Fairness
=============================================================================
