------------------------- MODULE SSManagerProcesses -------------------------
(***************************************************************************)
(* Proofs about SSManager for any number of ports, Server objects,         *)
(* requests, daemons and processes: what becomes of the ss-servers.        *)
(* ProcInv says from where every running ss-server can be found again: the *)
(* pid file of its port, and, while the program runs, the Server that uses *)
(* the port.  The invariants of the second part say that what was promised *)
(* to the master runs and that what was removed leaves no rule.  Each of   *)
(* them holds under the events that its property excludes, as stated there.*)
(* GuardInv says who watches the Servers, under any event.                 *)
(***************************************************************************)
EXTENDS SSManagerDisk

USE PortOfType, ThreadsDisjoint, NoneIsNil, TornIsNoPassword, NoProcess,
    MainIsCaller

\* There is nothing in a directory that does not exist, and a pid file or a
\* handle that names a live ss-server names one of its own port.
DiskInv ==
    /\ \A p \in Port \ dir : conf[p] = None /\ pidFile[p] = None
    /\ \A p \in Port, q \in Pid :
          pidFile[p] = q /\ proc[q] \in Process => proc[q].port = p
    /\ \A s \in Server, q \in Pid :
          runtime[s] = q /\ proc[q] \in Process => proc[q].port = PortOf[s]

LEMMA ServerStepDisk ==
    ASSUME MInv, DiskInv, ServerStep
    PROVE  DiskInv'
<1> USE DEF MInv, MgrTypeOK, TypeOK, MemoryType, ThreadType, WorldType, DiskInv
<1>1. ASSUME NEW t \in Thread, Write(t)
      PROVE  DiskInv'
  BY <1>1 DEF Write, memory, LockInv, InStart
<1>2. ASSUME NEW t \in Thread, ExecOK(t)
      PROVE  DiskInv'
  <2>1. target[t] \in Server /\ PortOf[target[t]] \in Port
    BY <1>2 DEF ExecOK, LockInv, InStart
  <2>2. PICK q \in Pid :
           /\ Fresh(q)
           /\ \/ proc' = proc
              \/ proc' = [proc EXCEPT ![q] =
                    [port |-> PortOf[target[t]], password |-> conf[PortOf[target[t]]]]]
           /\ pidFile' = [pidFile EXCEPT ![PortOf[target[t]]] = q]
    BY <1>2 DEF ExecOK
  <2> QED
    BY <1>2, <2>1, <2>2 DEF ExecOK, Fresh, memory, Process
<1>3. ASSUME NEW t \in Thread, ExecFail(t) \/ NoPid(t)
      PROVE  DiskInv'
  BY <1>3 DEF ExecFail, NoPid, Fail, disk
<1>4. ASSUME NEW t \in Thread, ReadPid(t)
      PROVE  DiskInv'
  BY <1>4 DEF ReadPid, disk, LockInv, InStart
<1>5. ASSUME NEW d \in Daemon, Watching(d)
      PROVE  DiskInv'
  BY <1>5 DEF Watching, Tick, Exit, Check, NotNeeded, Revive, Begin, memory,
     disk, LockInv
<1>6. ASSUME NEW q \in Pid, Die(q)
      PROVE  DiskInv'
  BY <1>6 DEF Die, memory, disk, Process
<1> QED
  BY <1>1, <1>2, <1>3, <1>4, <1>5, <1>6 DEF ServerStep, Starting

LEMMA DiskNext ==
    ASSUME MInv, DiskInv, [MgrNext]_<<allVars, events>>
    PROVE  DiskInv'
<1> USE DEF MInv, MgrTypeOK, TypeOK, MemoryType, WorldType, DiskInv
<1>1. ASSUME NEW t \in Handler, NEW p \in Port, NEW w \in Password, Allocate(t, p, w)
      PROVE  DiskInv'
  BY <1>1 DEF Allocate, MkdirAll
<1>2. ASSUME NEW t \in Caller, AddLock(t)
      PROVE  DiskInv'
  BY <1>2 DEF AddLock, Start, Begin, CallerInv, AtRest
<1>3. ASSUME NEW t \in Caller, RemoveStop(t)
      PROVE  DiskInv'
  BY <1>3 DEF RemoveStop, Stop, Kill, disk, Process
<1>4. ASSUME NEW p \in Port, RemoveAll(p), UNCHANGED <<runtime, proc>>
      PROVE  DiskInv'
  BY <1>4 DEF RemoveAll
<1>5. ASSUME NEW p \in Port, RestoreLoad(p)
      PROVE  DiskInv'
  <2>1. NewServer(p) \in Server /\ PortOf[NewServer(p)] = p
    BY <1>5, NewServerIsGarbage DEF RestoreLoad
  <2>2. RestoredRuntime(p) \in {pidFile[p], None}
    BY DEF RestoredRuntime
  <2> QED
    BY <1>5, <2>1, <2>2 DEF RestoreLoad, disk
<1>6. CASE RestoreDead
  <2>1. obj[Main] \in Server /\ PortOf[obj[Main]] \in Port
    BY <1>6 DEF RestoreDead, CallerInv, AtRest
  <2>2. NewServer(PortOf[obj[Main]]) \in Server
        /\ PortOf[NewServer(PortOf[obj[Main]])] = PortOf[obj[Main]]
    BY <1>6, <2>1, NewServerIsGarbage DEF RestoreDead
  <2> QED
    BY <1>6, <2>1, <2>2 DEF RestoreDead, MkdirAll
<1>7. CASE Gone /\ (UNCHANGED proc \/ \A q \in Pid : proc'[q] \in {None, Other})
  BY <1>7 DEF Gone, disk, Process
<1>8. CASE UNCHANGED <<runtime, dir, conf, pidFile, proc>>
  BY <1>8
<1>9. ASSUME NEW t \in Caller, ~AtRest(t)
      PROVE  obj[t] \in Server /\ PortOf[obj[t]] \in Port
  BY <1>9 DEF CallerInv
<1> QED
  BY <1>1, <1>2, <1>3, <1>4, <1>5, <1>6, <1>7, <1>8, <1>9, MgrSteps,
     ServerStepDisk DEF FreePort, RemoveLock, AddExists, AddDone, RemoveFiles,
     Boot, RestoreAfter, RestoreAlive, Discard, Serve, Shutdown, CleanDir,
     CleanServer, ExitClean, Crash, Reboot, AtRest, allVars, vars, memory, disk

-----------------------------------------------------------------------------
(* Every ss-server is tracked. *)

Tracking ==
    /\ NotBoth({"tick"}, {"free", "crash", "reboot", "shutdown"})
    /\ NotBoth({"crash"}, {"shutdown"})

\* A Server whose process somebody will still find: it is kept, or Remove is
\* about to stop it.
InUse(s) == Kept(s) \/ \E t \in Caller : obj[t] = s /\ mpc[t] = "removing"

\* The process is the one that the handle names, or start() has just run it.
Holds(s, q) ==
    IF Free(s)
    THEN runtime[s] = q /\ proc[q].password = password[s]
    ELSE pc[rtMu[s]] = "pid"

\* Until CleanUp the disk leads to every process; while the program runs, so
\* does a Server, once Restore has been at the directory.
Traced(q, p) ==
    /\ phase # "off"
    /\ phase # "clean" => pidFile[p] = q /\ conf[p] = proc[q].password
    /\ \/ phase = "down"
       \/ phase = "restore" /\ p \in todo
       \/ \E s \in Server : PortOf[s] = p /\ InUse(s) /\ Holds(s, q)

TracedInv == Tracking => \A p \in Port, q \in Pid : Serves(q, p) => Traced(q, p)

ProcInv == SaveInv /\ DiskInv /\ TracedInv

LEMMA TrackingSaves == Tracking => Saving
BY DEF Tracking, Saving, NotBoth, Without

LEMMA OneInUse ==
    ASSUME MInv, NEW s \in Server, NEW u \in Server, InUse(s), InUse(u),
           PortOf[s] = PortOf[u]
    PROVE  s = u
<1>1. ASSUME NEW v \in Server, NEW w \in Server, NEW t \in Caller,
             obj[t] = v, mpc[t] = "removing", InUse(w), PortOf[v] = PortOf[w]
      PROVE  v = w
  <2>1. /\ serverMu = t /\ ~Managed(PortOf[v])
        /\ phase # "restore"
    BY <1>1 DEF MInv, CallerInv, TableInv, PhaseInv, Holding, Restoring,
       Handler, AtRest
  <2>2. ~Kept(w)
    BY <1>1, <2>1, WhoKeeps DEF Managed
  <2> QED
    BY <1>1, <2>1, <2>2 DEF InUse, MInv, CallerInv, Holding
<1> QED
  BY <1>1, OneKept DEF InUse

\* Somebody is inside start() only while the program restores or serves.
LEMMA StartersWork ==
    ASSUME ProcInv, Tracking, NEW t \in Thread,
           pc[t] \in InStart \/ (t \in Daemon /\ pc[t] \in {"check", "revive"})
    PROVE  Working
<1> USE DEF ProcInv, SaveInv, MInv, MgrTypeOK
<1>1. CASE t \in Caller
  BY <1>1 DEF CallerInv, PhaseInv, AtRest, Handler, InStart, Working, Phase,
     TypeOK, ThreadType, DaemonPC
<1>2. CASE t \in Daemon
  <2>1. "tick" \in events
    BY <1>2 DEF TimerInv, InStart
  <2>2. "shutdown" \notin events
    BY <2>1 DEF Tracking, NotBoth, Without
  <2> QED
    BY <1>2, <2>2 DEF LifeInv, Working, Phase, InStart
<1> QED
  BY <1>1, <1>2 DEF Thread

\* A Server in use is not in a directory that Restore has yet to visit, so
\* the process of its port is the one it holds.
LEMMA UserHolds ==
    ASSUME ProcInv, Tracking, NEW s \in Server, InUse(s), NEW q \in Pid,
           Serves(q, PortOf[s])
    PROVE  Holds(s, q)
<1> USE DEF ProcInv, SaveInv, MInv, MgrTypeOK
<1>1. Traced(q, PortOf[s])
  BY DEF TracedInv
<1>2. phase # "down"
  BY DEF InUse, Kept, PhaseInv, Handler, AtRest, Managed
<1>3. ~(phase = "restore" /\ PortOf[s] \in todo)
  BY WhoKeeps DEF InUse, Kept, PhaseInv, TableInv, Handler, AtRest, Managed,
     Restoring
<1> QED
  BY <1>1, <1>2, <1>3, OneInUse DEF Traced

\* No process runs on the port of a Server that is inside start(), before it
\* runs one, or in use without a process.
LEMMA NoneOnPort ==
    ASSUME ProcInv, Tracking, NEW s \in Server, InUse(s),
           IF Free(s) THEN ~Alive(s) ELSE pc[rtMu[s]] # "pid"
    PROVE  ~Bound(PortOf[s])
<1> SUFFICES ASSUME NEW q \in Pid, Serves(q, PortOf[s]) PROVE FALSE
  BY DEF Bound
<1>1. Holds(s, q)
  BY UserHolds
<1>2. Live(q)
  BY DEF Serves, Live, Process
<1> QED
  BY <1>1, <1>2 DEF Holds, Alive

\* Nor does one run on a port that nobody uses.
LEMMA NoUserNoProcess ==
    ASSUME ProcInv, Tracking, NEW p \in Port, phase # "down",
           ~(phase = "restore" /\ p \in todo),
           \A s \in Server : PortOf[s] = p => ~InUse(s)
    PROVE  ~Bound(p)
BY DEF ProcInv, TracedInv, Traced, Bound

\* Elsewhere a process is found through a Server in use.
LEMMA FoundByUser ==
    ASSUME ProcInv, Tracking, NEW p \in Port, NEW q \in Pid, Serves(q, p),
           phase # "down", ~(phase = "restore" /\ p \in todo)
    PROVE  \E s \in Server : PortOf[s] = p /\ InUse(s) /\ Holds(s, q)
BY DEF ProcInv, TracedInv, Traced

\* A process of another port than those a step is about stays traced.
LEMMA StaysTraced ==
    ASSUME ProcInv, Tracking, NEW p \in Port, NEW q \in Pid, Serves(q, p),
           UNCHANGED <<phase, todo>>,
           proc'[q] = proc[q], pidFile'[p] = pidFile[p], conf'[p] = conf[p],
           \A s \in Server : PortOf[s] = p /\ InUse(s) /\ Holds(s, q) =>
              InUse(s)' /\ Holds(s, q)'
    PROVE  Traced(q, p)'
BY DEF ProcInv, TracedInv, Traced

LEMMA ServerStepTracks ==
    ASSUME ProcInv, ServerStep, UNCHANGED events
    PROVE  TracedInv'
<1> SUFFICES ASSUME Tracking, NEW p \in Port, NEW q \in Pid, Serves(q, p)'
             PROVE  Traced(q, p)'
  BY DEF TracedInv, Tracking, NotBoth, Without
<1> USE DEF ProcInv, SaveInv, MInv, MgrTypeOK, TypeOK, MemoryType, ThreadType
<1>0. UNCHANGED mgrVars /\ Saving
  BY TrackingSaves DEF ServerStep
<1>1. \A s \in Server : Kept(s) => Kept(s)' \/ \E t \in Caller : obj[t] = s /\ Unwatched(t)
  BY KeptStep
<1>2. ASSUME NEW t \in Thread, Starting(t)
      PROVE  /\ Working /\ target[t] \in Server /\ rtMu[target[t]] = t
             /\ Kept(target[t]) /\ pc[t] \in InStart
             /\ t \in Caller => mpc[t] = "adding" /\ obj[t] = target[t]
  <2>1. pc[t] \in InStart
    BY <1>2 DEF Starting, Write, ExecOK, ExecFail, ReadPid, NoPid, InStart
  <2>2. Working
    BY <2>1, StartersWork
  <2>3. t \in Caller => mpc[t] = "adding" /\ obj[t] = target[t]
    BY <2>1 DEF CallerInv, InStart
  <2> QED
    BY <1>0, <2>1, <2>2, <2>3, StarterKeeps
<1>3. ASSUME NEW t \in Thread, Starting(t), ~ReadPid(t), p # PortOf[target[t]]
      PROVE  Traced(q, p)'
  <2>1. /\ Serves(q, p) /\ proc'[q] = proc[q]
        /\ pidFile'[p] = pidFile[p] /\ conf'[p] = conf[p]
    BY <1>2, <1>3 DEF Starting, Write, ExecOK, ExecFail, NoPid, Fail, disk,
       WorldType, Serves, Process
  <2>2. \A u \in Thread \ {t} : pc'[u] = pc[u]
    BY <1>3 DEF Starting, Write, ExecOK, ExecFail, NoPid, Fail
  <2>3. \A s \in Server \ {target[t]} :
            /\ rtMu'[s] = rtMu[s]
            /\ runtime'[s] = runtime[s] /\ password'[s] = password[s]
    BY <1>2, <1>3 DEF Starting, Write, ExecOK, ExecFail, NoPid, Fail, memory
  <2>4. ASSUME NEW s \in Server, PortOf[s] = p, InUse(s), Holds(s, q)
        PROVE  InUse(s)' /\ Holds(s, q)'
    <3>1. s # target[t] /\ rtMu[s] # t
      BY <1>2, <1>3, <2>4 DEF LockInv
    <3>2. InUse(s)'
      <4>1. UNCHANGED <<servers, mpc, obj>>
        BY <1>0 DEF mgrVars
      <4>2. \A u \in Caller : obj[u] = s => pc'[u] = pc[u]
        BY <1>2, <1>3, <2>2, <3>1 DEF Thread
      <4> QED
        BY <2>4, <4>1, <4>2 DEF InUse, Kept
    <3>3. Holds(s, q)'
      BY <2>1, <2>2, <2>3, <2>4, <3>1 DEF Holds, Free
    <3> QED
      BY <3>2, <3>3
  <2> QED
    BY <1>0, <2>1, <2>4, StaysTraced DEF mgrVars
<1>4. ASSUME NEW t \in Thread, Starting(t), ~ReadPid(t), NEW s \in Server,
             s = target[t], p = PortOf[s]
      PROVE  Traced(q, p)'
  <2>1. ~Bound(p)
    <3>1. CASE pc[t] # "pid"
      BY <1>2, <1>4, <3>1, NoneOnPort DEF InUse, Free, Thread
    <3>2. CASE NoPid(t)
      BY <1>2, <1>4, <3>2 DEF NoPid, TracedInv, Traced, Working, Bound
    <3> QED
      BY <1>4, <3>1, <3>2 DEF Starting, Write, ExecOK, ExecFail
  <2>2. ExecOK(t)
    BY <1>4, <2>1 DEF Starting, Write, ExecFail, NoPid, Serves, Bound
  <2>3. PICK r \in Pid : /\ proc' = [proc EXCEPT ![r] = [port |-> p, password |-> conf[p]]]
                         /\ pidFile' = [pidFile EXCEPT ![p] = r]
    BY <1>4, <2>1, <2>2 DEF ExecOK
  <2>4. r = q
    BY <2>1, <2>3 DEF Serves, Bound
  <2>5. pc' = [pc EXCEPT ![t] = "pid"] /\ UNCHANGED <<rtMu, conf, target>>
    BY <2>2 DEF ExecOK, memory
  <2>6. InUse(s)'
    BY <1>0, <1>2, <1>4, <2>5 DEF InUse, Kept, mgrVars, Thread
  <2>7. Holds(s, q)'
    BY <1>2, <1>4, <2>5 DEF Holds, Free, Thread
  <2>8. pidFile'[p] = q /\ conf'[p] = proc'[q].password
    BY <1>4, <2>3, <2>4, <2>5 DEF WorldType
  <2> QED
    BY <1>0, <1>2, <1>4, <2>6, <2>7, <2>8 DEF Traced, Working, mgrVars
<1>5. ASSUME NEW t \in Thread, ReadPid(t), NEW v \in Server, v = target[t]
      PROVE  Traced(q, p)'
  <2>1. Serves(q, p) /\ UNCHANGED <<proc, pidFile, conf, password>>
    BY <1>5 DEF ReadPid, AfterStart, disk, Serves
  <2>2. /\ \A u \in Thread : pc[u] \in InStart /\ u # t => pc'[u] = pc[u]
        /\ \A u \in Caller : u # t => pc'[u] = pc[u]
        /\ t \in Caller => pc'[t] = "ok"
    BY <1>5 DEF ReadPid, AfterStart, Ended, InStart, Thread
  <2>3. /\ rtMu' = [rtMu EXCEPT ![v] = None]
        /\ runtime' = [runtime EXCEPT ![v] = pidFile[PortOf[v]]]
        /\ rtMu[v] = t /\ pc[t] = "pid" /\ Kept(v) /\ Working
        /\ t \in Caller => mpc[t] = "adding" /\ obj[t] = v
    BY <1>2, <1>5 DEF ReadPid, Starting
  <2>4. ASSUME NEW s \in Server, PortOf[s] = p, InUse(s), Holds(s, q)
        PROVE  InUse(s)' /\ Holds(s, q)'
    <3>1. InUse(s)'
      BY <1>0, <2>2, <2>3, <2>4 DEF InUse, Kept, mgrVars, Thread
    <3>2. CASE s = v
      <4>1. conf[p] = password[s]
        BY <1>0, <2>3, <2>4, <3>2 DEF ConfInv, Writing
      <4>2. pidFile[p] = q /\ conf[p] = proc[q].password
        BY <2>1, <2>3 DEF TracedInv, Traced, Working
      <4> QED
        BY <2>1, <2>3, <2>4, <3>1, <3>2, <4>1, <4>2 DEF Holds, Free
    <3>3. CASE s # v
      BY <2>1, <2>2, <2>3, <2>4, <3>1, <3>3 DEF Holds, Free, LockInv
    <3> QED
      BY <3>2, <3>3
  <2> QED
    BY <1>0, <2>1, <2>4, StaysTraced DEF mgrVars
<1>6. ASSUME NEW d \in Daemon, Tick(d) \/ Exit(d) \/ Check(d) \/ NotNeeded(d)
      PROVE  Traced(q, p)'
  <2>1. Serves(q, p) /\ UNCHANGED <<proc, pidFile, conf, rtMu, runtime, password>>
    BY <1>6 DEF Tick, Exit, Check, NotNeeded, memory, disk, Serves
  <2>2. \A u \in Thread : pc[u] \in InStart \/ u \in Caller => pc'[u] = pc[u]
    BY <1>6 DEF Tick, Exit, Check, NotNeeded, InStart, Thread
  <2>3. ASSUME NEW s \in Server, PortOf[s] = p, InUse(s), Holds(s, q)
        PROVE  InUse(s)' /\ Holds(s, q)'
    BY <1>0, <2>1, <2>2, <2>3 DEF InUse, Kept, mgrVars, Thread, Holds, Free,
       LockInv
  <2> QED
    BY <1>0, <2>1, <2>3, StaysTraced DEF mgrVars
<1>7. ASSUME NEW d \in Daemon, Revive(d), NEW v \in Server, v = target[d]
      PROVE  Traced(q, p)'
  <2>1. Kept(v)
    BY <1>0, <1>7, StartersWork DEF Revive, TimerInv, WorkInv, Thread
  <2>2. ~Bound(PortOf[v])
    BY <1>7, <2>1, NoneOnPort DEF Revive, InUse
  <2>3. Serves(q, p) /\ UNCHANGED <<proc, pidFile, password>> /\ p # PortOf[v]
    BY <1>7, <2>2 DEF Revive, Begin, Serves, Bound
  <2>4. /\ \A u \in Thread \ {d} : pc'[u] = pc[u]
        /\ \A s \in Server \ {v} : rtMu'[s] = rtMu[s] /\ runtime'[s] = runtime[s]
        /\ conf'[p] = conf[p]
    BY <1>7, <2>3 DEF Revive, Begin, WorldType
  <2>5. ASSUME NEW s \in Server, PortOf[s] = p, InUse(s), Holds(s, q)
        PROVE  InUse(s)' /\ Holds(s, q)'
    <3>1. s # v /\ rtMu[s] # d
      BY <1>7, <2>3, <2>5 DEF Revive, LockInv, InStart, Thread
    <3>2. UNCHANGED <<servers, mpc, obj>> /\ \A u \in Caller : pc'[u] = pc[u]
      BY <1>0, <2>4 DEF mgrVars, Thread
    <3>3. InUse(s)'
      BY <2>5, <3>2 DEF InUse, Kept
    <3>4. Holds(s, q)'
      BY <2>3, <2>4, <2>5, <3>1 DEF Holds, Free
    <3> QED
      BY <3>3, <3>4
  <2> QED
    BY <1>0, <2>3, <2>4, <2>5, StaysTraced DEF mgrVars
<1>8. ASSUME NEW r \in Pid, Die(r)
      PROVE  Traced(q, p)'
  <2>1. /\ Serves(q, p) /\ proc'[q] = proc[q]
        /\ UNCHANGED <<pidFile, conf, rtMu, runtime, password, pc>>
    BY <1>8 DEF Die, memory, threads, disk, WorldType, Serves, Process
  <2>2. ASSUME NEW s \in Server, PortOf[s] = p, InUse(s), Holds(s, q)
        PROVE  InUse(s)' /\ Holds(s, q)'
    BY <1>0, <2>1, <2>2 DEF InUse, Kept, mgrVars, Holds, Free
  <2> QED
    BY <1>0, <2>1, <2>2, StaysTraced DEF mgrVars
<1>9. \A d \in Daemon : pc[d] # "off" => target[d] \in Server
  BY DEF LockInv
<1> QED
  BY <1>2, <1>3, <1>4, <1>5, <1>6, <1>7, <1>8, <1>9 DEF ServerStep, Starting,
     Watching, Revive

-----------------------------------------------------------------------------
\* A step that leaves the processes, the disk and the locks alone.
LEMMA CalmStepTracks ==
    ASSUME ProcInv, UNCHANGED <<events, phase, todo, conf, pidFile, proc>>,
           Tracking => \A s \in Server : InUse(s) =>
              /\ InUse(s)' /\ rtMu'[s] = rtMu[s]
              /\ runtime'[s] = runtime[s] /\ password'[s] = password[s]
              /\ ~Free(s) => pc'[rtMu[s]] = pc[rtMu[s]]
    PROVE  TracedInv'
<1> SUFFICES ASSUME Tracking, NEW p \in Port, NEW q \in Pid, Serves(q, p)'
             PROVE  Traced(q, p)'
  BY DEF TracedInv, Tracking, NotBoth, Without
<1>1. Serves(q, p)
  BY DEF Serves
<1>2. \A s \in Server : InUse(s) /\ Holds(s, q) => InUse(s)' /\ Holds(s, q)'
  BY DEF Holds, Free
<1> QED
  BY <1>1, <1>2, StaysTraced

LEMMA AllocateTracks ==
    ASSUME ProcInv, NEW t \in Handler, NEW p \in Port, NEW w \in Password,
           Allocate(t, p, w), UNCHANGED events
    PROVE  TracedInv'
<1> USE DEF ProcInv, SaveInv, MInv, MgrTypeOK, TypeOK, MemoryType
<1>1. NewServer(p) \in Server /\ Garbage(NewServer(p)) /\ t \in Caller
  BY NewServerIsGarbage DEF Allocate, Handler
<1>2. \A s \in Server : InUse(s) => InUse(s)' /\ s # NewServer(p)
  BY <1>1 DEF Allocate, Go, InUse, Kept, Garbage, threads, AtRest
<1> QED
  BY <1>1, <1>2, CalmStepTracks DEF Allocate, MkdirAll, threads

LEMMA AddLockTracks ==
    ASSUME ProcInv, NEW t \in Caller, AddLock(t), UNCHANGED events
    PROVE  TracedInv'
<1> SUFFICES ASSUME Tracking, NEW p \in Port, NEW q \in Pid, Serves(q, p)'
             PROVE  Traced(q, p)'
  BY DEF TracedInv, Tracking, NotBoth, Without
<1> USE DEF ProcInv, SaveInv, MInv, MgrTypeOK, TypeOK, MemoryType, ThreadType
<1>0. /\ obj[t] \in Server /\ PortOf[obj[t]] \in Port /\ pc[t] = "idle"
      /\ ~Managed(PortOf[obj[t]]) /\ serverMu = None /\ mpc[t] = "add"
      /\ t \in Thread /\ t \notin Daemon
  BY DEF AddLock, MgrFree, CallerInv, AtRest, Thread
<1>1. ASSUME NEW s \in Server, InUse(s)
      PROVE  PortOf[s] # PortOf[obj[t]]
  <2>1. CASE Kept(s)
    BY <1>0, <2>1, WhoKeeps DEF Managed, PhaseInv, Handler, AtRest, Thread
  <2>2. CASE ~Kept(s)
    BY <1>0, <1>1, <2>2 DEF InUse, CallerInv, Holding, Thread
  <2> QED
    BY <2>1, <2>2
<1>2. ~Bound(PortOf[obj[t]])
  BY <1>0, <1>1, NoUserNoProcess DEF PhaseInv, TableInv, Handler, AtRest
<1>3. Serves(q, p) /\ p # PortOf[obj[t]] /\ UNCHANGED <<proc, pidFile, phase, todo, servers>>
  BY <1>2 DEF AddLock, Start, Begin, Serves, Bound
<1>4. /\ conf'[p] = conf[p] /\ UNCHANGED <<runtime, password>>
      /\ \A s \in Server \ {obj[t]} : rtMu'[s] = rtMu[s]
      /\ \A u \in Thread \ {t} : pc'[u] = pc[u]
      /\ \A u \in Caller \ {t} : mpc'[u] = mpc[u] /\ obj'[u] = obj[u]
  BY <1>0, <1>3 DEF AddLock, Start, Begin, Go, WorldType
<1>5. ASSUME NEW s \in Server, PortOf[s] = p, InUse(s), Holds(s, q)
      PROVE  InUse(s)' /\ Holds(s, q)'
  <2>1. s # obj[t] /\ rtMu[s] # t
    BY <1>0, <1>3, <1>5 DEF LockInv, InStart
  <2>2. InUse(s)'
    BY <1>0, <1>3, <1>4, <1>5, <2>1 DEF InUse, Kept, Thread
  <2>3. Holds(s, q)'
    BY <1>3, <1>4, <1>5, <2>1 DEF Holds, Free
  <2> QED
    BY <2>2, <2>3
<1> QED
  BY <1>3, <1>4, <1>5, StaysTraced

LEMMA AddDoneTracks ==
    ASSUME ProcInv, NEW t \in Caller, AddDone(t), UNCHANGED events
    PROVE  TracedInv'
<1> USE DEF ProcInv, SaveInv, MInv, MgrTypeOK, TypeOK, MemoryType, ThreadType
<1>0. /\ obj[t] \in Server /\ PortOf[obj[t]] \in Port /\ ~Managed(PortOf[obj[t]])
      /\ t \in Thread /\ pc[t] \in {"ok", "fail"}
  BY DEF AddDone, CallerInv, TableInv, AtRest, Holding, Thread
<1>1. \A s \in Server : InUse(s) => InUse(s)'
  BY <1>0 DEF AddDone, AddFailed, Go, InUse, Kept, ObjInv, CallerInv, Managed
<1>2. \A s \in Server : ~Free(s) => pc'[rtMu[s]] = pc[rtMu[s]]
  BY <1>0 DEF AddDone, LockInv, InStart, Free
<1> QED
  BY <1>1, <1>2, CalmStepTracks DEF AddDone, memory, disk

\* Neither Add that finds the port in use, nor the first half of Remove, nor
\* the end of Restore lets a Server out of sight.
LEMMA SameProcessesTracks ==
    ASSUME ProcInv, UNCHANGED events,
           \/ \E t \in Caller : AddExists(t)
           \/ \E t \in Caller, p \in Port : RemoveLock(t, p)
           \/ RestoreAlive
           \/ UNCHANGED allVars
    PROVE  TracedInv'
<1> USE DEF ProcInv, SaveInv, MInv, MgrTypeOK
<1>1. UNCHANGED <<phase, todo, conf, pidFile, proc, rtMu, runtime, password, pc>>
  BY DEF AddExists, RemoveLock, RestoreAlive, allVars, mgrVars, vars, memory,
     threads, disk
<1>2. ASSUME NEW s \in Server, InUse(s)
      PROVE  InUse(s)'
  <2>1. ASSUME NEW t \in Caller, AddExists(t)
        PROVE  InUse(s)'
    BY <1>1, <1>2, <2>1 DEF AddExists, AddFailed, Go, InUse, Kept
  <2>2. ASSUME NEW t \in Caller, NEW p \in Port, RemoveLock(t, p)
        PROVE  InUse(s)'
    BY <1>1, <1>2, <2>2 DEF RemoveLock, Go, InUse, Kept, AtRest, TableInv,
       Managed
  <2>3. CASE RestoreAlive
    BY <1>1, <1>2, <2>3 DEF RestoreAlive, Go, InUse, Kept, CallerInv, PhaseInv,
       TableInv, AtRest, Managed
  <2>4. CASE UNCHANGED allVars
    BY <1>1, <1>2, <2>4 DEF allVars, mgrVars, InUse, Kept
  <2> QED
    BY <2>1, <2>2, <2>3, <2>4
<1> QED
  BY <1>1, <1>2, CalmStepTracks

LEMMA RemoveStopTracks ==
    ASSUME ProcInv, NEW t \in Caller, RemoveStop(t), UNCHANGED events
    PROVE  TracedInv'
<1> SUFFICES ASSUME Tracking, NEW p \in Port, NEW q \in Pid, Serves(q, p)'
             PROVE  Traced(q, p)'
  BY DEF TracedInv, Tracking, NotBoth, Without
<1> USE DEF ProcInv, SaveInv, MInv, MgrTypeOK, TypeOK, MemoryType, WorldType
<1>0. obj[t] \in Server /\ mpc[t] = "removing" /\ Free(obj[t]) /\ InUse(obj[t])
  BY DEF RemoveStop, Stop, CallerInv, AtRest, InUse
<1>1. proc'[q] = IF q = runtime[obj[t]] THEN None ELSE proc[q]
  BY DEF RemoveStop, Stop, Kill
<1>2. Serves(q, p) /\ proc'[q] = proc[q] /\ q # runtime[obj[t]]
  BY <1>1 DEF Serves, Process
<1>3. p # PortOf[obj[t]]
  BY <1>0, <1>2, UserHolds DEF Holds
<1>4. UNCHANGED <<phase, todo, pidFile, conf, rtMu, password, pc, servers, obj>>
      /\ \A s \in Server \ {obj[t]} : runtime'[s] = runtime[s]
      /\ \A u \in Caller \ {t} : mpc'[u] = mpc[u]
  BY <1>0 DEF RemoveStop, Stop, Kill, Go, disk
<1>5. ASSUME NEW s \in Server, PortOf[s] = p, InUse(s), Holds(s, q)
      PROVE  InUse(s)' /\ Holds(s, q)'
  <2>1. InUse(s)'
    BY <1>3, <1>4, <1>5 DEF InUse, Kept
  <2>2. Holds(s, q)'
    BY <1>2, <1>3, <1>4, <1>5 DEF Holds, Free
  <2> QED
    BY <2>1, <2>2
<1> QED
  BY <1>2, <1>4, <1>5, StaysTraced

\* RemoveFiles and Discard remove the files of a port that no process is on.
LEMMA FilesGoneTracks ==
    ASSUME ProcInv, NEW t \in Caller, RemoveFiles(t) \/ (Discard /\ t = Main),
           UNCHANGED events
    PROVE  TracedInv'
<1> SUFFICES ASSUME Tracking, NEW p \in Port, NEW q \in Pid, Serves(q, p)'
             PROVE  Traced(q, p)'
  BY DEF TracedInv, Tracking, NotBoth, Without
<1> USE DEF ProcInv, SaveInv, MInv, MgrTypeOK, TypeOK, WorldType
<1>0. /\ obj[t] \in Server /\ PortOf[obj[t]] \in Port
      /\ mpc[t] \in {"deleting", "discard"} /\ ~Managed(PortOf[obj[t]])
      /\ phase # "down" /\ ~(phase = "restore" /\ PortOf[obj[t]] \in todo)
  BY DEF RemoveFiles, Discard, CallerInv, PhaseInv, TableInv, Handler, AtRest,
     Restoring, Holding
<1>1. ASSUME NEW s \in Server, InUse(s)
      PROVE  PortOf[s] # PortOf[obj[t]]
  <2>1. CASE Kept(s)
    BY <1>0, <2>1, WhoKeeps DEF Managed, CallerInv, PhaseInv, Handler, AtRest,
       Holding, Restoring
  <2>2. CASE ~Kept(s)
    BY <1>0, <1>1, <2>2 DEF InUse, CallerInv, PhaseInv, Handler, AtRest,
       Holding, Restoring
  <2> QED
    BY <2>1, <2>2
<1>2. ~Bound(PortOf[obj[t]])
  BY <1>0, <1>1, NoUserNoProcess
<1>3. Serves(q, p) /\ p # PortOf[obj[t]]
      /\ UNCHANGED <<proc, phase, todo, servers, rtMu, runtime, password, pc>>
  BY <1>2 DEF RemoveFiles, Discard, memory, threads, Serves, Bound
<1>4. conf'[p] = conf[p] /\ pidFile'[p] = pidFile[p]
      /\ \A u \in Caller \ {t} : mpc'[u] = mpc[u] /\ obj'[u] = obj[u]
  BY <1>0, <1>3 DEF RemoveFiles, Discard, RemoveAll, Go
<1>5. ASSUME NEW s \in Server, PortOf[s] = p, InUse(s), Holds(s, q)
      PROVE  InUse(s)' /\ Holds(s, q)'
  BY <1>0, <1>3, <1>4, <1>5 DEF InUse, Kept, Holds, Free
<1> QED
  BY <1>3, <1>4, <1>5, StaysTraced

\* Boot looks for directories: the pid file of every process is in one.
LEMMA BootTracks ==
    ASSUME ProcInv, Boot, UNCHANGED events
    PROVE  TracedInv'
<1> SUFFICES ASSUME Tracking, NEW p \in Port, NEW q \in Pid, Serves(q, p)'
             PROVE  Traced(q, p)'
  BY DEF TracedInv, Tracking, NotBoth, Without
<1>1. Serves(q, p) /\ UNCHANGED <<proc, conf, pidFile>>
  BY DEF Boot, vars, disk, Serves
<1>2. phase = "down" /\ pidFile[p] = q /\ conf[p] = proc[q].password
  BY <1>1 DEF Boot, ProcInv, TracedInv, Traced
<1>3. p \in dir
  BY <1>2 DEF ProcInv, DiskInv
<1> QED
  BY <1>1, <1>2, <1>3 DEF Boot, Traced

\* Restore finds the process of a directory by its pid file, and its password
\* in the configuration.
LEMMA RestoreLoadTracks ==
    ASSUME ProcInv, NEW r \in Port, RestoreLoad(r), UNCHANGED events
    PROVE  TracedInv'
<1> SUFFICES ASSUME Tracking, NEW p \in Port, NEW q \in Pid, Serves(q, p)'
             PROVE  Traced(q, p)'
  BY DEF TracedInv, Tracking, NotBoth, Without
<1> USE DEF ProcInv, SaveInv, MInv, MgrTypeOK, TypeOK, MemoryType, WorldType
<1>0. PICK n \in Server : n = NewServer(r) /\ PortOf[n] = r /\ Garbage(n) /\ Free(n)
  BY NewServerIsGarbage, GarbageIsFree DEF RestoreLoad
<1>1. Serves(q, p) /\ Traced(q, p) /\ phase = "restore"
      /\ UNCHANGED <<proc, phase, conf, pidFile, rtMu, pc, servers>> /\ todo' = todo \ {r}
  BY DEF RestoreLoad, threads, disk, Serves, TracedInv
<1>2. pidFile[p] = q /\ conf[p] = proc[q].password /\ proc[q] \in Process
  BY <1>1 DEF Traced, Serves
<1>3. CASE p = r
  <2>1. Readable(r) /\ RestoredRuntime(r) = q
    BY <1>2, <1>3 DEF Readable, RestoredRuntime, Live, Process
  <2>2. /\ obj' = [obj EXCEPT ![Main] = n] /\ mpc' = [mpc EXCEPT ![Main] = "loaded"]
        /\ runtime' = [runtime EXCEPT ![n] = q]
        /\ password' = [password EXCEPT ![n] = conf[r]]
    BY <1>0, <2>1 DEF RestoreLoad, Go
  <2>3. InUse(n)' /\ Holds(n, q)'
    BY <1>0, <1>1, <1>2, <1>3, <2>2 DEF InUse, Kept, Holds, Free
  <2> QED
    BY <1>0, <1>1, <1>2, <1>3, <2>3 DEF Traced
<1>4. CASE p # r /\ p \in todo
  BY <1>1, <1>2, <1>4 DEF Traced
<1>5. CASE p # r /\ p \notin todo
  <2>1. PICK s \in Server : PortOf[s] = p /\ InUse(s) /\ Holds(s, q)
    BY <1>1, <1>5, FoundByUser
  <2>2. InUse(s)' /\ s # n
    BY <1>0, <1>1, <2>1 DEF RestoreLoad, Go, InUse, Kept, Garbage, AtRest
  <2>3. Holds(s, q)'
    BY <1>0, <1>1, <2>1, <2>2 DEF RestoreLoad, Holds, Free
  <2> QED
    BY <1>1, <1>2, <2>1, <2>2, <2>3 DEF Traced
<1> QED
  BY <1>3, <1>4, <1>5

LEMMA RestoreAfterTracks ==
    ASSUME ProcInv, RestoreAfter, UNCHANGED events
    PROVE  TracedInv'
<1> USE DEF ProcInv, SaveInv, MInv, MgrTypeOK, TypeOK, MemoryType, ThreadType
<1>1. /\ \A t \in Caller : pc'[t] = pc[t]
      /\ \A t \in Thread : pc[t] \in InStart => pc'[t] = pc[t]
  BY DEF RestoreAfter, AfterStart, threads, CallerInv, InStart, Thread
<1>2. ASSUME NEW s \in Server, InUse(s)
      PROVE  InUse(s)' /\ (~Free(s) => pc'[rtMu[s]] = pc[rtMu[s]])
  <2>1. InUse(s)'
    BY <1>1, <1>2 DEF RestoreAfter, Go, InUse, Kept
  <2>2. ~Free(s) => pc'[rtMu[s]] = pc[rtMu[s]]
    BY <1>1 DEF LockInv, Free
  <2> QED
    BY <2>1, <2>2
<1> QED
  BY <1>2, CalmStepTracks DEF RestoreAfter, disk

\* The Server that is given up has no process.
LEMMA RestoreDeadTracks ==
    ASSUME ProcInv, RestoreDead, UNCHANGED events
    PROVE  TracedInv'
<1> SUFFICES ASSUME Tracking, NEW p \in Port, NEW q \in Pid, Serves(q, p)'
             PROVE  Traced(q, p)'
  BY DEF TracedInv, Tracking, NotBoth, Without
<1> USE DEF ProcInv, SaveInv, MInv, MgrTypeOK, TypeOK, MemoryType
<1>0. obj[Main] \in Server /\ PortOf[obj[Main]] \in Port /\ mpc[Main] = "checked"
  BY DEF RestoreDead, CallerInv, AtRest
<1>1. PICK n \in Server : n = NewServer(PortOf[obj[Main]]) /\ Garbage(n)
  BY <1>0, NewServerIsGarbage DEF RestoreDead
<1>2. ~Bound(PortOf[obj[Main]])
  BY <1>0, NoneOnPort DEF RestoreDead, InUse, Kept
<1>3. Serves(q, p) /\ p # PortOf[obj[Main]]
      /\ UNCHANGED <<proc, phase, todo, conf, pidFile, rtMu, pc, servers>>
  BY <1>2 DEF RestoreDead, MkdirAll, threads, Serves, Bound
<1>4. ASSUME NEW s \in Server, PortOf[s] = p, InUse(s), Holds(s, q)
      PROVE  InUse(s)' /\ Holds(s, q)'
  <2>1. InUse(s)' /\ s # n
    BY <1>0, <1>1, <1>3, <1>4 DEF RestoreDead, Go, InUse, Kept, Garbage
  <2>2. Holds(s, q)'
    BY <1>1, <1>3, <1>4, <2>1 DEF RestoreDead, Holds, Free
  <2> QED
    BY <2>1, <2>2
<1> QED
  BY <1>3, <1>4, StaysTraced

\* The phases after Restore: what was found stays found, and a crash finds
\* the disk in order.
LEMMA PhaseStepTracks ==
    ASSUME ProcInv, UNCHANGED events,
           \/ Serve \/ Shutdown \/ (\E p \in Port : CleanDir(p))
           \/ ExitClean \/ Crash \/ Reboot
    PROVE  TracedInv'
<1> SUFFICES ASSUME Tracking, NEW p \in Port, NEW q \in Pid, Serves(q, p)'
             PROVE  Traced(q, p)'
  BY DEF TracedInv, Tracking, NotBoth, Without
<1>1. CASE Serve \/ Shutdown \/ (\E r \in Port : CleanDir(r))
  <2>1. /\ UNCHANGED <<proc, rtMu, runtime, password, pc, servers, mpc, obj>>
        /\ phase' = "serve" => UNCHANGED <<conf, pidFile>>
        /\ phase' \in {"serve", "clean"}
        /\ phase \in {"serve", "clean"} \/ (phase = "restore" /\ todo = {})
        /\ phase' = "serve" => phase # "clean"
    BY <1>1 DEF Serve, Shutdown, CleanDir, vars, memory, threads, disk
  <2>2. Serves(q, p) /\ Traced(q, p)
    BY <2>1 DEF Serves, ProcInv, TracedInv
  <2>3. PICK s \in Server : PortOf[s] = p /\ InUse(s) /\ Holds(s, q)
    BY <2>1, <2>2, FoundByUser
  <2>4. InUse(s)' /\ Holds(s, q)'
    BY <2>1, <2>3 DEF InUse, Kept, Holds, Free
  <2> QED
    BY <2>1, <2>2, <2>3, <2>4 DEF Traced
<1>2. CASE ExitClean
  <2>1. Serves(q, p)
    BY <1>2 DEF ExitClean, Serves
  <2>2. PICK s \in Server : PortOf[s] = p /\ InUse(s)
    BY <1>2, <2>1, FoundByUser DEF ExitClean
  <2> QED
    BY <1>2, <2>2 DEF ExitClean, InUse, Kept, Managed, AtRest, Handler, ProcInv,
       SaveInv, MInv, PhaseInv
<1>3. CASE Crash
  <2>1. phase # "clean"
    BY <1>3 DEF Crash, ProcInv, SaveInv, LifeInv, Tracking, NotBoth, Without
  <2>2. Serves(q, p) /\ Traced(q, p) /\ UNCHANGED <<proc, conf, pidFile>>
    BY <1>3 DEF Crash, Gone, disk, Serves, ProcInv, TracedInv
  <2> QED
    BY <1>3, <2>1, <2>2 DEF Crash, Traced
<1>4. CASE Reboot
  BY <1>4 DEF Reboot, Serves, Process
<1> QED
  BY <1>1, <1>2, <1>3, <1>4

LEMMA ProcNext == ProcInv /\ [MgrNext]_<<allVars, events>> => ProcInv'
<1> SUFFICES ASSUME ProcInv, [MgrNext]_<<allVars, events>> PROVE ProcInv'
  OBVIOUS
<1>1. SaveInv' /\ DiskInv'
  BY SaveNext, DiskNext DEF ProcInv, SaveInv
<1>2. UNCHANGED events
  BY MgrSteps
<1>3. ASSUME NEW t \in Handler, NEW p \in Port, FreePort(t, p)
      PROVE  TracedInv'
  BY <1>2, <1>3, SameProcessesTracks DEF FreePort, Handler
<1>4. ASSUME NEW p \in Port, CleanServer(p)
      PROVE  TracedInv'
  BY <1>2, <1>4, SameProcessesTracks DEF CleanServer
<1>5. TracedInv'
  BY <1>2, <1>3, <1>4, MgrSteps, ServerStepTracks, AllocateTracks,
     AddLockTracks, AddDoneTracks, SameProcessesTracks, RemoveStopTracks,
     FilesGoneTracks, BootTracks, RestoreLoadTracks, RestoreAfterTracks,
     RestoreDeadTracks, PhaseStepTracks
<1> QED
  BY <1>1, <1>5 DEF ProcInv

LEMMA ProcInit == MgrInit => ProcInv
<1>1. MgrInit => DiskInv /\ TracedInv
  BY DEF MgrInit, EmptyMemory, InitWorld, DiskInv, TracedInv, Serves, Process
<1> QED
  BY <1>1, SaveInit DEF ProcInv

LEMMA ProcAlways == MgrSpec => []ProcInv
BY ProcInit, ProcNext, PTL DEF MgrSpec

\* While nobody is inside Add or Remove, the process of a port is that of the
\* managed Server, with its password.
LEMMA TrackedWhenQuiet == ProcInv => NoOrphan
<1> SUFFICES ASSUME ProcInv, Quiet, Tracking, NEW q \in Pid, NEW p \in Port,
                    Serves(q, p)
             PROVE  LET s == servers[p] IN
                    /\ s # None
                    /\ Free(s) => runtime[s] = q /\ proc[q].password = password[s]
  BY DEF NoOrphan, Tracking
<1> USE DEF ProcInv, SaveInv, MInv, MgrTypeOK
<1>1. PICK s \in Server : PortOf[s] = p /\ InUse(s) /\ Holds(s, q)
  BY FoundByUser DEF Quiet
<1>2. servers[p] = s
  <2>1. CASE Kept(s)
    BY <1>1, <2>1, WhoKeeps DEF Quiet, MgrFree, Thread
  <2>2. CASE ~Kept(s)
    BY <1>1, <2>2 DEF InUse, Quiet, MgrFree, CallerInv, Holding, Thread
  <2> QED
    BY <2>1, <2>2
<1> QED
  BY <1>1, <1>2 DEF Holds

\* No order of requests, failed starts, crashes and restorations leaves an
\* ss-server behind that no managed Server would stop.
THEOREM NoneIsOrphaned == MgrSpec => []NoOrphan
BY TrackedWhenQuiet, ProcAlways, PTL

-----------------------------------------------------------------------------
(* What is promised runs, and what has been removed does not. *)

\* A start() that has run its ss-server finds it running.
ReadyInv ==
    Without({"die"}) =>
        \A t \in Caller : mpc[t] = "adding" /\ pc[t] \in {"pid", "ok"} =>
                              Bound(PortOf[obj[t]])

\* The ss-server of an Allocate that succeeded runs until it is freed.
Lasting == Without({"die", "reboot", "tick"}) /\ NotBoth({"crash"}, {"shutdown"})

AckedRun ==
    /\ \A p \in acked : Bound(p)
    /\ \A t \in Caller : mpc[t] = "removing" => PortOf[obj[t]] \notin acked

AckedInv == Lasting => AckedRun

\* Every managed Server runs, and no pid belongs to something else.
ServedInv ==
    Without({"die", "tick", "reuse"}) =>
        /\ \A q \in Pid : proc[q] # Other
        /\ \A p \in Port : Managed(p) => Bound(p)

\* A rule is there for a managed Server, or one on its way into or out of the
\* map.
RuleInv ==
    Without({"tick", "crash", "reboot"}) =>
        \A p \in rule :
            \/ Managed(p)
            \/ \E t \in Caller :
                  /\ obj[t] \in Server /\ PortOf[obj[t]] = p
                  /\ mpc[t] = "removing" \/ (mpc[t] = "adding" /\ pc[t] = "ok")

\* While no process dies, Remove is the only one to stop an ss-server, that of
\* its own port, but for the restart of the machine.
LEMMA StaysBound ==
    ASSUME ProcInv, [MgrNext]_<<allVars, events>>, "die" \notin events, ~Reboot,
           NEW p \in Port, Bound(p)
    PROVE  Bound(p)' \/ \E t \in Caller : RemoveStop(t) /\ PortOf[obj[t]] = p
<1> USE DEF ProcInv, SaveInv, MInv, MgrTypeOK, TypeOK, MemoryType, WorldType
<1>1. PICK q \in Pid : Serves(q, p)
  BY DEF Bound
<1>2. CASE UNCHANGED proc
  BY <1>1, <1>2 DEF Bound, Serves
<1>3. ASSUME NEW t \in Thread, ExecOK(t)
      PROVE  Bound(p)'
  BY <1>1, <1>3, NoProcess DEF ExecOK, Fresh, Bound, Serves, Process
<1>4. ASSUME NEW t \in Caller, RemoveStop(t), PortOf[obj[t]] # p
      PROVE  Bound(p)'
  <2>1. obj[t] \in Server
    BY <1>4 DEF RemoveStop, CallerInv, AtRest
  <2>2. runtime[obj[t]] # q
    BY <1>1, <1>4, <2>1 DEF DiskInv, Serves
  <2> QED
    BY <1>1, <1>4, <2>2 DEF RemoveStop, Stop, Kill, Bound, Serves
<1>5. CASE ServerStep
  BY <1>2, <1>3, <1>5 DEF ServerStep, Starting, Watching, Write, ExecFail,
     ReadPid, NoPid, Tick, Exit, Check, NotNeeded, Revive, Die
<1> QED
  BY <1>2, <1>4, <1>5, MgrSteps DEF Allocate, FreePort, RemoveLock, AddLock,
     Start, AddExists, AddDone, RemoveFiles, Boot, RestoreLoad, RestoreAfter,
     RestoreAlive, RestoreDead, Discard, Serve, Shutdown, CleanDir, CleanServer,
     ExitClean, Crash, allVars, vars

\* Only AddLock begins an Add, and no other step of the manager takes part in
\* one before it is done.
LEMMA AddingSteps ==
    ASSUME MInv, [MgrNext]_<<allVars, events>>, ~ServerStep, NEW t \in Caller,
           mpc'[t] = "adding"
    PROVE  \/ mpc[t] = "adding" /\ obj'[t] = obj[t] /\ pc'[t] = pc[t]
           \/ pc'[t] \in {"write", "fail"}
<1> DEFINE Goal == \/ mpc[t] = "adding" /\ obj'[t] = obj[t] /\ pc'[t] = pc[t]
                   \/ pc'[t] \in {"write", "fail"}
<1> USE DEF MInv, MgrTypeOK, TypeOK, ThreadType
<1>1. ASSUME NEW u \in Caller, AddLock(u)
      PROVE  Goal
  BY <1>1 DEF AddLock, Start, Begin, Ended, Go, Thread
<1>2. ASSUME NEW u \in Caller, AddDone(u)
      PROVE  Goal
  BY <1>2 DEF AddDone, AddFailed, Go
<1>3. CASE RestoreAfter
  BY <1>3 DEF RestoreAfter, AfterStart, Go, threads, CallerInv, Thread
<1>4. CASE Gone
  BY <1>4 DEF Gone
<1>5. ASSUME NEW u \in Caller,
             \/ \E p \in Port, w \in Password : Allocate(u, p, w)
             \/ \E p \in Port : RemoveLock(u, p)
             \/ AddExists(u) \/ RemoveStop(u) \/ RemoveFiles(u)
             \/ u = Main /\ (RestoreAlive \/ RestoreDead \/ Discard
                                \/ \E p \in Port : RestoreLoad(p))
      PROVE  Goal
  <2>1. UNCHANGED pc
    BY <1>5 DEF Allocate, RemoveLock, AddExists, RemoveStop, Stop, RemoveFiles,
       RestoreAlive, RestoreDead, Discard, RestoreLoad, vars, threads
  <2>2. \/ UNCHANGED <<mpc, obj>>
        \/ \E here \in MgrPC \ {"adding"} : \E s : Go(u, here, s)
    BY <1>5 DEF Allocate, RemoveLock, AddExists, AddFailed, RemoveStop,
       RemoveFiles, RestoreAlive, RestoreDead, Discard, RestoreLoad, MgrPC
  <2> QED
    BY <2>1, <2>2 DEF Go
<1>6. CASE UNCHANGED <<pc, mpc, obj>>
  BY <1>6
<1> QED
  BY <1>1, <1>2, <1>3, <1>4, <1>5, <1>6, MgrSteps DEF FreePort, Handler, Boot,
     Serve, Shutdown, CleanDir, CleanServer, ExitClean, Crash, Reboot, allVars,
     mgrVars, vars, threads

LEMMA ReadyNext ==
    ASSUME ProcInv, ReadyInv, [MgrNext]_<<allVars, events>>
    PROVE  ReadyInv'
<1> USE DEF ProcInv, SaveInv, MInv, MgrTypeOK, TypeOK
<1> SUFFICES ASSUME "die" \notin events, NEW t \in Caller,
                    mpc'[t] = "adding", pc'[t] \in {"pid", "ok"}
             PROVE  Bound(PortOf[obj[t]])'
  BY MgrSteps DEF ReadyInv, Without
<1>1. ASSUME NEW p \in Port, Bound(p), p = PortOf[obj[t]],
             obj'[t] = obj[t], mpc[t] = "adding"
      PROVE  Bound(PortOf[obj[t]])'
  <2>1. ~Reboot
    BY DEF Reboot, Gone
  <2>2. \A u \in Caller : ~(RemoveStop(u) /\ PortOf[obj[u]] = p)
    BY <1>1 DEF RemoveStop, CallerInv, Holding
  <2> QED
    BY <1>1, <2>1, <2>2, StaysBound DEF Bound, Serves
<1>2. CASE ServerStep
  <2>1. UNCHANGED <<mpc, obj>> /\ obj[t] \in Server /\ PortOf[obj[t]] \in Port
    BY <1>2 DEF ServerStep, mgrVars, CallerInv, AtRest
  <2>2. CASE pc[t] \in {"pid", "ok"}
    BY <1>1, <2>1, <2>2 DEF ReadyInv, Without
  <2>3. CASE ExecOK(t)
    <3>1. target[t] = obj[t]
      BY <2>3 DEF ExecOK, CallerInv, InStart
    <3>2. \A p \in Port : p = PortOf[obj[t]] => Bound(p)'
      BY <2>1, <2>3, <3>1 DEF ExecOK, Bound, Serves, Process, WorldType
    <3> QED
      BY <2>1, <3>2 DEF Bound, Serves
  <2>4. pc[t] \in {"pid", "ok"} \/ ExecOK(t)
    BY <1>2 DEF ServerStep, Starting, Write, ExecOK, ExecFail, ReadPid, NoPid,
       Fail, AfterStart, Ended, Watching, Tick, Exit, Check, NotNeeded, Revive,
       Begin, Die, ThreadType, Thread, threads
  <2> QED
    BY <2>2, <2>3, <2>4
<1>3. CASE ~ServerStep
  <2>1. mpc[t] = "adding" /\ obj'[t] = obj[t] /\ pc'[t] = pc[t]
    BY <1>3, AddingSteps
  <2>2. obj[t] \in Server /\ PortOf[obj[t]] \in Port
    BY <2>1 DEF CallerInv, AtRest
  <2> QED
    BY <1>1, <2>1, <2>2 DEF ReadyInv, Without
<1> QED
  BY <1>2, <1>3

LEMMA AckedNext ==
    ASSUME ProcInv, ReadyInv, AckedInv, [MgrNext]_<<allVars, events>>
    PROVE  AckedInv'
<1> USE DEF ProcInv, SaveInv, MInv, MgrTypeOK
<1> SUFFICES ASSUME Lasting, AckedRun PROVE AckedRun'
  BY MgrSteps DEF AckedInv, Lasting, Without, NotBoth
<1>1. "die" \notin events /\ "reboot" \notin events /\ ~Reboot
  BY DEF Lasting, Without, Reboot
<1>2. ASSUME NEW t \in Caller, AddDone(t)
      PROVE  AckedRun'
  <2>1. UNCHANGED proc /\ serverMu = t /\ obj[t] \in Server /\ PortOf[obj[t]] \in Port
    BY <1>2 DEF AddDone, CallerInv, Holding, AtRest
  <2>2. pc[t] = "ok" => Bound(PortOf[obj[t]])
    BY <1>1, <1>2 DEF AddDone, ReadyInv, Without
  <2>3. \A u \in Caller : mpc'[u] # "removing"
    BY <1>2, <2>1 DEF AddDone, AddFailed, Go, CallerInv, Holding
  <2> QED
    BY <1>2, <2>1, <2>2, <2>3 DEF AddDone, AckedRun, Bound, Serves
<1>3. ASSUME NEW t \in Caller, NEW r \in Port, RemoveLock(t, r)
      PROVE  AckedRun'
  <2>1. UNCHANGED proc
    BY <1>3 DEF RemoveLock, vars
  <2>2. \A u \in Caller : mpc'[u] = "removing" => u = t /\ PortOf[obj'[u]] = r
    BY <1>3 DEF RemoveLock, Go, MgrFree, CallerInv, TableInv, Holding, AtRest,
       Thread
  <2> QED
    BY <1>3, <2>1, <2>2 DEF RemoveLock, AckedRun, Bound, Serves
<1>4. ASSUME NEW t \in Caller, RemoveStop(t)
      PROVE  AckedRun'
  <2>1. \A u \in Caller : mpc'[u] = "removing" => FALSE
    BY <1>4 DEF RemoveStop, Go, CallerInv, Holding
  <2>2. \A p \in acked : Bound(p)'
    <3> SUFFICES ASSUME NEW p \in acked PROVE Bound(p)'
      OBVIOUS
    <3>1. \A u \in Caller : RemoveStop(u) => PortOf[obj[u]] # p
      BY DEF RemoveStop, AckedRun
    <3> QED
      BY <1>1, <3>1, StaysBound DEF AckedRun
  <2> QED
    BY <1>4, <2>1, <2>2 DEF RemoveStop, AckedRun
<1>5. CASE Shutdown
  BY <1>5 DEF Shutdown, AckedRun, PhaseInv, AtRest, Handler
<1>6. ASSUME acked' = acked,
             \A u \in Caller : mpc'[u] = "removing" =>
                                  mpc[u] = "removing" /\ obj'[u] = obj[u]
      PROVE  AckedRun'
  BY <1>1, <1>4, <1>6, StaysBound DEF AckedRun
<1>7. ASSUME NEW t \in Caller,
             \/ \E p \in Port, w \in Password : Allocate(t, p, w)
             \/ AddLock(t) \/ AddExists(t) \/ RemoveFiles(t)
             \/ t = Main /\ (RestoreAfter \/ RestoreAlive \/ RestoreDead \/ Discard
                                \/ \E p \in Port : RestoreLoad(p))
      PROVE  AckedRun'
  <2>1. acked' = acked
    BY <1>7 DEF Allocate, AddLock, AddExists, RemoveFiles, RestoreAfter,
       RestoreAlive, RestoreDead, Discard, RestoreLoad
  <2>2. \E here \in MgrPC \ {"removing"} : \E s : Go(t, here, s)
    BY <1>7 DEF Allocate, AddLock, AddExists, AddFailed, RemoveFiles,
       RestoreAfter, RestoreAlive, RestoreDead, Discard, RestoreLoad, MgrPC
  <2> QED
    BY <1>6, <2>1, <2>2 DEF Go
<1>8. CASE \/ ServerStep \/ Boot \/ Serve
           \/ \E p \in Port : CleanDir(p)
           \/ UNCHANGED <<allVars, events>>
  BY <1>6, <1>8 DEF ServerStep, Boot, Serve, CleanDir, mgrVars, allVars
<1>9. CASE ExitClean \/ Crash
  BY <1>6, <1>9 DEF ExitClean, Crash, Gone
<1> QED
  BY <1>1, <1>2, <1>3, <1>4, <1>5, <1>7, <1>8, <1>9, MgrSteps DEF FreePort,
     CleanServer, Handler

LEMMA ServedNext ==
    ASSUME ProcInv, ReadyInv, ServedInv, [MgrNext]_<<allVars, events>>
    PROVE  ServedInv'
<1> USE DEF ProcInv, SaveInv, MInv, MgrTypeOK, TypeOK, MemoryType, WorldType
<1> SUFFICES ASSUME Without({"die", "tick", "reuse"}),
                    \A q \in Pid : proc[q] # Other,
                    \A p \in Port : Managed(p) => Bound(p)
             PROVE  /\ \A q \in Pid : proc'[q] # Other
                    /\ \A p \in Port : Managed(p)' => Bound(p)'
  BY MgrSteps DEF ServedInv, Without
<1>1. "die" \notin events /\ "reuse" \notin events
  BY DEF Without
<1>2. ASSUME NEW q \in Pid
      PROVE  proc'[q] # Other
  <2>1. ASSUME NEW t \in Thread, ExecOK(t)
        PROVE  proc'[q] # Other
    <3>1. PortOf[target[t]] \in Port
      BY <2>1 DEF ExecOK, LockInv, InStart
    <3> QED
      BY <2>1, <3>1, NoProcess DEF ExecOK, Process
  <2>2. ASSUME NEW t \in Caller, RemoveStop(t)
        PROVE  proc'[q] # Other
    BY <2>2 DEF RemoveStop, Stop, Kill
  <2>3. CASE Reboot
    BY <1>1, <2>3 DEF Reboot
  <2>4. CASE UNCHANGED proc
    BY <2>4
  <2>5. CASE ServerStep
    BY <1>1, <2>1, <2>4, <2>5 DEF ServerStep, Starting, Watching, Write,
       ExecFail, ReadPid, NoPid, Tick, Exit, Check, NotNeeded, Revive, Die
  <2> QED
    BY <2>2, <2>3, <2>4, <2>5, MgrSteps DEF Allocate, FreePort, RemoveLock,
       AddLock, Start, AddExists, AddDone, RemoveFiles, Boot, RestoreLoad,
       RestoreAfter, RestoreAlive, RestoreDead, Discard, Serve, Shutdown,
       CleanDir, CleanServer, ExitClean, Crash,
       allVars, vars
<1>3. ASSUME NEW p \in Port, Managed(p)', Managed(p)
      PROVE  Bound(p)'
  <2>1. ~Reboot
    BY <1>3 DEF Reboot, Gone, Managed
  <2>2. \A t \in Caller : RemoveStop(t) => PortOf[obj[t]] # p
    BY <1>3 DEF RemoveStop, TableInv, Holding
  <2> QED
    BY <1>1, <1>3, <2>1, <2>2, StaysBound
<1>4. ASSUME NEW p \in Port, Managed(p)', ~Managed(p)
      PROVE  Bound(p)'
  <2>1. ASSUME NEW t \in Caller, AddDone(t)
        PROVE  Bound(p)'
    <3>1. pc[t] = "ok" /\ p = PortOf[obj[t]] /\ UNCHANGED proc
      BY <1>4, <2>1 DEF AddDone, CallerInv, AtRest, Managed
    <3> QED
      BY <1>1, <2>1, <3>1 DEF AddDone, ReadyInv, Without, Bound, Serves
  <2>2. CASE RestoreAlive
    <3>1. /\ p = PortOf[obj[Main]] /\ obj[Main] \in Server
          /\ Alive(obj[Main]) /\ UNCHANGED proc
      BY <1>4, <2>2 DEF RestoreAlive, CallerInv, AtRest, Managed, vars
    <3>2. runtime[obj[Main]] \in Pid /\ proc[runtime[obj[Main]]] \in Process
      BY <3>1 DEF Alive, Live
    <3> QED
      BY <3>1, <3>2 DEF DiskInv, Bound, Serves
  <2>3. ASSUME \/ UNCHANGED servers
               \/ \E r \in Port : servers' = [servers EXCEPT ![r] = None]
               \/ servers' = [r \in Port |-> None]
        PROVE  FALSE
    BY <1>4, <2>3 DEF Managed
  <2> QED
    BY <2>1, <2>2, <2>3, MgrSteps DEF ServerStep, mgrVars, Allocate, FreePort,
       RemoveLock, AddLock, AddExists, RemoveStop, RemoveFiles, Boot,
       RestoreLoad, RestoreAfter, RestoreDead, Discard, Serve, Shutdown,
       CleanDir, CleanServer, ExitClean, Crash, Reboot, Gone, allVars
<1> QED
  BY <1>2, <1>3, <1>4

LEMMA RuleNext ==
    ASSUME ProcInv, RuleInv, [MgrNext]_<<allVars, events>>
    PROVE  RuleInv'
<1> USE DEF ProcInv, SaveInv, MInv, MgrTypeOK, TypeOK, ThreadType, WorldType
<1> DEFINE Used(p) == \/ Managed(p)
                      \/ \E t \in Caller :
                            /\ obj[t] \in Server /\ PortOf[obj[t]] = p
                            /\ mpc[t] = "removing" \/ (mpc[t] = "adding" /\ pc[t] = "ok")
<1> SUFFICES ASSUME Without({"tick", "crash", "reboot"}), \A p \in rule : Used(p),
                    NEW p \in rule'
             PROVE  Used(p)'
  BY MgrSteps DEF RuleInv, Without
<1>1. CASE ServerStep
  <2>1. UNCHANGED mgrVars
    BY <1>1 DEF ServerStep
  <2>2. ASSUME NEW t \in Thread, ReadPid(t)
        PROVE  Used(p)'
    <3>1. t \in Caller /\ target[t] = obj[t] /\ obj[t] \in Server /\ mpc[t] = "adding"
      BY <2>2 DEF ReadPid, TimerInv, Without, CallerInv, AtRest, InStart, Thread
    <3>2. /\ \A u \in Caller : pc[u] = "ok" => pc'[u] = "ok"
          /\ pc'[t] = "ok" /\ rule' = rule \cup {PortOf[obj[t]]}
      BY <2>2, <3>1 DEF ReadPid, AfterStart, Ended, Thread
    <3> QED
      BY <2>1, <3>1, <3>2 DEF mgrVars, Managed
  <2>3. CASE UNCHANGED rule
    BY <1>1, <2>1, <2>3, NewTarget DEF mgrVars, Managed, BaseInv
  <2> QED
    BY <1>1, <2>2, <2>3 DEF ServerStep, Starting, Watching, Write, ExecOK,
       ExecFail, NoPid, Fail, Tick, Exit, Check, NotNeeded, Revive, Die
<1>2. ASSUME NEW t \in Caller, RemoveStop(t)
      PROVE  Used(p)'
  <2>1. rule' = rule \ {PortOf[obj[t]]} /\ UNCHANGED <<servers, obj, pc>>
    BY <1>2 DEF RemoveStop, Stop, BeforeStop, Go
  <2> QED
    BY <1>2, <2>1 DEF RemoveStop, Go, Managed
<1>3. ASSUME NEW t \in Caller, AddDone(t)
      PROVE  Used(p)'
  <2>1. /\ p \in rule /\ p \in Port /\ Used(p)
        /\ obj[t] \in Server /\ PortOf[obj[t]] \in Port /\ obj[t] # None
    BY <1>3 DEF AddDone, CallerInv, AtRest
  <2>2. \A u \in Caller \ {t} : pc'[u] = pc[u] /\ mpc'[u] = mpc[u] /\ obj'[u] = obj[u]
    BY <1>3 DEF AddDone, AddFailed, Go, Thread
  <2>3. CASE pc[t] = "ok"
    <3>1. servers' = [servers EXCEPT ![PortOf[obj[t]]] = obj[t]]
      BY <1>3, <2>3 DEF AddDone
    <3>2. \A r \in Port : r = PortOf[obj[t]] \/ Managed(r) => Managed(r)'
      BY <2>1, <3>1 DEF Managed
    <3> QED
      BY <2>1, <2>2, <3>1, <3>2 DEF Managed
  <2>4. CASE pc[t] = "fail"
    <3>1. UNCHANGED servers /\ mpc[t] = "adding"
      BY <1>3, <2>4 DEF AddDone
    <3> QED
      BY <2>1, <2>2, <2>4, <3>1 DEF Managed
  <2> QED
    BY <1>3, <2>3, <2>4 DEF AddDone
<1>4. ASSUME NEW t \in Caller, NEW r \in Port, RemoveLock(t, r)
      PROVE  Used(p)'
  BY <1>4 DEF RemoveLock, Go, MgrFree, Managed, CallerInv, TableInv, Holding,
     AtRest, Thread, vars, threads
<1>5. ASSUME NEW t \in Caller,
             \/ \E r \in Port, w \in Password : Allocate(t, r, w)
             \/ AddLock(t) \/ AddExists(t) \/ RemoveFiles(t)
      PROVE  Used(p)'
  <2>1. UNCHANGED <<rule, servers>> /\ mpc[t] \notin {"removing", "adding"}
        /\ \A u \in Caller \ {t} : pc'[u] = pc[u] /\ mpc'[u] = mpc[u] /\ obj'[u] = obj[u]
    BY <1>5 DEF Allocate, AddLock, Start, Begin, AddExists, AddFailed,
       RemoveFiles, Go, AtRest, vars, threads, Thread
  <2> QED
    BY <2>1 DEF Managed
<1>6. /\ ~RestoreAfter /\ ~RestoreAlive /\ ~RestoreDead /\ ~Discard
      /\ \A r \in Port : ~RestoreLoad(r)
  BY DEF RestoreAfter, RestoreAlive, RestoreDead, Discard, RestoreLoad, LifeInv,
     PhaseInv, Without, AtRest
<1>7. CASE UNCHANGED <<rule, servers, mpc, obj, pc>>
  BY <1>7 DEF Managed
<1>8. CASE ExitClean
  BY <1>8 DEF ExitClean, AtRest, PhaseInv, Handler
<1>9. ~Crash /\ ~Reboot
  BY DEF Crash, Reboot, Without
<1> QED
  BY <1>1, <1>2, <1>3, <1>4, <1>5, <1>6, <1>7, <1>8, <1>9, MgrSteps
     DEF FreePort, CleanServer, Handler, Boot, Serve, Shutdown, CleanDir,
     allVars, mgrVars, vars, threads

HistInv == ProcInv /\ ReadyInv /\ AckedInv /\ ServedInv /\ RuleInv

LEMMA HistAlways == MgrSpec => []HistInv
<1>1. MgrInit => HistInv
  <2>1. MgrInit => ReadyInv /\ AckedInv /\ ServedInv /\ RuleInv
    BY DEF MgrInit, EmptyMemory, InitWorld, ReadyInv, AckedInv, AckedRun,
       ServedInv, RuleInv, Managed
  <2> QED
    BY <2>1, ProcInit DEF HistInv
<1>2. HistInv /\ [MgrNext]_<<allVars, events>> => HistInv'
  BY ProcNext, ReadyNext, AckedNext, ServedNext, RuleNext DEF HistInv
<1> QED
  BY <1>1, <1>2, PTL DEF MgrSpec

\* A server whose Allocate succeeded is managed whenever the slave serves,
\* until it is freed: a crash leaves its process and its configuration, and
\* Restore puts it back before the slave serves again.
THEOREM AckedSurvive == MgrSpec => []SurvivesCrash
<1>1. HistInv => SurvivesCrash
  <2> SUFFICES ASSUME HistInv, Lasting, Quiet, NEW p \in acked
               PROVE  Managed(p)
    BY DEF SurvivesCrash, NeverLost, Lasting
  <2>1. PICK q \in Pid : Serves(q, p)
    BY DEF HistInv, AckedInv, AckedRun, Bound
  <2>2. NoOrphan /\ p \in Port
    BY TrackedWhenQuiet DEF HistInv, ProcInv, SaveInv, MInv, MgrTypeOK
  <2>3. Tracking
    BY DEF Lasting, Tracking, NotBoth, Without
  <2> QED
    BY <2>1, <2>2, <2>3 DEF NoOrphan, Tracking, Managed
<1> QED
  BY <1>1, HistAlways, PTL

\* Whenever the slave serves, a process runs for every managed server, also
\* after a restart of the machine: Restore has started it.
THEOREM ServedAfterReboot == MgrSpec => []SurvivesReboot
<1>1. HistInv => SurvivesReboot
  BY DEF HistInv, ServedInv, SurvivesReboot, AllServed
<1> QED
  BY <1>1, HistAlways, PTL

\* A slave that ends by CleanUp leaves no ss-server, no directory and no
\* iptables rule behind.
THEOREM CleanUpCleans == MgrSpec => []CleanedUp
<1>1. HistInv => CleanedUp
  <2> SUFFICES ASSUME HistInv, phase = "off", Without({"tick", "crash", "reboot"})
               PROVE  (\A p \in Port : ~Bound(p)) /\ dir = {} /\ rule = {}
    BY DEF CleanedUp, NothingLeft
  <2> USE DEF HistInv, ProcInv, SaveInv, MInv
  <2>1. Tracking
    BY DEF Tracking, NotBoth, Without
  <2>2. \A p \in Port : ~Bound(p)
    BY <2>1 DEF TracedInv, Traced, Bound
  <2>3. dir = {}
    BY DEF LifeInv
  <2>4. rule = {}
    BY DEF RuleInv, PhaseInv, AtRest, Handler, MgrTypeOK, TypeOK, WorldType
  <2> QED
    BY <2>2, <2>3, <2>4
<1> QED
  BY <1>1, HistAlways, PTL

-----------------------------------------------------------------------------
\* Watch daemons and iptables rules.  A Server has both from the end of the
\* start() or of the Server.Restore that found it alive until Stop.
Cared(s) == PortOf[s] \in rule /\ \E d \in Daemon : WatchedBy(d, s)

CaredInv ==
    /\ Guarded
    /\ \A t \in Caller :
          \/ mpc[t] = "adding" /\ pc[t] = "ok"
          \/ mpc[t] = "removing"
          => Cared(obj[t])

\* What is on its way to its start() has no daemon yet, unless that start()
\* refuses since there is a handle.
NewInv ==
    \A t \in Caller :
        /\ mpc[t] = "add" /\ runtime[obj[t]] = None => cancel[obj[t]] = None
        /\ mpc[t] = "adding" /\ pc[t] \in InStart => cancel[obj[t]] = None

\* The Server that Restore is at: the timer of the daemon it has been given
\* does not fire before the next look at it.
LoadedInv ==
    mpc[Main] = "loaded" =>
        /\ cancel[obj[Main]] = None
        /\ \A d \in Daemon : target[d] # obj[Main]

CheckedInv ==
    mpc[Main] = "checked" =>
        /\ runtime[obj[Main]] = None => cancel[obj[Main]] = None
        /\ Alive(obj[Main]) => Cared(obj[Main])
        /\ \A d \in Daemon : target[d] = obj[Main] =>
              pc[d] = "select" /\ d \notin done

GuardInv == CaredInv /\ NewInv /\ LoadedInv /\ CheckedInv

\* A step of a Server gives a handle, a daemon or a name to the Server of a
\* start() or of a revival only.
LEMMA OthersUntouched ==
    ASSUME BaseInv, ServerStep, NEW s \in Server,
           \A u \in Thread : target[u] = s /\ pc[u] \in {"pid", "revive"} =>
                                 pc'[u] = pc[u]
    PROVE  /\ runtime'[s] = runtime[s] /\ cancel'[s] = cancel[s]
           /\ \A d \in Daemon : target'[d] = s => target[d] = s
<1> USE DEF BaseInv, TypeOK, MemoryType, ThreadType, Thread
<1>1. ASSUME NEW t \in Thread, Write(t) \/ ExecOK(t)
      PROVE  UNCHANGED <<runtime, cancel, target>>
  BY <1>1 DEF Write, ExecOK, memory
<1>2. ASSUME NEW t \in Thread, ExecFail(t) \/ NoPid(t)
      PROVE  /\ UNCHANGED <<runtime, cancel>>
             /\ \A d \in Daemon : target'[d] = s => target[d] = s
  BY <1>2 DEF ExecFail, NoPid, Fail, Leave
<1>3. ASSUME NEW t \in Thread, ReadPid(t)
      PROVE  /\ runtime'[s] = runtime[s] /\ cancel'[s] = cancel[s]
             /\ \A d \in Daemon : target'[d] = s => target[d] = s
  <2>1. pc[t] = "pid" /\ pc'[t] # "pid"
    BY <1>3 DEF ReadPid, AfterStart, Ended
  <2>2. target[t] # s
    BY <1>3, <2>1
  <2> QED
    BY <1>3, <2>2 DEF ReadPid, AfterStart, Leave
<1>4. ASSUME NEW d \in Daemon, Watching(d)
      PROVE  /\ runtime'[s] = runtime[s] /\ cancel'[s] = cancel[s]
             /\ \A e \in Daemon : target'[e] = s => target[e] = s
  <2>1. CASE Revive(d)
    <3>1. pc[d] = "revive" /\ pc'[d] # "revive"
      BY <2>1 DEF Revive, Begin, Ended
    <3>2. target[d] # s
      BY <3>1
    <3> QED
      BY <2>1, <3>2 DEF Revive, Begin, Leave
  <2>2. CASE Tick(d) \/ Exit(d) \/ Check(d) \/ NotNeeded(d)
    BY <2>2, NoneIsNil DEF Tick, Exit, Check, NotNeeded, memory
  <2> QED
    BY <1>4, <2>1, <2>2 DEF Watching
<1>5. ASSUME NEW q \in Pid, Die(q)
      PROVE  UNCHANGED <<runtime, cancel, target>>
  BY <1>5 DEF Die, memory, threads
<1> QED
  BY <1>1, <1>2, <1>3, <1>4, <1>5 DEF ServerStep, Starting

\* No process comes to life under a handle.
LEMMA NoneRevives ==
    ASSUME BaseInv, ServerStep, NEW s \in Server, runtime'[s] = runtime[s],
           Alive(s)'
    PROVE  Alive(s)
<1> USE DEF BaseInv, TypeOK, MemoryType, WorldType
<1>1. ASSUME NEW t \in Thread, ExecOK(t)
      PROVE  Alive(s)
  BY <1>1 DEF ExecOK, Fresh, Alive, Live
<1>2. ASSUME NEW q \in Pid, Die(q)
      PROVE  Alive(s)
  BY <1>2 DEF Die, Alive, Live
<1>3. CASE UNCHANGED proc
  BY <1>3 DEF Alive, Live
<1> QED
  BY <1>1, <1>2, <1>3 DEF ServerStep, Starting, Write, ExecFail, NoPid, ReadPid,
     Watching, Tick, Exit, Check, NotNeeded, Revive

LEMMA ServerStepCares ==
    ASSUME BaseInv, ServerStep, NEW s \in Server, Cared(s)
    PROVE  Cared(s)'
<1> USE DEF BaseInv, TypeOK, MemoryType, ThreadType, WorldType, Thread, WatchedBy
<1>1. PICK d \in Daemon : WatchedBy(d, s)
  BY DEF Cared
<1>2. PortOf[s] \in rule
  BY DEF Cared
<1>3. ASSUME NEW t \in Thread, Write(t) \/ ExecOK(t)
      PROVE  WatchedBy(d, s)' /\ UNCHANGED rule
  BY <1>1, <1>3 DEF Write, ExecOK, memory
<1>4. ASSUME NEW t \in Thread, ExecFail(t) \/ NoPid(t)
      PROVE  WatchedBy(d, s)' /\ UNCHANGED rule
  BY <1>1, <1>4 DEF ExecFail, NoPid, Fail, Leave, Ended, disk
<1>5. ASSUME NEW t \in Thread, ReadPid(t)
      PROVE  WatchedBy(d, s)' /\ rule \subseteq rule'
  BY <1>1, <1>5 DEF ReadPid, AfterStart, Leave, Ended
<1>6. ASSUME NEW e \in Daemon, Watching(e)
      PROVE  WatchedBy(d, s)' /\ UNCHANGED rule
  BY <1>1, <1>6 DEF Watching, Tick, Exit, Check, NotNeeded, Revive, Begin,
     Leave, Ended, memory
<1>7. ASSUME NEW q \in Pid, Die(q)
      PROVE  WatchedBy(d, s)' /\ UNCHANGED rule
  BY <1>1, <1>7 DEF Die, memory, threads
<1> QED
  BY <1>2, <1>3, <1>4, <1>5, <1>6, <1>7 DEF ServerStep, Starting, Cared

\* Only the end of the program and the Stop of a Server of the same port take
\* the daemon or the rule away.
LEMMA StaysCared ==
    ASSUME MInv, GuardInv, [MgrNext]_<<allVars, events>>,
           NEW s \in Server, Cared(s), ~(ExitClean \/ Crash \/ Reboot),
           \A t \in Caller : RemoveStop(t) => PortOf[obj[t]] # PortOf[s]
    PROVE  Cared(s)'
<1> USE DEF MInv, MgrTypeOK
<1>d. PICK d \in Daemon : WatchedBy(d, s)
  BY DEF Cared
<1>r. PortOf[s] \in rule /\ ~Garbage(s)
  BY <1>d DEF Cared, WatchedBy, Garbage
<1>q. ASSUME WatchedBy(d, s)', rule \subseteq rule'
      PROVE  Cared(s)'
  BY <1>r, <1>q DEF Cared
<1> HIDE DEF Cared
<1>1. CASE ServerStep
  BY <1>1, ServerStepCares DEF BaseInv
<1>2. CASE UNCHANGED <<cancel, pc, target, done, rule>>
  BY <1>d, <1>q, <1>2 DEF WatchedBy
<1>3. ASSUME NEW t \in Caller, AddLock(t) \/ AddDone(t)
      PROVE  Cared(s)'
  BY <1>d, <1>q, <1>3 DEF AddLock, Start, Begin, Ended, Leave, AddDone, memory,
     WatchedBy, TypeOK, ThreadType, Thread
<1>4. ASSUME NEW t \in Caller, RemoveStop(t)
      PROVE  Cared(s)'
  <2>1. obj[t] \in Server /\ Cared(obj[t]) /\ PortOf[obj[t]] # PortOf[s]
    BY <1>4 DEF GuardInv, CaredInv, RemoveStop, CallerInv, AtRest
  <2>2. cancel[obj[t]] # d
    BY <1>d, <2>1 DEF Cared, WatchedBy
  <2>3. WatchedBy(d, s)'
    BY <1>d, <1>4, <2>1, <2>2 DEF RemoveStop, Stop, BeforeStop, WatchedBy,
       TypeOK, MemoryType
  <2>4. PortOf[s] \in rule'
    BY <1>r, <1>4, <2>1 DEF RemoveStop, Stop, BeforeStop
  <2> QED
    BY <2>3, <2>4 DEF Cared
<1>5. CASE RestoreAfter
  <2>1. CASE UNCHANGED <<cancel, threads, rule>>
    BY <1>2, <2>1 DEF threads
  <2>2. CASE AfterStart(Main, obj[Main], "idle")
    BY <1>d, <1>q, <2>2 DEF AfterStart, Leave, WatchedBy, TypeOK, MemoryType,
       ThreadType, Thread, CallerInv, AtRest
  <2> QED
    BY <1>5, <2>1, <2>2 DEF RestoreAfter
<1>6. ASSUME NEW u \in Server, Garbage(u), NEW c,
             cancel' = [cancel EXCEPT ![u] = c], UNCHANGED <<pc, target, done, rule>>
      PROVE  Cared(s)'
  BY <1>d, <1>r, <1>q, <1>6 DEF WatchedBy, TypeOK, MemoryType
<1>7. ASSUME NEW t \in Handler, NEW p \in Port, NEW w \in Password, Allocate(t, p, w)
      PROVE  Cared(s)'
  BY <1>6, <1>7, NewServerIsGarbage DEF Allocate, threads
<1>8. ASSUME NEW p \in Port, RestoreLoad(p)
      PROVE  Cared(s)'
  BY <1>2, <1>6, <1>8, NewServerIsGarbage DEF RestoreLoad, threads
<1>9. CASE RestoreDead
  <2>1. PortOf[obj[Main]] \in Port
    BY <1>9 DEF RestoreDead, CallerInv, AtRest
  <2> QED
    BY <1>6, <1>9, <2>1, NewServerIsGarbage DEF RestoreDead, threads
<1> QED
  BY <1>1, <1>2, <1>3, <1>4, <1>5, <1>7, <1>8, <1>9, MgrSteps
  DEF AddExists, RemoveFiles, RestoreAlive, Discard, Boot, Serve, Shutdown,
      CleanDir, CleanServer, FreePort, RemoveLock, allVars, vars, memory, threads

\* A Server enters the map when it is cared for.
LEMMA CaredNext ==
    ASSUME MInv, ObjInv, GuardInv, [MgrNext]_<<allVars, events>>, MInv'
    PROVE  CaredInv'
<1> USE DEF MInv, MgrTypeOK
<1>1. CASE ExitClean \/ Crash \/ Reboot
  BY <1>1 DEF ExitClean, Crash, Reboot, Gone, CaredInv, Guarded, Managed
<1>2. ASSUME NEW p \in Port, NEW s \in Server, servers[p] = s, servers'[p] = s
      PROVE  Cared(s)'
  <2>1. PortOf[s] = p /\ Cared(s)
    BY <1>2 DEF Managed, TableInv, GuardInv, CaredInv, Guarded, Cared
  <2>2. ASSUME NEW t \in Caller, RemoveStop(t) PROVE PortOf[obj[t]] # p
    BY <1>2, <2>2 DEF RemoveStop, TableInv, Holding, Managed
  <2>3. ~(ExitClean \/ Crash \/ Reboot)
    BY <1>2 DEF ExitClean, Crash, Reboot, Gone
  <2> QED
    BY <2>1, <2>2, <2>3, StaysCared
<1>3. ASSUME NEW t \in Caller, NEW s \in Server, obj[t] = s, mpc[t] = mpc'[t],
             \/ mpc[t] = "adding" /\ pc[t] = "ok"
             \/ mpc[t] = "removing"
      PROVE  Cared(s)'
  <2>1. Cared(s) /\ serverMu = t
    BY <1>3 DEF CallerInv, GuardInv, CaredInv, Holding
  <2>2. ASSUME NEW u \in Caller, RemoveStop(u) PROVE FALSE
    <3>1. u = t
      BY <2>1, <2>2 DEF RemoveStop, CallerInv, Holding
    <3> QED
      BY <1>3, <2>2, <3>1 DEF RemoveStop, Go
  <2>3. ~(ExitClean \/ Crash \/ Reboot)
    BY <1>3 DEF ExitClean, Crash, Reboot, Gone
  <2> QED
    BY <2>1, <2>2, <2>3, StaysCared
<1>4. ASSUME NEW t \in Caller, NEW s \in Server, obj[t] = s, mpc[t] = "adding",
             pc[t] # "ok", pc'[t] = "ok", ServerStep
      PROVE  Cared(s)'
  <2>1. t \notin Daemon /\ t \in Thread /\ \A d \in Daemon : d # t
    BY DEF Thread
  <2>2. ReadPid(t)
    <3>1. ASSUME NEW u \in Thread, Starting(u) PROVE ReadPid(t)
      BY <1>4, <2>1, <3>1 DEF Starting, Write, ExecOK, ExecFail, NoPid, Fail,
         Ended, ReadPid, AfterStart, TypeOK, ThreadType
    <3>2. ASSUME NEW d \in Daemon, Watching(d) PROVE pc'[t] = pc[t]
      BY <2>1, <3>2 DEF Watching, Tick, Exit, Check, NotNeeded, Revive, Begin,
         TypeOK, ThreadType, Thread
    <3>3. ASSUME NEW q \in Pid, Die(q) PROVE pc'[t] = pc[t]
      BY <3>3 DEF Die, threads
    <3> QED
      BY <1>4, <3>1, <3>2, <3>3 DEF ServerStep
  <2>3. target[t] = s /\ cancel[s] = None
    BY <1>4, <2>2 DEF ReadPid, CallerInv, InStart, GuardInv, NewInv
  <2>4. PICK d \in Daemon :
           /\ pc[d] = "off" /\ cancel' = [cancel EXCEPT ![s] = d]
           /\ done' = done \ {d}
           /\ pc' = [pc EXCEPT ![t] = "ok", ![d] = "select"]
           /\ target' = [target EXCEPT ![t] = None, ![d] = s]
    BY <2>1, <2>2, <2>3 DEF ReadPid, AfterStart, Leave, Ended
  <2>n. \A e \in Daemon : target[e] # s
    BY <1>4, <2>2 DEF ReadPid, ObjInv, Unwatched
  <2>5. WatchedBy(d, s)'
    BY <2>1, <2>4, <2>n DEF WatchedBy, TypeOK, MemoryType, ThreadType, Thread
  <2>6. PortOf[s] \in rule'
    BY <2>2, <2>3 DEF ReadPid, AfterStart
  <2> QED
    BY <2>5, <2>6 DEF Cared
<1>5. ASSUME NEW p \in Port, NEW s \in Server, servers'[p] = s
      PROVE  Cared(s)'
  <2>1. CASE servers[p] = s
    BY <1>2, <1>5, <2>1
  <2>2. CASE servers[p] # s
    <3>1. ASSUME NEW t \in Caller, AddDone(t)
          PROVE  Cared(s)'
      <4>1. obj[t] = s /\ mpc[t] = "adding" /\ pc[t] = "ok"
        BY <1>5, <2>2, <3>1 DEF AddDone
      <4>2. Cared(s) /\ ~(ExitClean \/ Crash \/ Reboot)
        BY <1>5, <4>1 DEF GuardInv, CaredInv, ExitClean, Crash, Reboot, Gone
      <4>3. \A u \in Caller : ~RemoveStop(u)
        BY <1>5, <2>2 DEF RemoveStop
      <4> QED
        BY <4>2, <4>3, StaysCared
    <3>2. CASE RestoreAlive
      <4>1. obj[Main] = s /\ Cared(s)
        BY <1>5, <2>2, <3>2 DEF RestoreAlive, GuardInv, CheckedInv
      <4>2. ~(ExitClean \/ Crash \/ Reboot)
        BY <1>5 DEF ExitClean, Crash, Reboot, Gone
      <4>3. \A u \in Caller : ~RemoveStop(u)
        BY <1>5, <2>2 DEF RemoveStop
      <4> QED
        BY <4>1, <4>2, <4>3, StaysCared
    <3>3. CASE ~RestoreAlive /\ \A t \in Caller : ~AddDone(t)
      BY <1>5, <2>2, <3>3, MgrSteps DEF ServerStep, mgrVars, Allocate, FreePort,
         RemoveLock, AddLock, AddExists, RemoveStop, RemoveFiles, Boot,
         RestoreLoad, RestoreAfter, RestoreDead, Discard, Serve, Shutdown,
         CleanDir, CleanServer, ExitClean, Crash, Reboot, Gone, allVars
    <3> QED
      BY <3>1, <3>2, <3>3
  <2> QED
    BY <2>1, <2>2
<1>6. ASSUME NEW t \in Caller, NEW s \in Server, obj'[t] = s,
             \/ mpc'[t] = "adding" /\ pc'[t] = "ok"
             \/ mpc'[t] = "removing"
      PROVE  Cared(s)'
  <2>1. CASE ServerStep
    BY <1>3, <1>4, <1>6, <2>1 DEF ServerStep, mgrVars
  <2>2. ASSUME NEW p \in Port, RemoveLock(t, p)
        PROVE  Cared(s)'
    <3>1. Cared(s)
      BY <1>6, <2>2 DEF RemoveLock, Go, Managed, GuardInv, CaredInv, Guarded, Cared,
         TableInv
    <3> QED
      BY <2>2, <3>1 DEF RemoveLock, vars, memory, threads, Cared, WatchedBy
  <2>3. CASE ~ServerStep /\ \A p \in Port : ~RemoveLock(t, p)
    <3>1. ASSUME NEW u \in Caller, AddLock(u)
          PROVE  obj[t] = s /\ mpc[t] = mpc'[t] /\ pc'[t] = pc[t]
      <4>1. t # u
        BY <1>6, <3>1 DEF AddLock, Go, Start, Begin, Ended, TypeOK, ThreadType,
           Thread
      <4> QED
        BY <1>6, <3>1, <4>1 DEF AddLock, Go, Start, Begin, TypeOK, ThreadType,
           Thread
    <3>2. ASSUME NEW u \in Caller, AddDone(u)
          PROVE  obj[t] = s /\ mpc[t] = mpc'[t] /\ pc'[t] = pc[t]
      BY <1>6, <3>2 DEF AddDone, AddFailed, Go, TypeOK, ThreadType, Thread
    <3>3. CASE RestoreAfter
      <4>1. \A u \in Caller : pc'[u] = pc[u]
        BY <3>3 DEF RestoreAfter, AfterStart, threads, TypeOK, ThreadType, Thread,
           CallerInv
      <4> QED
        BY <1>3, <1>6, <3>3, <4>1 DEF RestoreAfter, Go
    <3>4. ASSUME NEW u \in Caller,
                 AddExists(u) \/ RemoveStop(u) \/ RemoveFiles(u)
          PROVE  obj[t] = s /\ mpc[t] = mpc'[t] /\ pc'[t] = pc[t]
      BY <1>6, <3>4 DEF AddExists, AddFailed, RemoveStop, Stop, RemoveFiles, Go,
         vars, threads
    <3>5. ASSUME NEW u \in Handler, NEW p \in Port, NEW w \in Password,
                 Allocate(u, p, w)
          PROVE  obj[t] = s /\ mpc[t] = mpc'[t] /\ pc'[t] = pc[t]
      BY <1>6, <3>5 DEF Allocate, Go, threads, Handler
    <3>6. ASSUME NEW u \in Caller, NEW p \in Port, RemoveLock(u, p)
          PROVE  obj[t] = s /\ mpc[t] = mpc'[t] /\ pc'[t] = pc[t]
      BY <1>6, <2>3, <3>6 DEF RemoveLock, Go, vars, threads
    <3>7. CASE \/ \E p \in Port : RestoreLoad(p) \/ CleanDir(p)
               \/ RestoreAlive \/ RestoreDead \/ Discard
               \/ Boot \/ Serve \/ Shutdown \/ UNCHANGED <<allVars, events>>
      BY <1>6, <1>3, <3>7
      DEF RestoreLoad, RestoreAlive, RestoreDead, Discard, Boot, Serve, Shutdown,
          CleanDir, Go, allVars, mgrVars, vars, threads
    <3>8. CASE ExitClean \/ Crash \/ Reboot
      BY <1>6, <3>8 DEF ExitClean, Crash, Reboot, Gone
    <3>9. ASSUME obj[t] = s /\ mpc[t] = mpc'[t] /\ pc'[t] = pc[t]
          PROVE  Cared(s)'
      BY <1>3, <1>6, <3>9
    <3> QED
      BY <2>3, <3>1, <3>2, <3>3, <3>4, <3>5, <3>6, <3>7, <3>8, <3>9, MgrSteps
      DEF FreePort, CleanServer, Handler
  <2> QED
    BY <2>1, <2>2, <2>3
<1>7. Guarded'
  BY <1>5 DEF Guarded, Managed, Cared, TableInv
<1>8. \A t \in Caller : (mpc'[t] = "adding" /\ pc'[t] = "ok") \/ mpc'[t] = "removing"
                         => Cared(obj[t])'
  BY <1>6 DEF CallerInv, AtRest, Cared
<1> QED
  BY <1>7, <1>8 DEF CaredInv

\* A caller's own Server changes by the steps of that caller only.
LEMMA OwnUntouched ==
    ASSUME MInv, ObjInv, [MgrNext]_<<allVars, events>>, ~ServerStep,
           NEW t \in Caller, NEW s \in Server, obj[t] = s, obj'[t] = s,
           mpc'[t] = mpc[t], mpc[t] \in {"add", "adding"}
    PROVE  runtime'[s] = runtime[s] /\ cancel'[s] = cancel[s]
<1> USE DEF MInv, MgrTypeOK
<1>1. ASSUME NEW u \in Server, Garbage(u), NEW r, NEW c,
             runtime' = [runtime EXCEPT ![u] = r], cancel' = [cancel EXCEPT ![u] = c]
      PROVE  runtime'[s] = runtime[s] /\ cancel'[s] = cancel[s]
  BY <1>1 DEF Garbage, TypeOK, MemoryType
<1>2. ASSUME NEW u \in Handler, NEW p \in Port, NEW w \in Password, Allocate(u, p, w)
      PROVE  runtime'[s] = runtime[s] /\ cancel'[s] = cancel[s]
  BY <1>1, <1>2, NewServerIsGarbage DEF Allocate
<1>3. ASSUME NEW p \in Port, RestoreLoad(p)
      PROVE  runtime'[s] = runtime[s] /\ cancel'[s] = cancel[s]
  <2>1. NewServer(p) \in Server /\ Garbage(NewServer(p))
    BY <1>3, NewServerIsGarbage DEF RestoreLoad
  <2>2. CASE Readable(p)
    <3>1. /\ runtime' = [runtime EXCEPT ![NewServer(p)] = RestoredRuntime(p)]
          /\ cancel' = [cancel EXCEPT ![NewServer(p)] = None]
      BY <1>3, <2>2 DEF RestoreLoad
    <3> QED
      BY <1>1, <2>1, <3>1
  <2>3. CASE ~Readable(p)
    BY <1>3, <2>3 DEF RestoreLoad
  <2> QED
    BY <2>2, <2>3
<1>4. ~RestoreAfter /\ ~RestoreDead /\ ~ExitClean /\ ~Crash /\ ~Reboot
  BY DEF RestoreAfter, RestoreDead, Go, ExitClean, Crash, Reboot, Gone, PhaseInv,
     Handler, AtRest
<1>5. ASSUME NEW u \in Caller, RemoveStop(u)
      PROVE  runtime'[s] = runtime[s] /\ cancel'[s] = cancel[s]
  <2>1. obj[u] # s
    BY <1>5 DEF RemoveStop, ObjInv
  <2> QED
    BY <1>5, <2>1 DEF RemoveStop, Stop, BeforeStop, Kill, TypeOK, MemoryType
<1> QED
  BY <1>2, <1>3, <1>4, <1>5, MgrSteps
  DEF FreePort, RemoveLock, AddLock, Start, Begin, AddExists, AddDone,
      RemoveFiles, Boot, RestoreAlive, Discard, Serve, Shutdown, CleanDir,
      CleanServer, allVars, vars, memory

LEMMA NewNext ==
    ASSUME MInv, ObjInv, GuardInv, [MgrNext]_<<allVars, events>>, MInv'
    PROVE  NewInv'
<1> USE DEF MInv, MgrTypeOK
<1>t. \A t \in Caller : t \in Thread /\ t \notin Daemon
  BY DEF Thread
<1>1. ASSUME NEW t \in Caller, NEW s \in Server, ServerStep, obj[t] = s,
             \/ mpc[t] = "add"
             \/ mpc[t] = "adding" /\ pc'[t] \in InStart
      PROVE  runtime'[s] = runtime[s] /\ cancel'[s] = cancel[s]
  <2>1. mpc[t] = "adding" => pc[t] \in InStart
    <3>1. pc[t] \in {"ok", "fail"} => pc'[t] = pc[t]
      BY <1>1, <1>t, ServerStepEffect, NewTarget DEF BaseInv
    <3>2. mpc[t] = "adding" => pc[t] # "idle" /\ pc[t] \in CallerPC
      BY <1>1 DEF CallerInv, TypeOK, ThreadType
    <3> QED
      BY <1>1, <3>1, <3>2 DEF InStart, CallerPC
  <2>2. \A d \in Daemon : target[d] # s
    BY <1>1, <2>1 DEF ObjInv, Unwatched, InStart
  <2>3. ASSUME NEW u \in Caller, target[u] = s, pc[u] \in {"pid", "revive"}
        PROVE  u = t /\ pc[t] = "pid"
    BY <1>1, <2>3 DEF CallerInv, ObjInv, InStart, TypeOK, ThreadType, CallerPC
  <2>4. pc[t] = "pid" => pc'[t] = "pid"
    <3> SUFFICES ASSUME pc[t] = "pid" PROVE pc'[t] = "pid"
      OBVIOUS
    <3>1. mpc[t] = "adding"
      BY <1>1 DEF CallerInv
    <3>2. ASSUME NEW u \in Thread, Starting(u) PROVE pc'[t] = "pid"
      BY <1>1, <1>t, <3>1, <3>2 DEF Starting, Write, ExecOK, ExecFail, NoPid, Fail,
         Ended, ReadPid, AfterStart, TypeOK, ThreadType, InStart
    <3>3. ASSUME NEW d \in Daemon, Watching(d) PROVE pc'[t] = pc[t]
      BY <1>t, <3>3 DEF Watching, Tick, Exit, Check, NotNeeded, Revive, Begin,
         TypeOK, ThreadType, Thread
    <3>4. ASSUME NEW q \in Pid, Die(q) PROVE pc'[t] = pc[t]
      BY <3>4 DEF Die, threads
    <3> QED
      BY <1>1, <3>2, <3>3, <3>4 DEF ServerStep
  <2> QED
    BY <1>1, <2>2, <2>3, <2>4, OthersUntouched DEF Thread, BaseInv
<1>2. ASSUME NEW t \in Caller, NEW s \in Server, obj'[t] = s, mpc'[t] = "add",
             runtime'[s] = None
      PROVE  cancel'[s] = None
  <2>1. CASE ServerStep
    BY <1>1, <1>2, <2>1 DEF ServerStep, mgrVars, GuardInv, NewInv
  <2>2. CASE ~ServerStep /\ mpc[t] = "add" /\ obj[t] = s
    BY <1>2, <2>2, OwnUntouched DEF GuardInv, NewInv
  <2>3. ASSUME NEW u \in Handler, NEW p \in Port, NEW w \in Password,
               Allocate(u, p, w), mpc[t] # "add" \/ obj[t] # s
        PROVE  cancel'[s] = None
    <3>1. u = t /\ s = NewServer(p)
      BY <1>2, <2>3 DEF Allocate, Go, Handler
    <3> QED
      BY <2>3, <3>1 DEF Allocate, TypeOK, MemoryType
  <2>4. CASE RestoreDead /\ (mpc[t] # "add" \/ obj[t] # s)
    <3>1. t = Main /\ s = NewServer(PortOf[obj[Main]])
      BY <1>2, <2>4 DEF RestoreDead, Go
    <3>2. obj[Main] \in Server /\ mpc[Main] = "checked"
      BY <2>4 DEF RestoreDead, CallerInv, AtRest
    <3>3. runtime'[s] = runtime[obj[Main]] /\ cancel'[s] = cancel[obj[Main]]
      BY <2>4, <3>1 DEF RestoreDead, TypeOK, MemoryType
    <3> QED
      BY <1>2, <3>2, <3>3 DEF GuardInv, CheckedInv
  <2> QED
    BY <1>2, <2>1, <2>2, <2>3, <2>4, MgrSteps
    DEF FreePort, RemoveLock, AddLock, AddExists, AddDone, AddFailed, RemoveStop,
        RemoveFiles, Boot, RestoreLoad, RestoreAfter, RestoreAlive, Discard, Serve,
        Shutdown, CleanDir, CleanServer, ExitClean, Crash, Reboot, Gone, allVars,
        mgrVars, Go
<1>3. ASSUME NEW t \in Caller, NEW s \in Server, obj'[t] = s, mpc'[t] = "adding",
             pc'[t] \in InStart
      PROVE  cancel'[s] = None
  <2>1. CASE ServerStep
    <3>1. mpc[t] = "adding" /\ obj[t] = s
      BY <1>3, <2>1 DEF ServerStep, mgrVars
    <3>2. pc[t] \in InStart
      <4>1. pc[t] \in {"ok", "fail"} => pc'[t] = pc[t]
        BY <1>t, <2>1, ServerStepEffect, NewTarget DEF BaseInv
      <4>2. pc[t] # "idle" /\ pc[t] \in CallerPC
        BY <3>1 DEF CallerInv, TypeOK, ThreadType
      <4> QED
        BY <1>3, <4>1, <4>2 DEF InStart, CallerPC
    <3> QED
      BY <1>1, <1>3, <2>1, <3>1, <3>2 DEF GuardInv, NewInv
  <2>2. ASSUME AddLock(t)
        PROVE  cancel'[s] = None
    <3>1. obj[t] = s /\ mpc[t] = "add" /\ runtime[s] = None
      BY <1>3, <1>t, <2>2 DEF AddLock, Go, Start, TypeOK, ThreadType, InStart
    <3> QED
      BY <2>2, <3>1 DEF AddLock, Start, GuardInv, NewInv
  <2>3. CASE ~ServerStep /\ ~AddLock(t)
    <3>1. mpc[t] = "adding" /\ obj[t] = s
      BY <1>3, <2>3, MgrSteps
      DEF Allocate, FreePort, RemoveLock, AddLock, AddExists, AddDone, AddFailed,
        RemoveStop, RemoveFiles, Boot, RestoreLoad, RestoreAfter, RestoreAlive,
        RestoreDead, Discard, Serve, Shutdown, CleanDir, CleanServer, ExitClean,
        Crash, Reboot, Gone, allVars, mgrVars, Go
    <3>2. \A u \in Caller \ {t} : ~AddLock(u) /\ ~AddDone(u) /\ ~RemoveStop(u)
      <4>1. serverMu = t /\ t # None
        BY <1>t, <3>1 DEF CallerInv, Holding
      <4> QED
        BY <4>1 DEF AddLock, AddDone, RemoveStop, CallerInv, Holding, MgrFree
    <3>3. ~AddDone(t) /\ ~RestoreAfter /\ ~ExitClean /\ ~Crash /\ ~Reboot
      BY <1>3, <3>1 DEF AddDone, AddFailed, Go, RestoreAfter, PhaseInv, Handler,
         AtRest, ExitClean, Crash, Reboot, Gone
    <3>4. pc'[t] = pc[t]
      BY <2>3, <3>1, <3>2, <3>3, MgrSteps
      DEF Allocate, FreePort, RemoveLock, AddExists, RemoveStop, Go, RemoveFiles,
        Boot, RestoreLoad, RestoreAlive, RestoreDead, Discard, Serve, Shutdown,
        CleanDir, CleanServer, allVars, vars, threads
    <3> QED
      BY <1>3, <2>3, <3>1, <3>4, OwnUntouched DEF GuardInv, NewInv
  <2> QED
    BY <2>1, <2>2, <2>3
<1> QED
  BY <1>2, <1>3 DEF NewInv, CallerInv, AtRest

\* While Restore looks at a Server nobody else is at work on the map.
LEMMA Looking ==
    ASSUME MInv, [MgrNext]_<<allVars, events>>, mpc[Main] \in {"loaded", "checked"}
    PROVE  \/ ServerStep \/ UNCHANGED <<allVars, events>>
           \/ RestoreAfter \/ RestoreAlive \/ RestoreDead \/ Crash \/ Reboot
<1> USE DEF MInv
<1>1. phase = "restore" /\ \A t \in Handler : mpc[t] = "idle"
  BY DEF PhaseInv, AtRest
<1>2. \A t \in Caller : mpc[t] \in {"idle", "loaded", "checked"}
  BY <1>1 DEF Handler
<1> QED
  BY <1>1, <1>2, MgrSteps
  DEF Allocate, FreePort, RemoveLock, AddLock, AddExists, AddDone, RemoveStop,
      RemoveFiles, Boot, RestoreLoad, Discard, Serve, Shutdown, CleanDir,
      CleanServer, ExitClean, AtRest

\* Nobody is at work on the Server that Restore looks at, but its own daemon.
LEMMA OwnStarter ==
    ASSUME MInv, ObjInv, NEW s \in Server, obj[Main] = s,
           mpc[Main] \in {"loaded", "checked"}, NEW u \in Caller, target[u] = s
    PROVE  pc[u] \notin InStart \cup {"revive"}
BY DEF MInv, MgrTypeOK, TypeOK, ThreadType, CallerPC, InStart, CallerInv, ObjInv,
   PhaseInv, Handler, AtRest

LEMMA LoadedNext ==
    ASSUME MInv, ObjInv, GuardInv, [MgrNext]_<<allVars, events>>, MInv'
    PROVE  LoadedInv'
<1> USE DEF MInv, MgrTypeOK
<1> SUFFICES ASSUME NEW s \in Server, obj'[Main] = s, mpc'[Main] = "loaded"
             PROVE  cancel'[s] = None /\ \A d \in Daemon : target'[d] # s
  BY DEF LoadedInv, CallerInv, AtRest
<1>1. CASE mpc[Main] = "loaded"
  <2>1. CASE ServerStep
    <3>1. obj[Main] = s /\ cancel[s] = None /\ \A d \in Daemon : target[d] # s
      BY <1>1, <2>1 DEF ServerStep, mgrVars, GuardInv, LoadedInv
    <3>2. \A u \in Thread : target[u] = s => pc[u] \notin {"pid", "revive"}
      BY <1>1, <3>1, OwnStarter DEF Thread, InStart
    <3> QED
      BY <2>1, <3>1, <3>2, OthersUntouched DEF BaseInv
  <2>2. CASE UNCHANGED <<allVars, events>>
    BY <1>1, <2>2 DEF allVars, mgrVars, vars, memory, threads, GuardInv, LoadedInv
  <2> QED
    BY <1>1, <2>1, <2>2, Looking DEF RestoreAfter, RestoreAlive, RestoreDead, Go,
       Crash, Reboot, Gone
<1>2. CASE mpc[Main] # "loaded"
  <2>1. PICK p \in Port : RestoreLoad(p)
    BY <1>2, MgrSteps
    DEF ServerStep, Allocate, FreePort, RemoveLock, AddLock, AddExists, AddDone,
        AddFailed, RemoveStop, RemoveFiles, Boot, RestoreAfter, RestoreAlive,
        RestoreDead, Discard, Serve, Shutdown, CleanDir, CleanServer, ExitClean,
        Crash, Reboot, Gone, allVars, mgrVars, Go
  <2>2. s = NewServer(p) /\ Garbage(s) /\ cancel'[s] = None
    BY <2>1, NewServerIsGarbage DEF RestoreLoad, Go, TypeOK, MemoryType
  <2> QED
    BY <2>1, <2>2 DEF RestoreLoad, threads, Garbage
<1> QED
  BY <1>1, <1>2

LEMMA CheckedNext ==
    ASSUME MInv, ObjInv, GuardInv, [MgrNext]_<<allVars, events>>, MInv'
    PROVE  CheckedInv'
<1> USE DEF MInv, MgrTypeOK, TypeOK, MemoryType, ThreadType
<1> SUFFICES ASSUME NEW s \in Server, obj'[Main] = s, mpc'[Main] = "checked"
             PROVE  /\ runtime'[s] = None => cancel'[s] = None
                    /\ Alive(s)' => Cared(s)'
                    /\ \A d \in Daemon : target'[d] = s =>
                          pc'[d] = "select" /\ d \notin done'
  BY DEF CheckedInv, CallerInv, AtRest, Alive, Live, Cared, WatchedBy
<1>0. Main \in Thread /\ Main \notin Daemon
  BY DEF Thread
<1>1. CASE mpc[Main] = "checked" /\ ServerStep
  <2>1. /\ obj[Main] = s
        /\ runtime[s] = None => cancel[s] = None
        /\ Alive(s) => Cared(s)
        /\ \A d \in Daemon : target[d] = s => pc[d] = "select" /\ d \notin done
    BY <1>1 DEF ServerStep, mgrVars, GuardInv, CheckedInv
  <2>2. \A u \in Thread : target[u] = s => pc[u] \notin InStart \cup {"revive"}
    BY <1>1, <2>1, OwnStarter DEF Thread, InStart
  <2>3. /\ runtime'[s] = runtime[s] /\ cancel'[s] = cancel[s]
        /\ \A d \in Daemon : target'[d] = s => target[d] = s
    BY <1>1, <2>2, OthersUntouched DEF BaseInv, InStart
  <2>4. Alive(s)' => Cared(s)'
    BY <1>1, <2>1, <2>3, NoneRevives, ServerStepCares DEF BaseInv
  <2>5. ASSUME NEW d \in Daemon, target[d] = s
        PROVE  pc'[d] = "select" /\ d \notin done'
    <3>1. pc[d] = "select" /\ d \notin done /\ d \in Thread
      BY <2>1, <2>5 DEF Thread
    <3>2. ASSUME NEW u \in Thread, Starting(u)
          PROVE  pc'[d] = "select" /\ d \notin done'
      BY <3>1, <3>2 DEF Starting, Write, ExecOK, ExecFail, NoPid, Fail, ReadPid,
         AfterStart, Ended
    <3>3. ASSUME NEW e \in Daemon, Watching(e), target[e] # s
          PROVE  pc'[d] = "select" /\ d \notin done'
      BY <2>5, <3>1, <3>3 DEF Watching, Tick, Exit, Check, NotNeeded, Revive, Begin
    <3>4. ASSUME NEW q \in Pid, Die(q)
          PROVE  pc'[d] = "select" /\ d \notin done'
      BY <3>1, <3>4 DEF Die, threads
    <3> QED
      BY <1>1, <2>1, <3>2, <3>3, <3>4 DEF ServerStep
  <2> QED
    BY <2>1, <2>3, <2>4, <2>5
<1>2. CASE UNCHANGED <<allVars, events>>
  BY <1>2 DEF allVars, mgrVars, vars, memory, threads, GuardInv, CheckedInv, Alive,
     Live, Cared, WatchedBy
<1>3. CASE RestoreAfter
  <2>1. /\ obj[Main] = s /\ cancel[s] = None /\ runtime'[s] = runtime[s]
        /\ \A d \in Daemon : target[d] # s
        /\ Alive(s)' <=> Alive(s)
    BY <1>3 DEF RestoreAfter, Go, GuardInv, LoadedInv, Alive, Live
  <2>2. CASE Alive(s)
    <3>1. PICK d \in Daemon :
             /\ pc[d] = "off" /\ cancel' = [cancel EXCEPT ![s] = d]
             /\ done' = done \ {d}
             /\ pc' = [pc EXCEPT ![Main] = "idle", ![d] = "select"]
             /\ target' = [target EXCEPT ![Main] = None, ![d] = s]
      BY <1>0, <1>3, <2>1, <2>2 DEF RestoreAfter, AfterStart, Leave
    <3>2. WatchedBy(d, s)'
      BY <1>0, <2>1, <3>1 DEF WatchedBy, Thread
    <3>3. PortOf[s] \in rule'
      BY <1>3, <2>1, <2>2 DEF RestoreAfter, AfterStart
    <3>4. \A e \in Daemon : target'[e] = s => pc'[e] = "select" /\ e \notin done'
      BY <1>0, <2>1, <3>1 DEF Thread
    <3>5. runtime'[s] # None
      BY <2>1, <2>2 DEF Alive, Live
    <3> QED
      BY <3>2, <3>3, <3>4, <3>5 DEF Cared, WatchedBy
  <2>3. CASE ~Alive(s)
    BY <1>3, <2>1, <2>3 DEF RestoreAfter, threads
  <2> QED
    BY <2>2, <2>3
<1>4. mpc[Main] \notin {"loaded", "checked"} => UNCHANGED <<allVars, events>>
  BY MgrSteps
  DEF ServerStep, Allocate, FreePort, RemoveLock, AddLock, AddExists, AddDone,
      AddFailed, RemoveStop, RemoveFiles, Boot, RestoreLoad, RestoreAfter,
      RestoreAlive, RestoreDead, Discard, Serve, Shutdown, CleanDir, CleanServer,
      ExitClean, Crash, Reboot, Gone, allVars, mgrVars, Go
<1> QED
  BY <1>1, <1>2, <1>3, <1>4, Looking DEF ServerStep, mgrVars, RestoreAlive,
     RestoreDead, Go, Crash, Reboot, Gone

LEMMA GuardAlways == MgrSpec => [](MInv /\ ObjInv /\ GuardInv)
<1>1. MgrInit => MInv /\ ObjInv /\ GuardInv
  <2>1. MgrInit => MInv
    BY MgrInitInv
  <2>2. MgrInit => ObjInv /\ GuardInv
    BY DEF MgrInit, EmptyMemory, ObjInv, Unwatched, AtRest, GuardInv, CaredInv,
       Guarded, Managed, NewInv, LoadedInv, CheckedInv
  <2> QED
    BY <2>1, <2>2
<1>2. MInv /\ ObjInv /\ GuardInv /\ [MgrNext]_<<allVars, events>>
        => (MInv /\ ObjInv /\ GuardInv)'
  <2> SUFFICES ASSUME MInv, ObjInv, GuardInv, [MgrNext]_<<allVars, events>>
               PROVE  (MInv /\ ObjInv /\ GuardInv)'
    OBVIOUS
  <2>1. MInv'
    BY MgrNextInv
  <2> QED
    BY <2>1, ObjNext, CaredNext, NewNext, LoadedNext, CheckedNext DEF GuardInv
<1> QED
  BY <1>1, <1>2, PTL DEF MgrSpec

\* As long as a server is managed, one watch daemon works on it and goes on,
\* and its iptables rule is there, under any events: no daemon is lost in a
\* restart or in a failed start, and none is doubled.
THEOREM ManagedAreGuarded == MgrSpec => []Guarded
<1>1. GuardInv => Guarded
  BY DEF GuardInv, CaredInv
<1> QED
  BY <1>1, GuardAlways, PTL
=============================================================================
