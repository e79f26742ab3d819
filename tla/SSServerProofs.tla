-------------------------- MODULE SSServerProofs --------------------------
(***************************************************************************)
(* Proofs about SSServer for any number of Servers, callers, daemons and   *)
(* processes.  LockInv says who holds rtMu and that the handle is nil      *)
(* while a Server is being started; it is what makes the type invariant    *)
(* and the properties inductive.                                           *)
(***************************************************************************)
EXTENDS SSServer, TLAPS

\* The holder of rtMu is in start(), on that Server, and the handle of that
\* Server is nil; whoever is in start() holds the lock; every daemon that
\* runs has a Server.
LockInv ==
    /\ \A s \in Server : rtMu[s] # None =>
          /\ pc[rtMu[s]] \in InStart /\ target[rtMu[s]] = s
          /\ runtime[s] = None
    /\ \A t \in Thread : pc[t] \in InStart =>
          target[t] \in Server /\ rtMu[target[t]] = t
    /\ \A d \in Daemon : pc[d] # "off" => target[d] \in Server

BaseInv == TypeOK /\ LockInv
Inv == BaseInv /\ DaemonOwned

USE PortOfType, ThreadsDisjoint, NoneIsNil, TornIsNoPassword, NoProcess

LEMMA InitInv == Init => Inv
<1> SUFFICES ASSUME Init PROVE Inv
  OBVIOUS
<1> USE DEF Init, InitMemory, InitWorld
<1>1. TypeOK
  BY DEF TypeOK, MemoryType, ThreadType, WorldType, CallerPC, DaemonPC, InStart, Thread
<1>2. LockInv
  BY DEF LockInv, InStart, Thread
<1>3. DaemonOwned
  BY DEF DaemonOwned, Thread
<1> QED
  BY <1>1, <1>2, <1>3 DEF Inv, BaseInv

-----------------------------------------------------------------------------
(* Each action preserves BaseInv and, if it holds, DaemonOwned. *)

LEMMA StartInv ==
    ASSUME BaseInv, NEW t \in Caller, NEW s \in Server, Start(t, s)
    PROVE  BaseInv' /\ (DaemonOwned => DaemonOwned')
<1> USE DEF BaseInv, Start, Begin, Free, Ended, Leave, Idle
<1>1. TypeOK'
  <2>1. MemoryType'
    <3>1. CASE runtime[s] # None
      BY <3>1 DEF TypeOK, MemoryType, Thread
    <3>2. CASE runtime[s] = None /\ PortOf[s] \in dir
      <4>1. /\ rtMu' = [rtMu EXCEPT ![s] = t]
            /\ extra' = [extra EXCEPT ![s] = TRUE]
            /\ UNCHANGED <<runtime, cancel, password>>
        BY <3>2
      <4> QED
        BY <4>1 DEF TypeOK, MemoryType, Thread
    <3>3. CASE runtime[s] = None /\ PortOf[s] \notin dir
      BY <3>3 DEF TypeOK, MemoryType, Thread
    <3> QED
      BY <3>1, <3>2, <3>3
  <2>2. ThreadType'
    BY DEF TypeOK, MemoryType, ThreadType, CallerPC, DaemonPC, InStart, Thread
  <2>3. WorldType'
    BY DEF TypeOK, MemoryType, WorldType, Process
  <2> QED
    BY <2>1, <2>2, <2>3 DEF TypeOK
<1>2. LockInv'
  BY DEF LockInv, TypeOK, MemoryType, ThreadType, InStart, Thread
<1>3. ASSUME DaemonOwned PROVE DaemonOwned'
  BY <1>3 DEF DaemonOwned, TypeOK, MemoryType, ThreadType, LockInv, InStart, Thread
<1> QED
  BY <1>1, <1>2, <1>3

LEMMA StopInv ==
    ASSUME BaseInv, NEW t \in Caller, NEW s \in Server, Stop(t, s)
    PROVE  BaseInv' /\ (DaemonOwned => DaemonOwned')
<1> USE DEF BaseInv, Stop, BeforeStop, Kill, Free, Idle
<1>1. TypeOK'
  <2>1. MemoryType'
    BY DEF TypeOK, MemoryType, Thread
  <2>2. ThreadType'
    BY DEF TypeOK, MemoryType, ThreadType, CallerPC, DaemonPC, InStart, Thread
  <2>3. WorldType'
    <3>1. proc' \in [Pid -> Process \cup {None, Other}]
      BY DEF TypeOK, WorldType
    <3> QED
      BY <3>1 DEF TypeOK, WorldType, disk
  <2> QED
    BY <2>1, <2>2, <2>3 DEF TypeOK
<1>2. LockInv'
  BY DEF LockInv, TypeOK, MemoryType, ThreadType, InStart, Thread
<1>3. ASSUME DaemonOwned PROVE DaemonOwned'
  BY <1>3 DEF DaemonOwned, TypeOK, MemoryType, ThreadType, LockInv, Thread
<1> QED
  BY <1>1, <1>2, <1>3

LEMMA RestartInv ==
    ASSUME BaseInv, NEW t \in Caller, NEW s \in Server, Restart(t, s)
    PROVE  BaseInv' /\ (DaemonOwned => DaemonOwned')
<1> USE DEF BaseInv, Restart, Begin, BeforeStop, Kill, Free, Ended, Leave, Idle
<1>1. TypeOK'
  <2>1. MemoryType'
    BY DEF TypeOK, MemoryType, Thread
  <2>2. ThreadType'
    BY DEF TypeOK, MemoryType, ThreadType, CallerPC, DaemonPC, InStart, Thread
  <2>3. WorldType'
    BY DEF TypeOK, MemoryType, WorldType, Process
  <2> QED
    BY <2>1, <2>2, <2>3 DEF TypeOK
<1>2. LockInv'
  BY DEF LockInv, TypeOK, MemoryType, ThreadType, InStart, Thread
<1>3. ASSUME DaemonOwned PROVE DaemonOwned'
  BY <1>3 DEF DaemonOwned, TypeOK, MemoryType, ThreadType, LockInv, InStart, Thread
<1> QED
  BY <1>1, <1>2, <1>3

LEMMA ReviveInv ==
    ASSUME BaseInv, NEW d \in Daemon, Revive(d)
    PROVE  BaseInv' /\ (DaemonOwned => DaemonOwned')
<1> USE DEF BaseInv, Revive, Begin, Free, Ended, Leave
<1>0. d \in Thread /\ target[d] \in Server
  BY DEF LockInv, Thread
<1>1. TypeOK'
  <2>1. MemoryType'
    BY <1>0 DEF TypeOK, MemoryType, Thread
  <2>2. ThreadType'
    BY <1>0 DEF TypeOK, MemoryType, ThreadType, CallerPC, DaemonPC, InStart, Thread
  <2>3. WorldType'
    BY <1>0 DEF TypeOK, MemoryType, WorldType, Process
  <2> QED
    BY <2>1, <2>2, <2>3 DEF TypeOK
<1>2. LockInv'
  BY <1>0 DEF LockInv, TypeOK, MemoryType, ThreadType, InStart, Thread
<1>3. ASSUME DaemonOwned PROVE DaemonOwned'
  BY <1>0, <1>3 DEF DaemonOwned, TypeOK, MemoryType, ThreadType, LockInv, InStart, Thread
<1> QED
  BY <1>1, <1>2, <1>3

LEMMA WriteInv ==
    ASSUME BaseInv, NEW t \in Thread, Write(t)
    PROVE  BaseInv' /\ (DaemonOwned => DaemonOwned')
<1> USE DEF BaseInv, Write, memory
<1>0. target[t] \in Server
  BY DEF LockInv, InStart
<1>1. TypeOK'
  <2>1. MemoryType'
    BY <1>0 DEF TypeOK, MemoryType, Thread
  <2>2. ThreadType'
    BY <1>0 DEF TypeOK, MemoryType, ThreadType, CallerPC, DaemonPC, InStart, Thread
  <2>3. WorldType'
    BY <1>0 DEF TypeOK, MemoryType, WorldType, Process
  <2> QED
    BY <2>1, <2>2, <2>3 DEF TypeOK
<1>2. LockInv'
  BY DEF LockInv, TypeOK, MemoryType, ThreadType, InStart, Thread
<1>3. ASSUME DaemonOwned PROVE DaemonOwned'
  BY <1>3 DEF DaemonOwned, TypeOK, MemoryType, ThreadType, Thread
<1> QED
  BY <1>1, <1>2, <1>3

\* start() that gives up, in exec() or when it reads the pid file.
LEMMA FailInv ==
    ASSUME BaseInv, NEW t \in Thread, pc[t] \in {"exec", "pid"}, Fail(t), proc' = proc
    PROVE  BaseInv' /\ (DaemonOwned => DaemonOwned')
<1> USE DEF BaseInv, Fail, disk, Ended, Leave
<1>0. target[t] \in Server
  BY DEF LockInv, InStart
<1>1. TypeOK'
  <2>1. MemoryType'
    BY <1>0 DEF TypeOK, MemoryType, Thread
  <2>2. ThreadType'
    BY <1>0 DEF TypeOK, MemoryType, ThreadType, CallerPC, DaemonPC, InStart, Thread
  <2>3. WorldType'
    BY <1>0 DEF TypeOK, MemoryType, WorldType, Process
  <2> QED
    BY <2>1, <2>2, <2>3 DEF TypeOK
<1>2. LockInv'
  BY <1>0 DEF LockInv, TypeOK, MemoryType, ThreadType, InStart, Thread
<1>3. ASSUME DaemonOwned PROVE DaemonOwned'
  BY <1>3 DEF DaemonOwned, TypeOK, MemoryType, ThreadType, LockInv, InStart, Thread
<1> QED
  BY <1>1, <1>2, <1>3

LEMMA ExecOKInv ==
    ASSUME BaseInv, NEW t \in Thread, ExecOK(t)
    PROVE  BaseInv' /\ (DaemonOwned => DaemonOwned')
<1> USE DEF BaseInv, ExecOK, memory
<1>0. target[t] \in Server
  BY DEF LockInv, InStart
<1>1. TypeOK'
  <2>1. MemoryType'
    BY <1>0 DEF TypeOK, MemoryType, Thread
  <2>2. ThreadType'
    BY <1>0 DEF TypeOK, MemoryType, ThreadType, CallerPC, DaemonPC, InStart, Thread
  <2>3. WorldType'
    BY <1>0 DEF TypeOK, MemoryType, WorldType, Process
  <2> QED
    BY <2>1, <2>2, <2>3 DEF TypeOK
<1>2. LockInv'
  BY DEF LockInv, TypeOK, MemoryType, ThreadType, InStart, Thread
<1>3. ASSUME DaemonOwned PROVE DaemonOwned'
  BY <1>3 DEF DaemonOwned, TypeOK, MemoryType, ThreadType, Thread
<1> QED
  BY <1>1, <1>2, <1>3

LEMMA ReadPidInv ==
    ASSUME BaseInv, NEW t \in Thread, ReadPid(t)
    PROVE  BaseInv' /\ (DaemonOwned => DaemonOwned')
<1> USE DEF BaseInv, ReadPid, AfterStart, disk, Ended, Leave
<1>0. target[t] \in Server /\ rtMu[target[t]] = t
  BY DEF LockInv, InStart
<1>1. TypeOK'
  <2>1. MemoryType'
    BY <1>0 DEF TypeOK, MemoryType, WorldType, Thread
  <2>2. ThreadType'
    BY <1>0 DEF TypeOK, MemoryType, ThreadType, CallerPC, DaemonPC, InStart, Thread
  <2>3. WorldType'
    BY <1>0 DEF TypeOK, MemoryType, WorldType, Process
  <2> QED
    BY <2>1, <2>2, <2>3 DEF TypeOK
<1>2. LockInv'
  BY <1>0 DEF LockInv, TypeOK, MemoryType, ThreadType, InStart, Thread
<1>3. ASSUME DaemonOwned PROVE DaemonOwned'
  BY <1>0, <1>3 DEF DaemonOwned, TypeOK, MemoryType, ThreadType, LockInv, InStart, Thread
<1> QED
  BY <1>1, <1>2, <1>3

\* The steps of a daemon that take no lock or find nothing to do.
LEMMA WatchInv ==
    ASSUME BaseInv, NEW d \in Daemon, Tick(d) \/ Exit(d) \/ Check(d) \/ NotNeeded(d)
    PROVE  BaseInv' /\ (DaemonOwned => DaemonOwned')
<1> USE DEF BaseInv, Tick, Exit, Check, NotNeeded, memory, disk
<1>1. TypeOK'
  <2>1. MemoryType'
    BY DEF TypeOK, MemoryType, Thread
  <2>2. ThreadType'
    BY DEF TypeOK, MemoryType, ThreadType, CallerPC, DaemonPC, InStart, Thread
  <2>3. WorldType'
    BY DEF TypeOK, MemoryType, WorldType, Process
  <2> QED
    BY <2>1, <2>2, <2>3 DEF TypeOK
<1>2. LockInv'
  BY DEF LockInv, TypeOK, MemoryType, ThreadType, InStart, Thread
<1>3. ASSUME DaemonOwned PROVE DaemonOwned'
  BY <1>3 DEF DaemonOwned, TypeOK, MemoryType, ThreadType, LockInv, Thread
<1> QED
  BY <1>1, <1>2, <1>3

LEMMA EnvironmentInv ==
    ASSUME BaseInv,
           \/ \E q \in Pid : Die(q)
           \/ \E p \in Port : RmDir(p) \/ MkDir(p)
           \/ UNCHANGED <<vars, events>>
    PROVE  BaseInv' /\ (DaemonOwned => DaemonOwned')
<1> USE DEF BaseInv, Die, RmDir, MkDir, RemoveAll, MkdirAll, memory, threads, disk, vars
<1>1. TypeOK'
  <2>1. MemoryType'
    BY DEF TypeOK, MemoryType, Thread
  <2>2. ThreadType'
    BY DEF TypeOK, MemoryType, ThreadType, CallerPC, DaemonPC, InStart, Thread
  <2>3. WorldType'
    BY DEF TypeOK, MemoryType, WorldType, Process
  <2> QED
    BY <2>1, <2>2, <2>3 DEF TypeOK
<1>2. LockInv'
  BY DEF LockInv
<1>3. ASSUME DaemonOwned PROVE DaemonOwned'
  BY <1>3 DEF DaemonOwned
<1> QED
  BY <1>1, <1>2, <1>3

LEMMA NextInv == Inv /\ [Next]_<<vars, events>> => Inv'
<1> SUFFICES ASSUME Inv, [Next]_<<vars, events>> PROVE Inv'
  OBVIOUS
<1> USE DEF Inv
<1>1. ASSUME NEW t \in Caller, NEW s \in Server,
             Start(t, s) \/ Stop(t, s) \/ Restart(t, s)
      PROVE  Inv'
  BY <1>1, StartInv, StopInv, RestartInv
<1>2. ASSUME NEW t \in Thread, Write(t) \/ ExecOK(t) \/ ReadPid(t)
      PROVE  Inv'
  BY <1>2, WriteInv, ExecOKInv, ReadPidInv
<1>3. ASSUME NEW t \in Thread, ExecFail(t) \/ NoPid(t)
      PROVE  Inv'
  BY <1>3, FailInv DEF ExecFail, NoPid
<1>4. ASSUME NEW d \in Daemon, Watching(d)
      PROVE  Inv'
  BY <1>4, WatchInv, ReviveInv DEF Watching
<1>5. CASE \/ \E q \in Pid : Die(q)
           \/ \E p \in Port : RmDir(p) \/ MkDir(p)
           \/ UNCHANGED <<vars, events>>
  <2>1. BaseInv' /\ (DaemonOwned => DaemonOwned')
    BY <1>5, EnvironmentInv
  <2> QED
    BY <2>1
<1> QED
  BY <1>1, <1>2, <1>3, <1>4, <1>5 DEF Next, Starting, Calling

-----------------------------------------------------------------------------

LEMMA InvAlways == Spec => []Inv
  BY InitInv, NextInv, PTL DEF Spec

\* Every variable has its type.
THEOREM TypeCorrect == Spec => []TypeOK
<1>1. Inv => TypeOK
  BY DEF Inv, BaseInv
<1> QED
  BY <1>1, InvAlways, PTL

\* Each Server has at most one watch daemon that goes on, the one its cancel
\* function stops (startWatchDaemon, stopWatchDaemon).
THEOREM OneDaemon == Spec => []DaemonOwned
<1>1. Inv => DaemonOwned
  BY DEF Inv
<1> QED
  BY <1>1, InvAlways, PTL

\* No step drops the handle of a live process without killing it.  What a
\* start() overwrites is nil, by LockInv; revive() has looked again.
THEOREM HandleKept == Spec => KeepsTrack
<1> DEFINE Kept == \A s \in Server :
              Alive(s) /\ runtime'[s] # runtime[s] => proc'[runtime[s]] = None
<1>1. ASSUME Inv, [Next]_<<vars, events>> PROVE Kept
  <2> USE <1>1 DEF Inv, BaseInv, Alive, Live
  <2>1. ASSUME NEW t \in Caller, NEW s \in Server,
               Start(t, s) \/ Stop(t, s) \/ Restart(t, s)
        PROVE  Kept
    BY <2>1 DEF Start, Stop, Restart, Kill, TypeOK, MemoryType
  <2>2. ASSUME NEW t \in Thread, Starting(t)
        PROVE  Kept
    <3>1. CASE ReadPid(t)
      <4>1. target[t] \in Server /\ runtime[target[t]] = None
        BY <3>1 DEF ReadPid, LockInv, InStart, Thread
      <4> QED
        BY <3>1, <4>1 DEF ReadPid, TypeOK, MemoryType
    <3>2. CASE ~ReadPid(t)
      BY <2>2, <3>2 DEF Starting, Write, ExecOK, ExecFail, NoPid, Fail, memory
    <3> QED
      BY <3>1, <3>2
  <2>3. ASSUME NEW d \in Daemon, Watching(d)
        PROVE  Kept
    BY <2>3 DEF Watching, Tick, Exit, Check, NotNeeded, Revive, memory,
                TypeOK, MemoryType
  <2>4. ASSUME \/ \E q \in Pid : Die(q)
               \/ \E p \in Port : RmDir(p) \/ MkDir(p)
               \/ UNCHANGED <<vars, events>>
        PROVE  Kept
    BY <2>4 DEF Die, RmDir, MkDir, vars, memory
  <2> QED
    BY <2>1, <2>2, <2>3, <2>4 DEF Next, Calling
<1>2. Inv /\ [Next]_<<vars, events>> => [Kept]_vars
  BY <1>1
<1> QED
  BY <1>2, InvAlways, PTL DEF Spec, KeepsTrack

-----------------------------------------------------------------------------
(* What holds when every Server has a port, hence a run directory and a    *)
(* rule, of its own.                                                       *)

OwnPort == \A r, s \in Server : PortOf[r] = PortOf[s] => r = s

\* Handle, daemon and rule come and go together, even inside start().
WatchedInv ==
    \A s \in Server : /\ runtime[s] # None => cancel[s] # None
                      /\ cancel[s] # None <=> PortOf[s] \in rule

LEMMA WatchedStep ==
    ASSUME OwnPort, Inv, WatchedInv, [Next]_<<vars, events>>
    PROVE  WatchedInv'
<1> USE DEF Inv, BaseInv, WatchedInv
<1>1. ASSUME NEW t \in Caller, NEW s \in Server, Start(t, s)
      PROVE  WatchedInv'
  BY <1>1 DEF Start
<1>2. ASSUME NEW t \in Caller, NEW s \in Server, Stop(t, s) \/ Restart(t, s)
      PROVE  WatchedInv'
  BY <1>2 DEF Stop, Restart, BeforeStop, Kill, OwnPort, TypeOK, MemoryType
<1>3. ASSUME NEW t \in Thread, ReadPid(t)
      PROVE  WatchedInv'
  <2>1. target[t] \in Server
    BY <1>3 DEF ReadPid, LockInv, InStart, Thread
  <2> QED
    BY <1>3, <2>1 DEF ReadPid, AfterStart, OwnPort, TypeOK, MemoryType, Thread
<1>4. ASSUME NEW t \in Thread, Write(t) \/ ExecOK(t) \/ ExecFail(t) \/ NoPid(t)
      PROVE  WatchedInv'
  BY <1>4 DEF Write, ExecOK, ExecFail, NoPid, Fail, memory
<1>5. ASSUME NEW d \in Daemon, Revive(d)
      PROVE  WatchedInv'
  BY <1>5 DEF Revive, LockInv, TypeOK, MemoryType
<1>6. ASSUME \/ \E d \in Daemon : Tick(d) \/ Exit(d) \/ Check(d) \/ NotNeeded(d)
             \/ \E q \in Pid : Die(q)
             \/ \E p \in Port : RmDir(p) \/ MkDir(p)
             \/ UNCHANGED <<vars, events>>
      PROVE  WatchedInv'
  BY <1>6 DEF Tick, Exit, Check, NotNeeded, Die, RmDir, MkDir, memory, vars
<1> QED
  BY <1>1, <1>2, <1>3, <1>4, <1>5, <1>6 DEF Next, Starting, Calling, Watching

\* Outside a critical section a Server with a handle has a daemon, and its
\* port a rule exactly as long as it has a daemon (afterStart, beforeStop).
THEOREM AlwaysWatched == ASSUME OwnPort PROVE Spec => []Watched
<1>1. Init => WatchedInv
  BY DEF Init, InitMemory, InitWorld, WatchedInv
<1>2. Inv /\ WatchedInv /\ [Next]_<<vars, events>> => WatchedInv'
  BY WatchedStep
<1>3. WatchedInv => Watched
  BY DEF WatchedInv, Watched
<1> QED
  BY <1>1, <1>2, <1>3, InvAlways, PTL DEF Spec

-----------------------------------------------------------------------------
(* No ss-server is lost, if besides nobody removes run directories while   *)
(* the Server is in use.                                                   *)

\* While the lock is free the handle names the only process of the port.
\* Inside start() the port is free until exec(), and then the pid file, which
\* exists, names the only process.
TrackInv ==
    /\ Tracked
    /\ "rmdir" \notin events => \A s \in Server : rtMu[s] # None =>
          IF pc[rtMu[s]] = "pid"
          THEN /\ pidFile[PortOf[s]] # None
               /\ \A q \in Pid : Serves(q, PortOf[s]) => pidFile[PortOf[s]] = q
          ELSE ~Bound(PortOf[s])

LEMMA TrackStep ==
    ASSUME OwnPort, Inv, TrackInv, [Next]_<<vars, events>>
    PROVE  TrackInv'
<1>a. events' = events
  BY DEF Next
<1>b. SUFFICES ASSUME "rmdir" \notin events PROVE TrackInv'
  BY <1>a DEF TrackInv, Tracked
<1> USE <1>a, <1>b DEF Inv, BaseInv, TrackInv, Tracked, Serves, Bound, Free
<1>0. None \notin Process
  BY DEF Process
<1>1. ASSUME NEW t \in Caller, NEW s \in Server, Start(t, s)
      PROVE  TrackInv'
  BY <1>1 DEF Start, Begin, LockInv, TypeOK, MemoryType, ThreadType, InStart, Thread, Idle
<1>2. ASSUME NEW t \in Caller, NEW s \in Server, Stop(t, s)
      PROVE  TrackInv'
  BY <1>0, <1>2 DEF Stop, Kill, OwnPort, LockInv, TypeOK, MemoryType, disk
<1>3. ASSUME NEW t \in Caller, NEW s \in Server, Restart(t, s)
      PROVE  TrackInv'
  BY <1>0, <1>3 DEF Restart, Begin, Kill, OwnPort, LockInv, TypeOK, MemoryType, ThreadType, InStart, Thread, Idle
<1>4. ASSUME NEW d \in Daemon, Revive(d)
      PROVE  TrackInv'
  BY <1>0, <1>4 DEF Revive, Begin, Alive, Live, LockInv, TypeOK, MemoryType, ThreadType, InStart, Thread
<1>5. ASSUME NEW t \in Thread, Write(t)
      PROVE  TrackInv'
  BY <1>5 DEF Write, memory, LockInv, TypeOK, MemoryType, ThreadType, InStart
<1>6. ASSUME NEW t \in Thread, ExecOK(t)
      PROVE  TrackInv'
  BY <1>6 DEF ExecOK, memory, LockInv, OwnPort, TypeOK, MemoryType, ThreadType, WorldType, InStart, Fresh, Process
<1>7. ASSUME NEW t \in Thread, ReadPid(t)
      PROVE  TrackInv'
  BY <1>7 DEF ReadPid, AfterStart, LockInv, TypeOK, MemoryType, ThreadType, InStart, disk
<1>8. ASSUME NEW t \in Thread, ExecFail(t)
      PROVE  TrackInv'
  BY <1>8 DEF ExecFail, Fail, LockInv, TypeOK, MemoryType, ThreadType, InStart, disk
<1>9. ASSUME NEW t \in Thread
      PROVE  ~NoPid(t)
  BY DEF NoPid, LockInv, InStart
<1>10. ASSUME NEW d \in Daemon, Tick(d) \/ Exit(d) \/ Check(d) \/ NotNeeded(d)
       PROVE  TrackInv'
  BY <1>10 DEF Tick, Exit, Check, NotNeeded, memory, disk, LockInv, TypeOK, MemoryType, ThreadType, InStart
<1>11. ASSUME \/ \E q \in Pid : Die(q)
              \/ UNCHANGED <<vars, events>>
       PROVE  TrackInv'
  BY <1>0, <1>11 DEF Die, memory, threads, disk, vars, TypeOK, WorldType
<1>12. ASSUME NEW p \in Port
       PROVE  ~RmDir(p) /\ ~MkDir(p)
  BY DEF RmDir, MkDir
<1> QED
  BY <1>1, <1>2, <1>3, <1>4, <1>5, <1>6, <1>7, <1>8, <1>9, <1>10, <1>11, <1>12
  DEF Next, Starting, Calling, Watching

\* Outside a critical section the only ss-server on a Server's port is the
\* one its handle names, whatever dies, fails or is restarted.
THEOREM NoneUntracked ==
    ASSUME OwnPort
    PROVE  Spec => []Tracked
<1>1. Init => TrackInv
  BY DEF Init, InitMemory, InitWorld, TrackInv, Tracked, Serves, Process
<1>2. Inv /\ TrackInv /\ [Next]_<<vars, events>> => TrackInv'
  BY TrackStep
<1>3. TrackInv => Tracked
  BY DEF TrackInv
<1> QED
  BY <1>1, <1>2, <1>3, InvAlways, PTL DEF Spec
=============================================================================
