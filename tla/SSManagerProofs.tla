-------------------------- MODULE SSManagerProofs --------------------------
(***************************************************************************)
(* Proofs about SSManager for any number of ports, Server objects,         *)
(* requests, daemons and processes.  MInv says what serverMu protects; it  *)
(* holds whatever happens.  SavedInv says what is on disk while the timers *)
(* of the watch daemons do not fire and nobody interrupts the slave, and   *)
(* gives the refinement of PortTable.                                      *)
(***************************************************************************)
EXTENDS SSManager, SSServerProofs

Holding == {"adding", "removing", "deleting"}
Restoring == {"idle", "add", "adding", "loaded", "checked", "discard"}

\* Whoever is inside Add or Remove holds serverMu; a caller is in start() only
\* inside Add, and then on its own Server.
CallerInv ==
    \A t \in Caller :
        /\ ~AtRest(t) => obj[t] \in Server
        /\ serverMu = t <=> mpc[t] \in Holding
        /\ mpc[t] = "adding" <=> pc[t] # "idle"
        /\ pc[t] \in InStart => target[t] = obj[t]

\* Where the callers may be: handlers work only while the slave serves, main
\* only while it restores or cleans up, and nothing is managed before that.
PhaseInv ==
    /\ phase \in {"down", "off"} => \A p \in Port : ~Managed(p)
    /\ phase # "serve" => \A t \in Handler : AtRest(t)
    /\ phase = "serve" =>
          \A t \in Handler : mpc[t] \in {"idle", "add"} \cup Holding
    /\ phase = "restore" => mpc[Main] \in Restoring
    /\ phase = "clean" => mpc[Main] \in {"idle", "removing", "deleting"}
    /\ phase \notin {"restore", "clean"} => AtRest(Main)

\* The map sends a port to a Server of that port; a port that is being added,
\* removed or restored, or has yet to be restored, is not in it.
TableInv ==
    /\ \A p \in Port : Managed(p) => PortOf[servers[p]] = p
    /\ \A t \in Caller : mpc[t] \in Holding => ~Managed(PortOf[obj[t]])
    /\ phase = "restore" =>
          /\ \A p \in todo : ~Managed(p)
          /\ ~AtRest(Main) =>
                ~Managed(PortOf[obj[Main]]) /\ PortOf[obj[Main]] \notin todo

\* Extra is set in every Server that is managed or on its way into the map.
StatsInv ==
    /\ \A p \in Port : Managed(p) => extra[servers[p]]
    /\ \A t \in Caller : mpc[t] = "adding" /\ pc[t] # "fail" => extra[obj[t]]
    /\ mpc[Main] \in {"loaded", "checked"} => extra[obj[Main]]

MInv == MgrTypeOK /\ LockInv /\ CallerInv /\ PhaseInv /\ TableInv /\ StatsInv

USE PortOfType, ThreadsDisjoint, NoneIsNil, TornIsNoPassword, MainIsCaller

\* An object nobody refers to is not locked, so it may be overwritten.
LEMMA GarbageIsFree ==
    ASSUME MInv, NEW s \in Server, Garbage(s)
    PROVE  Free(s)
<1> SUFFICES ASSUME rtMu[s] # None PROVE FALSE
  BY DEF Free
<1> DEFINE t == rtMu[s]
<1>1. t \in Thread /\ pc[t] \in InStart /\ target[t] = s
  BY DEF MInv, MgrTypeOK, TypeOK, MemoryType, LockInv
<1>2. CASE t \in Caller
  BY <1>1, <1>2 DEF MInv, CallerInv, Garbage
<1>3. CASE t \in Daemon
  BY <1>1, <1>3 DEF Garbage
<1> QED
  BY <1>1, <1>2, <1>3 DEF Thread

LEMMA NewServerIsGarbage ==
    ASSUME NEW p \in Port, CanAllocate(p)
    PROVE  /\ NewServer(p) \in Server
           /\ PortOf[NewServer(p)] = p
           /\ Garbage(NewServer(p))
BY DEF CanAllocate, NewServer

-----------------------------------------------------------------------------
LEMMA MgrInitInv == MgrInit => MInv
<1> SUFFICES ASSUME MgrInit PROVE MInv
  OBVIOUS
<1> USE DEF MgrInit, EmptyMemory, InitWorld
<1>1. MgrTypeOK
  <2>1. AnyPassword \in Password
    BY PasswordsExist DEF AnyPassword
  <2> QED
    BY <2>1 DEF MgrTypeOK, TypeOK, MemoryType, ThreadType, WorldType,
       CallerPC, DaemonPC, Thread, Phase, MgrPC
<1>2. LockInv
  BY DEF LockInv, InStart, Thread
<1>3. CallerInv /\ PhaseInv /\ TableInv /\ StatsInv
  BY DEF CallerInv, PhaseInv, TableInv, StatsInv, AtRest, Managed, Handler,
     Holding, Thread
<1> QED
  BY <1>1, <1>2, <1>3 DEF MInv

\* What a step of a Server does to what the manager sees of it.
LEMMA ServerStepEffect ==
    ASSUME BaseInv, ServerStep
    PROVE  /\ BaseInv' /\ UNCHANGED password
           /\ \A s \in Server : extra[s] => extra'[s]
           /\ \A t \in Caller :
                 /\ pc'[t] = "idle" <=> pc[t] = "idle"
                 /\ pc[t] = "fail" => pc'[t] = "fail"
                 /\ pc'[t] \in InStart => pc[t] \in InStart /\ target'[t] = target[t]
<1> DEFINE Effect ==
       /\ UNCHANGED password
       /\ \A s \in Server : extra[s] => extra'[s]
       /\ \A t \in Caller :
             /\ pc'[t] = "idle" <=> pc[t] = "idle"
             /\ pc[t] = "fail" => pc'[t] = "fail"
             /\ pc'[t] \in InStart => pc[t] \in InStart /\ target'[t] = target[t]
<1> USE DEF BaseInv, TypeOK, MemoryType, ThreadType
<1>1. ASSUME NEW t \in Thread, Write(t) \/ ExecOK(t)
      PROVE  BaseInv' /\ Effect
  <2>1. BaseInv'
    BY <1>1, WriteInv, ExecOKInv
  <2>2. Effect
    BY <1>1 DEF Write, ExecOK, memory, InStart, Thread
  <2> QED
    BY <2>1, <2>2
<1>2. ASSUME NEW t \in Thread, ExecFail(t) \/ NoPid(t)
      PROVE  BaseInv' /\ Effect
  <2>1. BaseInv'
    BY <1>2, FailInv DEF ExecFail, NoPid
  <2>2. Effect
    BY <1>2 DEF ExecFail, NoPid, Fail, InStart, Thread, Ended
  <2> QED
    BY <2>1, <2>2
<1>3. ASSUME NEW t \in Thread, ReadPid(t)
      PROVE  BaseInv' /\ Effect
  <2>1. BaseInv'
    BY <1>3, ReadPidInv
  <2>2. Effect
    BY <1>3 DEF ReadPid, AfterStart, InStart, Thread, Ended
  <2> QED
    BY <2>1, <2>2
<1>4. ASSUME NEW d \in Daemon, Watching(d)
      PROVE  BaseInv' /\ Effect
  <2>1. BaseInv'
    BY <1>4, WatchInv, ReviveInv DEF Watching
  <2>2. Effect
    BY <1>4 DEF Watching, Tick, Exit, Check, NotNeeded, Revive, Begin, memory,
       Thread
  <2> QED
    BY <2>1, <2>2
<1>5. CASE \E q \in Pid : Die(q)
  <2>1. BaseInv'
    BY <1>5, EnvironmentInv
  <2>2. Effect
    BY <1>5 DEF Die, memory, threads
  <2> QED
    BY <2>1, <2>2
<1> QED
  BY <1>1, <1>2, <1>3, <1>4, <1>5 DEF ServerStep, Starting

-----------------------------------------------------------------------------
(* Each action of the manager preserves MInv. *)

LEMMA ServerStepInv ==
    ASSUME MInv, ServerStep
    PROVE  MInv'
<1> USE DEF MInv, mgrVars
<1>0. /\ BaseInv' /\ UNCHANGED <<password, mgrVars>>
      /\ \A s \in Server : extra[s] => extra'[s]
      /\ \A t \in Caller :
            /\ pc'[t] = "idle" <=> pc[t] = "idle"
            /\ pc[t] = "fail" => pc'[t] = "fail"
            /\ pc'[t] \in InStart => pc[t] \in InStart /\ target'[t] = target[t]
  BY ServerStepEffect DEF BaseInv, MgrTypeOK, ServerStep
<1>1. MgrTypeOK'
  BY <1>0 DEF MgrTypeOK, BaseInv
<1>2. LockInv'
  BY <1>0 DEF BaseInv
<1>3. CallerInv'
  BY <1>0 DEF CallerInv, AtRest
<1>4. PhaseInv'
  BY <1>0 DEF PhaseInv, Managed, AtRest
<1>5. TableInv'
  BY <1>0 DEF TableInv, Managed, AtRest
<1>6. StatsInv'
  BY <1>0 DEF StatsInv, CallerInv, MgrTypeOK, Managed, AtRest
<1> QED
  BY <1>1, <1>2, <1>3, <1>4, <1>5, <1>6

LEMMA AllocateInv ==
    ASSUME MInv, NEW t \in Handler, NEW p \in Port, NEW w \in Password,
           Allocate(t, p, w)
    PROVE  MInv'
<1> USE DEF MInv, Allocate, Go, MkdirAll, threads, Garbage
<1>0. /\ t \in Caller /\ NewServer(p) \in Server /\ PortOf[NewServer(p)] = p
      /\ Garbage(NewServer(p)) /\ Free(NewServer(p))
  BY NewServerIsGarbage, GarbageIsFree DEF Handler
<1>1. MgrTypeOK'
  BY <1>0 DEF MgrTypeOK, TypeOK, MemoryType, ThreadType, WorldType, MgrPC
<1>2. LockInv'
  BY <1>0 DEF LockInv
<1>3. CallerInv'
  BY <1>0 DEF MgrTypeOK, CallerInv, AtRest, Holding, InStart
<1>4. PhaseInv'
  BY <1>0 DEF PhaseInv, AtRest, Handler
<1>5. TableInv'
  BY <1>0 DEF MgrTypeOK, TableInv, Holding, Managed
<1>6. StatsInv'
  BY <1>0 DEF MgrTypeOK, StatsInv, Managed
<1> QED
  BY <1>1, <1>2, <1>3, <1>4, <1>5, <1>6

LEMMA AddLockInv ==
    ASSUME MInv, NEW t \in Caller, AddLock(t)
    PROVE  MInv'
<1> USE DEF MInv, AddLock, Go
<1>0. BaseInv' /\ obj[t] \in Server
  BY StartInv DEF BaseInv, MgrTypeOK, CallerInv, AtRest
<1>1. MgrTypeOK'
  BY <1>0 DEF BaseInv, MgrTypeOK, MgrPC
<1>2. LockInv'
  BY <1>0 DEF BaseInv
<1>3. CallerInv'
  BY <1>0 DEF Start, Begin, Ended, MgrFree, MgrTypeOK, TypeOK, ThreadType,
     CallerInv, AtRest, Holding, InStart, Thread
<1>4. PhaseInv'
  BY <1>0 DEF PhaseInv, AtRest, Handler, Holding, Restoring
<1>5. TableInv'
  BY <1>0 DEF TableInv, AtRest, Managed
<1>6. StatsInv'
  BY <1>0 DEF Start, Begin, MgrTypeOK, TypeOK, MemoryType, ThreadType,
     CallerInv, StatsInv, AtRest, Managed, Thread
<1> QED
  BY <1>1, <1>2, <1>3, <1>4, <1>5, <1>6

LEMMA AddExistsInv ==
    ASSUME MInv, NEW t \in Caller, AddExists(t)
    PROVE  MInv'
<1> USE DEF MInv, AddExists, AddFailed, Go, MgrFree
<1>1. MgrTypeOK'
  BY DEF MgrTypeOK, TypeOK, MemoryType, ThreadType, WorldType, MgrPC, vars,
     memory, threads, disk
<1>2. LockInv'
  BY DEF LockInv, vars, memory, threads
<1>3. CallerInv'
  BY DEF MgrTypeOK, CallerInv, AtRest, Holding, InStart, vars, threads
<1>4. PhaseInv'
  BY DEF CallerInv, PhaseInv, AtRest, Restoring
<1>5. TableInv'
  BY DEF TableInv, AtRest, Holding, Managed
<1>6. StatsInv'
  BY DEF StatsInv, Managed, vars, memory, threads
<1> QED
  BY <1>1, <1>2, <1>3, <1>4, <1>5, <1>6

LEMMA AddDoneInv ==
    ASSUME MInv, NEW t \in Caller, AddDone(t)
    PROVE  MInv'
<1> USE DEF MInv, AddDone, AddFailed, Go, memory, disk
<1>0. obj[t] \in Server
  BY DEF CallerInv, AtRest
<1>1. MgrTypeOK'
  <2>1. MemoryType' /\ WorldType'
    BY DEF MgrTypeOK, TypeOK, MemoryType, WorldType
  <2>2. ThreadType'
    BY DEF MgrTypeOK, TypeOK, ThreadType, CallerPC, Thread
  <2>3. CASE pc[t] = "ok"
    BY <1>0, <2>1, <2>2, <2>3 DEF MgrTypeOK, TypeOK, MgrPC
  <2>4. CASE pc[t] = "fail"
    BY <1>0, <2>1, <2>2, <2>4 DEF MgrTypeOK, TypeOK, MgrPC
  <2> QED
    BY <2>3, <2>4
<1>2. LockInv'
  BY <1>0 DEF LockInv, InStart
<1>3. CallerInv'
  BY <1>0 DEF MgrTypeOK, TypeOK, ThreadType, CallerInv, AtRest, Holding,
     InStart, Thread
<1>4. PhaseInv'
  BY <1>0 DEF MgrTypeOK, PhaseInv, AtRest, Handler, Restoring
<1>5. TableInv'
  BY <1>0 DEF MgrTypeOK, CallerInv, PhaseInv, TableInv, AtRest, Handler,
     Holding, Managed
<1>6. StatsInv'
  BY <1>0 DEF MgrTypeOK, StatsInv, Managed
<1> QED
  BY <1>1, <1>2, <1>3, <1>4, <1>5, <1>6

LEMMA RemoveLockInv ==
    ASSUME MInv, NEW t \in Caller, NEW p \in Port, RemoveLock(t, p),
           t = Main => phase = "clean", t # Main => phase = "serve"
    PROVE  MInv'
<1> USE DEF MInv, RemoveLock, Go, MgrFree
<1>1. MgrTypeOK'
  BY DEF MgrTypeOK, TypeOK, MemoryType, ThreadType, WorldType, MgrPC, vars,
     memory, threads, disk
<1>2. LockInv'
  BY DEF LockInv, vars, memory, threads
<1>3. CallerInv'
  BY DEF MgrTypeOK, CallerInv, AtRest, Managed, Holding, InStart, Thread,
     vars, threads
<1>4. PhaseInv'
  BY DEF PhaseInv, AtRest, Handler, Holding
<1>5. TableInv'
  BY DEF MgrTypeOK, TableInv, Managed
<1>6. StatsInv'
  BY DEF StatsInv, Managed, vars, memory, threads
<1> QED
  BY <1>1, <1>2, <1>3, <1>4, <1>5, <1>6

LEMMA RemoveStopInv ==
    ASSUME MInv, NEW t \in Caller, RemoveStop(t)
    PROVE  MInv'
<1> USE DEF MInv, RemoveStop, Go
<1>0. BaseInv' /\ obj[t] \in Server
  BY StopInv DEF BaseInv, MgrTypeOK, CallerInv, AtRest
<1>1. MgrTypeOK'
  BY <1>0 DEF BaseInv, MgrTypeOK, MgrPC
<1>2. LockInv'
  BY <1>0 DEF BaseInv
<1>3. CallerInv'
  BY <1>0 DEF Stop, CallerInv, AtRest, Holding
<1>4. PhaseInv'
  BY <1>0 DEF PhaseInv, AtRest, Handler, Holding, Restoring
<1>5. TableInv'
  BY <1>0 DEF TableInv, AtRest, Holding, Managed
<1>6. StatsInv'
  BY <1>0 DEF Stop, CallerInv, PhaseInv, TableInv, StatsInv, AtRest, Handler,
     Holding, Managed
<1> QED
  BY <1>1, <1>2, <1>3, <1>4, <1>5, <1>6

LEMMA RemoveFilesInv ==
    ASSUME MInv, NEW t \in Caller, RemoveFiles(t)
    PROVE  MInv'
<1> USE DEF MInv, RemoveFiles, RemoveAll, Go, memory, threads
<1>1. MgrTypeOK'
  BY DEF MgrTypeOK, TypeOK, MemoryType, ThreadType, WorldType, MgrPC
<1>2. LockInv'
  BY DEF LockInv
<1>3. CallerInv'
  BY DEF MgrTypeOK, CallerInv, AtRest, Holding, InStart, Thread
<1>4. PhaseInv'
  BY DEF PhaseInv, AtRest, Handler, Restoring
<1>5. TableInv'
  BY DEF MgrTypeOK, TableInv, AtRest, Holding, Managed
<1>6. StatsInv'
  BY DEF StatsInv, Managed
<1> QED
  BY <1>1, <1>2, <1>3, <1>4, <1>5, <1>6

LEMMA BootInv ==
    ASSUME MInv, Boot
    PROVE  MInv'
<1> USE DEF MInv, Boot
<1>1. MgrTypeOK'
  BY DEF MgrTypeOK, TypeOK, MemoryType, ThreadType, WorldType, Phase, vars,
     memory, threads, disk
<1>2. LockInv'
  BY DEF LockInv, vars, memory, threads
<1>3. CallerInv'
  BY DEF CallerInv, AtRest, vars, threads
<1>4. PhaseInv'
  BY DEF PhaseInv, AtRest, Restoring
<1>5. TableInv'
  BY DEF MgrTypeOK, TypeOK, WorldType, PhaseInv, TableInv, AtRest, Managed
<1>6. StatsInv'
  BY DEF PhaseInv, StatsInv, AtRest, Handler, Managed
<1> QED
  BY <1>1, <1>2, <1>3, <1>4, <1>5, <1>6

LEMMA RestoreLoadInv ==
    ASSUME MInv, NEW p \in Port, RestoreLoad(p)
    PROVE  MInv'
<1> USE DEF MInv, RestoreLoad, Go, threads, disk, Garbage
<1>0. /\ NewServer(p) \in Server /\ PortOf[NewServer(p)] = p
      /\ Garbage(NewServer(p)) /\ Free(NewServer(p))
  BY NewServerIsGarbage, GarbageIsFree
<1>t. RestoredRuntime(p) \in Pid \cup {None} /\ (Readable(p) => conf[p] \in Password)
  BY DEF RestoredRuntime, Readable, MgrTypeOK, TypeOK, WorldType
<1>e. \/ extra' = extra /\ mpc'[Main] = "discard"
      \/ extra' = [extra EXCEPT ![NewServer(p)] = TRUE] /\ mpc'[Main] = "loaded"
  <2>1. Readable(p) => HasExtra(p) = TRUE
    BY DEF Readable, HasExtra
  <2> QED
    BY <2>1 DEF MgrTypeOK
<1>1. MgrTypeOK'
  <2>1. MemoryType'
    <3>1. extra' \in [Server -> BOOLEAN]
      BY <1>0, <1>e DEF MgrTypeOK, TypeOK, MemoryType
    <3> QED
      BY <1>0, <1>t, <3>1 DEF MgrTypeOK, TypeOK, MemoryType
  <2>2. ThreadType' /\ WorldType'
    BY DEF MgrTypeOK, TypeOK, ThreadType, WorldType
  <2> QED
    BY <1>0, <2>1, <2>2 DEF MgrTypeOK, TypeOK, MgrPC
<1>2. LockInv'
  BY <1>0, <1>t, <1>e DEF MgrTypeOK, TypeOK, MemoryType, LockInv, CallerInv,
     Thread
<1>3. CallerInv'
  BY <1>0, <1>t, <1>e DEF MgrTypeOK, CallerInv, AtRest, Holding, InStart
<1>4. PhaseInv'
  BY <1>0, <1>t, <1>e DEF MgrTypeOK, PhaseInv, AtRest, Handler, Restoring
<1>5. TableInv'
  BY <1>0, <1>t, <1>e DEF MgrTypeOK, TableInv, Managed
<1>6. StatsInv'
  BY <1>0, <1>t, <1>e DEF MgrTypeOK, TypeOK, MemoryType, CallerInv, StatsInv,
     AtRest, Managed
<1> QED
  BY <1>1, <1>2, <1>3, <1>4, <1>5, <1>6

LEMMA RestoreAfterInv ==
    ASSUME MInv, RestoreAfter
    PROVE  MInv'
<1> USE DEF MInv, RestoreAfter, AfterStart, Leave, Go, threads, disk
<1>0. obj[Main] \in Server /\ Main \notin Daemon /\ Main \in Thread
  BY DEF CallerInv, AtRest, Thread
<1>1. MgrTypeOK'
  <2>1. MemoryType'
    BY <1>0 DEF MgrTypeOK, TypeOK, MemoryType
  <2>2. ThreadType'
    BY <1>0 DEF MgrTypeOK, TypeOK, ThreadType, CallerPC, DaemonPC, Thread
  <2>3. WorldType'
    BY <1>0 DEF MgrTypeOK, TypeOK, WorldType
  <2> QED
    BY <1>0, <2>1, <2>2, <2>3 DEF MgrTypeOK, TypeOK, MgrPC
<1>2. LockInv'
  BY <1>0 DEF MgrTypeOK, TypeOK, MemoryType, ThreadType, LockInv, CallerInv,
     InStart, Thread
<1>3. CallerInv'
  BY <1>0 DEF MgrTypeOK, TypeOK, ThreadType, CallerInv, AtRest, Holding,
     InStart, Thread
<1>4. PhaseInv'
  BY <1>0 DEF PhaseInv, AtRest, Restoring
<1>5. TableInv'
  BY <1>0 DEF PhaseInv, TableInv, AtRest, Managed
<1>6. StatsInv'
  BY <1>0 DEF PhaseInv, StatsInv, AtRest, Handler, Managed
<1> QED
  BY <1>1, <1>2, <1>3, <1>4, <1>5, <1>6

LEMMA RestoreAliveInv ==
    ASSUME MInv, RestoreAlive
    PROVE  MInv'
<1> USE DEF MInv, RestoreAlive, Go
<1>1. MgrTypeOK'
  BY DEF MgrTypeOK, TypeOK, MemoryType, ThreadType, WorldType, MgrPC, vars,
     memory, threads, disk
<1>2. LockInv'
  BY DEF LockInv, vars, memory, threads
<1>3. CallerInv'
  <2>1. UNCHANGED <<pc, target, serverMu>>
    BY DEF vars, threads
  <2>2. \A t \in Caller \ {Main} : mpc'[t] = mpc[t] /\ obj'[t] = obj[t]
    OBVIOUS
  <2>3. mpc[Main] = "checked" /\ mpc'[Main] = "idle"
    BY DEF MgrTypeOK
  <2> QED
    BY <2>1, <2>2, <2>3 DEF CallerInv, AtRest, Holding, InStart
<1>4. PhaseInv'
  BY DEF PhaseInv, AtRest, Restoring
<1>5. TableInv'
  BY DEF MgrTypeOK, PhaseInv, TableInv, AtRest, Handler, Holding, Managed
<1>6. StatsInv'
  BY DEF MgrTypeOK, PhaseInv, StatsInv, AtRest, Handler, Managed, vars, memory
<1> QED
  BY <1>1, <1>2, <1>3, <1>4, <1>5, <1>6

LEMMA RestoreDeadInv ==
    ASSUME MInv, RestoreDead
    PROVE  MInv'
<1> USE DEF MInv, RestoreDead, MkdirAll, Go, threads, Garbage
<1> DEFINE p == PortOf[obj[Main]]
<1>p. obj[Main] \in Server /\ p \in Port
  BY DEF CallerInv, AtRest
<1>0. /\ NewServer(p) \in Server /\ PortOf[NewServer(p)] = p
      /\ Garbage(NewServer(p)) /\ Free(NewServer(p))
  BY <1>p, NewServerIsGarbage, GarbageIsFree
<1>1. MgrTypeOK'
  BY <1>p, <1>0 DEF MgrTypeOK, TypeOK, MemoryType, ThreadType, WorldType,
     MgrPC
<1>2. LockInv'
  BY <1>p, <1>0 DEF MgrTypeOK, TypeOK, MemoryType, LockInv, CallerInv, Thread
<1>3. CallerInv'
  BY <1>p, <1>0 DEF CallerInv, AtRest, Holding, InStart
<1>4. PhaseInv'
  BY <1>p, <1>0 DEF PhaseInv, AtRest, Restoring
<1>5. TableInv'
  BY <1>p, <1>0 DEF PhaseInv, TableInv, AtRest, Managed
<1>6. StatsInv'
  BY <1>p, <1>0 DEF MgrTypeOK, StatsInv, Managed
<1> QED
  BY <1>1, <1>2, <1>3, <1>4, <1>5, <1>6

LEMMA DiscardInv ==
    ASSUME MInv, Discard
    PROVE  MInv'
<1> USE DEF MInv, Discard, RemoveAll, Go, memory, threads
<1>1. MgrTypeOK'
  BY DEF MgrTypeOK, TypeOK, MemoryType, ThreadType, WorldType, MgrPC
<1>2. LockInv'
  BY DEF LockInv
<1>3. CallerInv'
  BY DEF MgrTypeOK, CallerInv, AtRest, Holding, InStart
<1>4. PhaseInv'
  BY DEF PhaseInv, AtRest, Restoring
<1>5. TableInv'
  BY DEF MgrTypeOK, TableInv, AtRest, Holding, Managed
<1>6. StatsInv'
  BY DEF StatsInv, Managed
<1> QED
  BY <1>1, <1>2, <1>3, <1>4, <1>5, <1>6

LEMMA ServeInv ==
    ASSUME MInv, Serve
    PROVE  MInv'
<1> USE DEF MInv, Serve
<1>1. MgrTypeOK'
  BY DEF MgrTypeOK, TypeOK, MemoryType, ThreadType, WorldType, Phase, vars,
     memory, threads, disk
<1>2. LockInv'
  BY DEF LockInv, vars, memory, threads
<1>3. CallerInv'
  BY DEF CallerInv, AtRest, vars, threads
<1>4. PhaseInv'
  BY DEF PhaseInv, AtRest
<1>5. TableInv'
  BY DEF TableInv, Managed
<1>6. StatsInv'
  BY DEF PhaseInv, StatsInv, AtRest, Handler, Managed, vars, memory
<1> QED
  BY <1>1, <1>2, <1>3, <1>4, <1>5, <1>6

LEMMA ShutdownInv ==
    ASSUME MInv, Shutdown
    PROVE  MInv'
<1> USE DEF MInv, Shutdown
<1>1. MgrTypeOK'
  BY DEF MgrTypeOK, TypeOK, MemoryType, ThreadType, WorldType, Phase, vars,
     memory, threads, disk
<1>2. LockInv'
  BY DEF LockInv, vars, memory, threads
<1>3. CallerInv'
  BY DEF CallerInv, AtRest, vars, threads
<1>4. PhaseInv'
  BY DEF PhaseInv, AtRest
<1>5. TableInv'
  BY DEF TableInv, Managed
<1>6. StatsInv'
  BY DEF PhaseInv, StatsInv, AtRest, Handler, Managed, vars, memory
<1> QED
  BY <1>1, <1>2, <1>3, <1>4, <1>5, <1>6

LEMMA CleanDirInv ==
    ASSUME MInv, NEW p \in Port, CleanDir(p)
    PROVE  MInv'
<1> USE DEF MInv, CleanDir, RemoveAll, memory, threads
<1>1. MgrTypeOK'
  BY DEF MgrTypeOK, TypeOK, MemoryType, ThreadType, WorldType
<1>2. LockInv'
  BY DEF LockInv
<1>3. CallerInv'
  BY DEF CallerInv, AtRest
<1>4. PhaseInv'
  BY DEF PhaseInv, AtRest
<1>5. TableInv'
  BY DEF TableInv, Managed
<1>6. StatsInv'
  BY DEF StatsInv, Managed
<1> QED
  BY <1>1, <1>2, <1>3, <1>4, <1>5, <1>6

\* The memory is gone: ExitClean, Crash and Reboot.
LEMMA GoneInv ==
    ASSUME MInv, Gone, phase' \in {"down", "off"}, rule' \subseteq Port,
           proc' \in [Pid -> Process \cup {None, Other}]
    PROVE  MInv'
<1> USE DEF MInv, Gone, disk
<1>0. AnyPassword \in Password
  BY PasswordsExist DEF AnyPassword
<1>1. MgrTypeOK'
  BY <1>0 DEF MgrTypeOK, TypeOK, MemoryType, ThreadType, WorldType, CallerPC,
     DaemonPC, Thread, MgrPC, Phase
<1>2. LockInv'
  BY <1>0 DEF LockInv, InStart, Thread
<1>3. CallerInv'
  BY <1>0 DEF CallerInv, AtRest, Holding, Thread
<1>4. PhaseInv'
  BY <1>0 DEF PhaseInv, AtRest, Handler, Managed
<1>5. TableInv'
  BY <1>0 DEF TableInv, Holding, Managed
<1>6. StatsInv'
  BY <1>0 DEF StatsInv, Managed
<1> QED
  BY <1>1, <1>2, <1>3, <1>4, <1>5, <1>6

LEMMA MgrNextInv == MInv /\ [MgrNext]_<<allVars, events>> => MInv'
<1> SUFFICES ASSUME MInv, [MgrNext]_<<allVars, events>> PROVE MInv'
  OBVIOUS
<1>1. CASE ServerStep
  BY <1>1, ServerStepInv
<1>2. ASSUME NEW t \in Handler, Request(t)
      PROVE  MInv'
  <2>1. t \in Caller /\ t # Main
    BY DEF Handler
  <2>2. ASSUME NEW p \in Port, FreePort(t, p)
        PROVE  MInv'
    BY <2>1, <2>2, RemoveLockInv DEF FreePort
  <2> QED
    BY <1>2, <2>2, AllocateInv DEF Request
<1>3. ASSUME NEW t \in Caller, Handle(t)
      PROVE  MInv'
  BY <1>3, AddLockInv, AddExistsInv, AddDoneInv, RemoveStopInv, RemoveFilesInv
     DEF Handle
<1>4. CASE Boot \/ RestoreStep
  BY <1>4, BootInv, RestoreLoadInv, RestoreAfterInv, RestoreAliveInv,
     RestoreDeadInv, DiscardInv, ServeInv DEF RestoreStep
<1>5. CASE Shutdown \/ \E p \in Port : CleanDir(p)
  BY <1>5, ShutdownInv, CleanDirInv
<1>6. ASSUME NEW p \in Port, CleanServer(p)
      PROVE  MInv'
  BY <1>6, RemoveLockInv DEF CleanServer
<1>7. CASE ExitClean \/ Crash \/ Reboot
  <2>1. Gone /\ phase' \in {"down", "off"}
    BY <1>7 DEF ExitClean, Crash, Reboot
  <2>2. rule' \subseteq Port /\ proc' \in [Pid -> Process \cup {None, Other}]
    BY <1>7 DEF ExitClean, Crash, Reboot, MInv, MgrTypeOK, TypeOK, WorldType
  <2> QED
    BY <2>1, <2>2, GoneInv
<1>8. CASE UNCHANGED <<allVars, events>>
  <2>1. /\ UNCHANGED <<rtMu, runtime, extra, cancel, password, pc, target, done>>
        /\ UNCHANGED <<dir, conf, pidFile, rule, proc>>
        /\ UNCHANGED mgrVars
    BY <1>8 DEF allVars, vars, memory, threads, disk
  <2> USE <2>1 DEF mgrVars
  <2>2. MgrTypeOK' /\ LockInv'
    BY DEF MInv, MgrTypeOK, TypeOK, MemoryType, ThreadType, WorldType, LockInv
  <2>3. CallerInv' /\ PhaseInv' /\ TableInv' /\ StatsInv'
    BY DEF MInv, CallerInv, PhaseInv, TableInv, StatsInv, AtRest, Managed
  <2> QED
    BY <2>2, <2>3 DEF MInv
<1> QED
  BY <1>1, <1>2, <1>3, <1>4, <1>5, <1>6, <1>7, <1>8 DEF MgrNext, CleanStep

LEMMA MInvAlways == MgrSpec => []MInv
BY MgrInitInv, MgrNextInv, PTL DEF MgrSpec

\* Every variable of the manager has its type, and the Server objects under
\* it, which it makes, clones and throws away, keep theirs.
THEOREM ManagerTypeCorrect == MgrSpec => []MgrTypeOK
<1>1. MInv => MgrTypeOK
  BY DEF MInv
<1> QED
  BY <1>1, MInvAlways, PTL

\* No order of requests, failed starts, crashes and restorations leaves a
\* managed Server without Extra, which GetStats dereferences.
THEOREM StatsAreSafe == MgrSpec => []StatsSafe
<1>1. MInv => StatsSafe
  BY DEF MInv, StatsInv, StatsSafe
<1> QED
  BY <1>1, MInvAlways, PTL

-----------------------------------------------------------------------------
(* The refinement of PortTable, while the timers of the watch daemons do   *)
(* not fire and nobody interrupts the slave.                               *)

Calm == Without({"tick", "shutdown"})

\* The configuration of the Server that is being started is on disk from
\* Write() on, and that of the Server that is being restored; no daemon
\* starts anything.
SavedInv ==
    /\ phase \notin {"clean", "off"}
    /\ \A d \in Daemon : pc[d] \in {"off", "select"}
    /\ \A t \in Caller : pc[t] = "write" => conf[PortOf[obj[t]]] = Torn
    /\ \A t \in Caller :
          pc[t] \in {"exec", "pid", "ok"} =>
              conf[PortOf[obj[t]]] = password[obj[t]]
    /\ mpc[Main] \in {"loaded", "checked"} =>
          conf[PortOf[obj[Main]]] = password[obj[Main]]

views == <<table, saved>>
Step == [PT!Next]_views

\* Neither the map nor the configurations change, nor the password of a
\* managed Server.
LEMMA SameView ==
    ASSUME UNCHANGED <<servers, conf>>,
           \A p \in Port : Managed(p) => password'[servers[p]] = password[servers[p]]
    PROVE  UNCHANGED views
BY DEF views, table, saved, Managed

\* The configuration of a port that is not served is truncated or removed.
LEMMA ConfIsForgotten ==
    ASSUME MgrTypeOK, NEW p \in Port, ~Managed(p), NEW v, v \notin Password,
           conf' = [conf EXCEPT ![p] = v],
           UNCHANGED <<servers, password>>
    PROVE  Step
<1>1. saved' = [saved EXCEPT ![p] = None] /\ UNCHANGED table
  BY DEF saved, table, Managed, MgrTypeOK, TypeOK, WorldType
<1>2. table[p] = None
  BY DEF table
<1> QED
  BY <1>1, <1>2 DEF Step, PT!Next, PT!Forget

\* A Server enters the map while its password is on disk.
LEMMA ServerIsAdmitted ==
    ASSUME MgrTypeOK, NEW s \in Server, ~Managed(PortOf[s]),
           conf[PortOf[s]] = password[s],
           servers' = [servers EXCEPT ![PortOf[s]] = s],
           UNCHANGED <<conf, password>>
    PROVE  Step
<1> DEFINE p == PortOf[s]
<1>0. p \in Port /\ password[s] \in Password
  BY DEF MgrTypeOK, TypeOK, MemoryType
<1>1. table[p] = None /\ saved[p] = password[s] /\ saved[p] # None
  BY <1>0 DEF table, saved
<1>2. table' = [table EXCEPT ![p] = saved[p]] /\ UNCHANGED saved
  BY <1>0, <1>1 DEF table, saved, Managed, MgrTypeOK
<1> QED
  BY <1>0, <1>1, <1>2 DEF Step, PT!Next, PT!Admit

\* An initial state of the manager is one of PortTable.
LEMMA MgrInitMaps == MgrInit => PT!Init
BY DEF MgrInit, EmptyMemory, InitWorld, PT!Init, table, saved, Managed

-----------------------------------------------------------------------------
\* While a process is started no other caller holds the manager's lock.
LEMMA StartingMaps ==
    ASSUME MInv, SavedInv, Calm, NEW t \in Thread, Starting(t), UNCHANGED mgrVars
    PROVE  SavedInv' /\ Step
<1> USE DEF MInv, MgrTypeOK, mgrVars
<1>0. /\ pc[t] \in InStart /\ t \in Caller /\ mpc[t] = "adding"
      /\ target[t] = obj[t] /\ obj[t] \in Server /\ ~Managed(PortOf[obj[t]])
      /\ \A u \in Caller \ {t} : pc[u] = "idle"
      /\ mpc[Main] \notin {"loaded", "checked"}
  <2>1. pc[t] \in InStart
    BY DEF Starting, Write, ExecOK, ExecFail, ReadPid, NoPid, InStart
  <2>2. t \in Caller
    BY <2>1 DEF SavedInv, InStart, Thread
  <2>3. mpc[t] = "adding"
    BY <2>1, <2>2 DEF CallerInv, InStart
  <2>4. target[t] = obj[t] /\ obj[t] \in Server /\ ~Managed(PortOf[obj[t]])
    BY <2>1, <2>2, <2>3 DEF CallerInv, TableInv, AtRest, Holding
  <2>5. \A u \in Caller \ {t} : pc[u] = "idle"
    BY <2>2, <2>3 DEF CallerInv, Holding
  <2>6. mpc[Main] \notin {"loaded", "checked"}
    BY <2>2, <2>3 DEF PhaseInv, Handler, AtRest
  <2> QED
    BY <2>1, <2>2, <2>3, <2>4, <2>5, <2>6
<1>1. CASE Write(t)
  <2>1. conf' = [conf EXCEPT ![PortOf[obj[t]]] = password[obj[t]]]
    <3>1. \A u \in Thread \ {t} : pc[u] # "write"
      BY <1>0 DEF SavedInv, Thread
    <3>2. conf[PortOf[obj[t]]] = Torn /\ target[t] = obj[t]
      BY <1>0, <1>1 DEF Write, SavedInv
    <3> QED
      BY <1>1, <3>1, <3>2, NoneIsNil DEF Write
  <2>2. PortOf[obj[t]] \in Port /\ password[obj[t]] \in Password
    BY <1>0 DEF TypeOK, MemoryType
  <2>3. SavedInv'
    BY <1>0, <1>1, <2>1, <2>2 DEF Write, memory, SavedInv, TypeOK, ThreadType,
       WorldType
  <2>4. UNCHANGED table /\ saved' = [saved EXCEPT ![PortOf[obj[t]]] = password[obj[t]]]
    <3>1. UNCHANGED table
      BY <1>1 DEF Write, memory, table, Managed
    <3>2. \A p \in Port : conf'[p] = IF p = PortOf[obj[t]]
                                     THEN password[obj[t]] ELSE conf[p]
      BY <2>1, <2>2 DEF TypeOK, WorldType
    <3> QED
      BY <2>2, <3>1, <3>2 DEF saved
  <2>5. table[PortOf[obj[t]]] = None
    BY <1>0, <2>2 DEF table
  <2> QED
    BY <2>2, <2>3, <2>4, <2>5 DEF Step, PT!Next, PT!Attempt
<1>2. CASE ~Write(t)
  <2>1. UNCHANGED <<conf, password>>
    BY <1>2 DEF Starting, ExecOK, ExecFail, ReadPid, NoPid, Fail, memory, disk
  <2>2. SavedInv'
    <3>1. CASE ExecOK(t)
      BY <1>0, <2>1, <3>1 DEF ExecOK, SavedInv
    <3>2. CASE ExecFail(t) \/ NoPid(t)
      BY <1>0, <2>1, <3>2 DEF ExecFail, NoPid, Fail, Ended, SavedInv, TypeOK,
         ThreadType, Thread
    <3>3. CASE ReadPid(t)
      BY <1>0, <2>1, <3>3 DEF ReadPid, AfterStart, Ended, SavedInv, TypeOK,
         ThreadType, Thread
    <3> QED
      BY <1>2, <3>1, <3>2, <3>3 DEF Starting
  <2>3. UNCHANGED views
    BY <2>1, SameView
  <2> QED
    BY <2>2, <2>3 DEF Step
<1> QED
  BY <1>1, <1>2

LEMMA ServerStepMaps ==
    ASSUME MInv, SavedInv, Calm, ServerStep
    PROVE  SavedInv' /\ Step
<1> USE DEF MInv, MgrTypeOK, TypeOK, ThreadType
<1>1. ASSUME NEW t \in Thread, Starting(t)
      PROVE  SavedInv' /\ Step
  BY <1>1, StartingMaps DEF ServerStep
<1>2. ASSUME NEW d \in Daemon, Watching(d)
      PROVE  SavedInv' /\ Step
  <2>1. Exit(d)
    BY <1>2 DEF Watching, Tick, Check, NotNeeded, Revive, SavedInv, Calm,
       Without
  <2>2. UNCHANGED <<conf, password>> /\ pc' = [pc EXCEPT ![d] = "off"]
    BY <2>1 DEF Exit, memory, disk
  <2>3. SavedInv'
    BY <2>2 DEF SavedInv, ServerStep, mgrVars
  <2>4. UNCHANGED views
    BY <2>2, SameView DEF ServerStep, mgrVars
  <2> QED
    BY <2>3, <2>4 DEF Step
<1>3. CASE \E q \in Pid : Die(q)
  <2>1. UNCHANGED <<conf, password, pc>>
    BY <1>3 DEF Die, memory, threads, disk
  <2>2. SavedInv'
    BY <2>1 DEF SavedInv, ServerStep, mgrVars
  <2>3. UNCHANGED views
    BY <2>1, SameView DEF ServerStep, mgrVars
  <2> QED
    BY <2>2, <2>3 DEF Step
<1> QED
  BY <1>1, <1>2, <1>3 DEF ServerStep

\* The steps that neither write a configuration nor change the table.
LEMMA SilentStepMaps ==
    ASSUME MInv, SavedInv, Calm,
           \/ \E t \in Handler, p \in Port, w \in Password : Allocate(t, p, w)
           \/ \E t \in Caller : AddExists(t) \/ RemoveStop(t)
           \/ Boot \/ RestoreAfter \/ RestoreDead \/ Serve
           \/ \E p \in Port : RestoreLoad(p)
           \/ UNCHANGED <<allVars, events>>
    PROVE  SavedInv' /\ Step
<1> USE DEF MInv, MgrTypeOK, TypeOK, MemoryType, ThreadType
<1>1. ASSUME NEW t \in Handler, NEW p \in Port, NEW w \in Password, Allocate(t, p, w)
      PROVE  SavedInv' /\ UNCHANGED views
  <2>1. NewServer(p) \in Server /\ Garbage(NewServer(p))
    BY <1>1, NewServerIsGarbage DEF Allocate
  <2>2. t \in Caller /\ pc[t] = "idle" /\ t # Main /\ mpc[Main] = "idle"
    BY <1>1 DEF Allocate, Handler, CallerInv, PhaseInv, AtRest
  <2>3. \A u \in Caller : pc[u] # "idle" =>
           obj'[u] = obj[u] /\ password'[obj[u]] = password[obj[u]]
    BY <1>1, <2>1, <2>2 DEF Allocate, Go, Garbage
  <2>4. SavedInv'
    BY <1>1, <2>2, <2>3 DEF Allocate, Go, MkdirAll, SavedInv, threads
  <2>5. UNCHANGED views
    BY <1>1, <2>1, SameView DEF Allocate, MkdirAll, Garbage
  <2> QED
    BY <2>4, <2>5
<1>2. ASSUME NEW t \in Caller, AddExists(t)
      PROVE  SavedInv' /\ UNCHANGED views
  <2>1. UNCHANGED <<conf, password, pc, phase, servers>> /\ pc[t] = "idle"
    BY <1>2 DEF AddExists, vars, memory, threads, disk, CallerInv
  <2>2. SavedInv'
    BY <1>2, <2>1 DEF AddExists, AddFailed, Go, SavedInv
  <2> QED
    BY <2>1, <2>2, SameView
<1>3. ASSUME NEW t \in Caller, RemoveStop(t)
      PROVE  SavedInv' /\ UNCHANGED views
  <2>1. UNCHANGED <<conf, password, pc, phase, servers>> /\ obj' = obj
    BY <1>3 DEF RemoveStop, Stop, disk, Go
  <2>2. SavedInv'
    BY <1>3, <2>1 DEF RemoveStop, Go, SavedInv
  <2> QED
    BY <2>1, <2>2, SameView
<1>4. CASE Boot \/ Serve \/ UNCHANGED <<allVars, events>>
  <2>1. UNCHANGED <<conf, password, pc, servers, mpc, obj>>
        /\ phase' \in {phase, "restore", "serve"}
    BY <1>4 DEF Boot, Serve, allVars, mgrVars, vars, memory, threads, disk
  <2>2. SavedInv'
    BY <2>1 DEF SavedInv
  <2> QED
    BY <2>1, <2>2, SameView DEF Step
<1>5. CASE RestoreAfter
  <2>1. UNCHANGED <<conf, password, servers, phase, obj>> /\ pc[Main] = "idle"
        /\ mpc[Main] = "loaded"
    BY <1>5 DEF RestoreAfter, Go, disk, CallerInv
  <2>2. /\ \A t \in Caller : pc'[t] = pc[t]
        /\ \A d \in Daemon : pc'[d] \in {pc[d], "select"}
    BY <1>5, <2>1 DEF RestoreAfter, AfterStart, threads, Thread
  <2>3. SavedInv'
    BY <2>1, <2>2 DEF SavedInv
  <2> QED
    BY <2>1, <2>3, SameView DEF Step
<1>6. CASE RestoreDead
  <2>1. obj[Main] \in Server /\ pc[Main] = "idle"
    BY <1>6 DEF RestoreDead, CallerInv, AtRest
  <2>2. NewServer(PortOf[obj[Main]]) \in Server
        /\ Garbage(NewServer(PortOf[obj[Main]]))
    BY <1>6, <2>1, NewServerIsGarbage DEF RestoreDead
  <2>3. \A u \in Caller : pc[u] # "idle" =>
           obj'[u] = obj[u] /\ password'[obj[u]] = password[obj[u]]
    BY <1>6, <2>1, <2>2 DEF RestoreDead, Go, Garbage
  <2>4. SavedInv'
    BY <1>6, <2>3 DEF RestoreDead, Go, MkdirAll, SavedInv, threads
  <2>5. UNCHANGED views
    BY <1>6, <2>2, SameView DEF RestoreDead, MkdirAll, Garbage
  <2> QED
    BY <2>4, <2>5 DEF Step
<1>7. ASSUME NEW p \in Port, RestoreLoad(p)
      PROVE  SavedInv' /\ UNCHANGED views
  <2>1. pc[Main] = "idle"
    BY <1>7 DEF RestoreLoad, CallerInv, AtRest
  <2>2. /\ NewServer(p) \in Server /\ PortOf[NewServer(p)] = p
        /\ Garbage(NewServer(p))
    BY <1>7, NewServerIsGarbage DEF RestoreLoad
  <2>0. /\ \A s \in Server \ {NewServer(p)} : password'[s] = password[s]
        /\ \A u \in Caller \ {Main} : obj'[u] = obj[u]
        /\ UNCHANGED servers
    BY <1>7 DEF RestoreLoad, Go
  <2>3. \A u \in Caller : pc[u] # "idle" =>
           obj'[u] = obj[u] /\ password'[obj[u]] = password[obj[u]]
    BY <2>0, <2>1, <2>2 DEF Garbage, CallerInv, AtRest
  <2>4. mpc'[Main] \in {"loaded", "checked"} =>
           conf'[PortOf[obj'[Main]]] = password'[obj'[Main]]
    BY <1>7, <2>2 DEF RestoreLoad, Go, disk
  <2>5. SavedInv'
    BY <1>7, <2>3, <2>4 DEF RestoreLoad, SavedInv, threads, disk
  <2>6. UNCHANGED views
    <3>1. UNCHANGED <<servers, conf>>
      BY <1>7 DEF RestoreLoad, disk
    <3>2. \A q \in Port : Managed(q) => password'[servers[q]] = password[servers[q]]
      BY <2>0, <2>2 DEF Managed, Garbage
    <3> QED
      BY <3>1, <3>2, SameView
  <2> QED
    BY <2>5, <2>6
<1> QED
  BY <1>1, <1>2, <1>3, <1>4, <1>5, <1>6, <1>7 DEF Step

LEMMA AddLockMaps ==
    ASSUME MInv, SavedInv, Calm, NEW t \in Caller, AddLock(t)
    PROVE  SavedInv' /\ Step
<1> USE DEF MInv, MgrTypeOK, TypeOK, ThreadType, AddLock, Go
<1>0. /\ obj[t] \in Server /\ PortOf[obj[t]] \in Port
      /\ pc[t] = "idle" /\ ~Managed(PortOf[obj[t]])
      /\ \A u \in Caller : pc[u] = "idle"
      /\ mpc[Main] \notin {"loaded", "checked"}
  BY DEF CallerInv, PhaseInv, Handler, AtRest, MgrFree, Thread
<1>1. CASE /\ conf' = [conf EXCEPT ![PortOf[obj[t]]] = Torn]
           /\ pc' = [pc EXCEPT ![t] = "write"]
  <2>1. UNCHANGED <<password, servers, phase, obj>>
    BY <1>0 DEF Start, Begin
  <2>2. Step
    BY <1>0, <1>1, <2>1, ConfIsForgotten
  <2>3. SavedInv'
    BY <1>0, <1>1, <2>1 DEF SavedInv, WorldType
  <2> QED
    BY <2>2, <2>3
<1>2. CASE UNCHANGED conf /\ pc' = [pc EXCEPT ![t] = "fail"]
  <2>1. UNCHANGED <<password, servers, phase, obj>>
    BY <1>0 DEF Start, Begin
  <2>2. UNCHANGED views
    BY <1>2, <2>1, SameView
  <2>3. SavedInv'
    BY <1>0, <1>2, <2>1 DEF SavedInv
  <2> QED
    BY <2>2, <2>3 DEF Step
<1> QED
  BY <1>1, <1>2 DEF Start, Begin, Ended

LEMMA AddDoneMaps ==
    ASSUME MInv, SavedInv, Calm, NEW t \in Caller, AddDone(t)
    PROVE  SavedInv' /\ Step
<1> USE DEF MInv, MgrTypeOK, TypeOK, ThreadType, AddDone, Go, memory, disk
<1>0. obj[t] \in Server /\ ~Managed(PortOf[obj[t]])
      /\ mpc[Main] \notin {"loaded", "checked"}
      /\ \A u \in Caller \ {t} : pc[u] = "idle"
  BY DEF CallerInv, TableInv, PhaseInv, Handler, AtRest
<1>1. SavedInv'
  BY <1>0 DEF SavedInv, AddFailed, Thread
<1>2. CASE servers' = [servers EXCEPT ![PortOf[obj[t]]] = obj[t]] /\ pc[t] = "ok"
  BY <1>0, <1>1, <1>2, ServerIsAdmitted DEF SavedInv
<1>3. CASE UNCHANGED servers
  <2>1. UNCHANGED views
    BY <1>3, SameView
  <2> QED
    BY <1>1, <2>1 DEF Step
<1> QED
  BY <1>2, <1>3

LEMMA RestoreAliveMaps ==
    ASSUME MInv, SavedInv, Calm, RestoreAlive
    PROVE  SavedInv' /\ Step
<1> USE DEF MInv, MgrTypeOK, RestoreAlive, Go
<1>1. UNCHANGED <<conf, password, pc, phase>>
  BY DEF vars, memory, threads, disk
<1>2. obj[Main] \in Server /\ ~Managed(PortOf[obj[Main]]) /\ pc[Main] = "idle"
  BY DEF CallerInv, TableInv, PhaseInv, AtRest
<1>3. SavedInv'
  BY <1>1, <1>2 DEF SavedInv
<1>4. Step
  BY <1>1, <1>2, ServerIsAdmitted DEF SavedInv
<1> QED
  BY <1>3, <1>4

\* RemoveFiles and Discard: nobody starts a server meanwhile.
LEMMA FilesGoneMaps ==
    ASSUME MInv, SavedInv, Calm, NEW t \in Caller,
           RemoveFiles(t) \/ (Discard /\ t = Main)
    PROVE  SavedInv' /\ Step
<1> USE DEF MInv, MgrTypeOK, TypeOK
<1>0. /\ obj[t] \in Server /\ ~Managed(PortOf[obj[t]])
      /\ \A u \in Caller : pc[u] \in {"idle"}
      /\ mpc[Main] \notin {"loaded", "checked"}
  <2>1. CASE RemoveFiles(t)
    BY <2>1 DEF RemoveFiles, CallerInv, TableInv, PhaseInv, Handler, AtRest,
       Holding
  <2>2. CASE Discard /\ t = Main
    BY <2>2 DEF Discard, CallerInv, TableInv, PhaseInv, Handler, AtRest
  <2> QED
    BY <2>1, <2>2
<1>1. /\ conf' = [conf EXCEPT ![PortOf[obj[t]]] = None]
      /\ UNCHANGED <<password, pc, phase, servers>>
      /\ mpc' = [mpc EXCEPT ![t] = "idle"]
  BY DEF RemoveFiles, Discard, RemoveAll, Go, memory, threads
<1>2. SavedInv'
  BY <1>0, <1>1 DEF SavedInv
<1>3. Step
  BY <1>0, <1>1, ConfIsForgotten
<1> QED
  BY <1>2, <1>3

LEMMA RemoveLockMaps ==
    ASSUME MInv, SavedInv, Calm, NEW t \in Caller, NEW p \in Port, RemoveLock(t, p)
    PROVE  SavedInv' /\ Step
<1> USE DEF MInv, MgrTypeOK, TypeOK, RemoveLock, Go
<1>1. UNCHANGED <<conf, password, pc, phase>> /\ pc[t] = "idle"
  BY DEF vars, memory, threads, disk, CallerInv, AtRest
<1>2. SavedInv'
  BY <1>1 DEF SavedInv
<1>3. table[p] # None
  BY DEF table, Managed, MemoryType
<1>4. table' = [table EXCEPT ![p] = None] /\ UNCHANGED saved
  BY <1>1 DEF table, saved, Managed
<1> QED
  BY <1>2, <1>3, <1>4 DEF Step, PT!Next, PT!Release

LEMMA CrashMaps ==
    ASSUME MInv, SavedInv, Calm, Crash \/ Reboot
    PROVE  SavedInv' /\ Step
<1>1. Gone /\ phase' = "down"
  BY DEF Crash, Reboot
<1>2. SavedInv'
  BY <1>1 DEF Gone, SavedInv, Thread
<1>3. table' = [p \in Port |-> None] /\ UNCHANGED saved
  BY <1>1 DEF Gone, disk, table, saved, Managed
<1> QED
  BY <1>2, <1>3 DEF Step, PT!Next, PT!Lose

\* Every step of the manager is one of PortTable or changes nothing of it.
LEMMA MgrNextMaps ==
    ASSUME MInv, SavedInv, Calm, [MgrNext]_<<allVars, events>>
    PROVE  SavedInv' /\ Calm' /\ Step
<1>0. Calm'
  BY DEF Calm, Without, MgrNext
<1>1. CASE ServerStep
  BY <1>0, <1>1, ServerStepMaps
<1>2. ASSUME NEW t \in Handler, Request(t)
      PROVE  SavedInv' /\ Step
  <2>1. t \in Caller
    BY DEF Handler
  <2> QED
    BY <1>2, <2>1, SilentStepMaps, RemoveLockMaps DEF Request, FreePort
<1>3. ASSUME NEW t \in Caller, Handle(t)
      PROVE  SavedInv' /\ Step
  BY <1>3, AddLockMaps, AddDoneMaps, SilentStepMaps, FilesGoneMaps DEF Handle
<1>4. CASE Boot \/ RestoreStep
  BY <1>0, <1>4, SilentStepMaps, RestoreAliveMaps, FilesGoneMaps, MainIsCaller
     DEF RestoreStep
<1>5. CASE Crash \/ Reboot
  BY <1>0, <1>5, CrashMaps
<1>6. CASE UNCHANGED <<allVars, events>>
  BY <1>0, <1>6, SilentStepMaps
<1>7. ~Shutdown /\ ~CleanStep
  BY DEF Calm, Without, Shutdown, CleanStep, CleanDir, CleanServer, ExitClean,
     SavedInv
<1> QED
  BY <1>0, <1>1, <1>2, <1>3, <1>4, <1>5, <1>6, <1>7 DEF MgrNext

\* The slave keeps its promise to the master: in every behaviour without ticks
\* and interrupts, whatever fails, dies or crashes, its managed passwords and
\* the configurations on its disk behave like the table and the disk of
\* PortTable (Add, Remove and Restore of manager.go).
THEOREM ManagerImplementsPortTable == MgrSpec /\ Calm => PortTableSpec
<1>1. MgrInit /\ Calm => SavedInv /\ PT!Init
  <2>1. MgrInit => SavedInv
    BY DEF MgrInit, EmptyMemory, SavedInv, Thread
  <2> QED
    BY <2>1, MgrInitMaps
<1>2. MInv /\ SavedInv /\ Calm /\ [MgrNext]_<<allVars, events>>
        => SavedInv' /\ Calm' /\ [PT!Next]_(PT!ptVars)
  BY MgrNextMaps DEF Step, views, PT!ptVars
<1> QED
  BY <1>1, <1>2, MInvAlways, PTL DEF MgrSpec, PortTableSpec, PT!Spec
=============================================================================
