--------------------------- MODULE SSManagerDisk ---------------------------
(***************************************************************************)
(* Proofs about SSManager for any number of ports, Server objects,         *)
(* requests, daemons and processes: what the directories say of the        *)
(* Servers.  Nobody but its caller knows a Server that is being added      *)
(* (ObjInv); the phases of the program bound what else goes on (LifeInv);  *)
(* a watch daemon whose timer has fired looks after a Server that is still *)
(* in use (TimerInv, WorkInv); so the ss.conf of a Server in use is its    *)
(* own, except for the start() that is writing it (ConfInv).               *)
(***************************************************************************)
EXTENDS SSManagerProofs

USE PortOfType, ThreadsDisjoint, NoneIsNil, TornIsNoPassword, MainIsCaller

\* The Server a caller is adding is not known to any watch daemon before its
\* start() ends.
Unwatched(t) == mpc[t] = "add" \/ (mpc[t] = "adding" /\ pc[t] # "ok")

\* Callers work on different Servers, none of which is managed.
ObjInv ==
    /\ \A t \in Caller : AtRest(t) => obj[t] = None
    /\ \A t, u \in Caller : obj[t] = obj[u] /\ obj[t] # None => t = u
    /\ \A t \in Caller, p \in Port : obj[t] # None => servers[p] # obj[t]
    /\ \A t \in Caller, d \in Daemon : Unwatched(t) => target[d] # obj[t]

\* How the phases of the program limit the daemons and the disk.
LifeInv ==
    /\ phase \in {"down", "off"} => \A d \in Daemon : pc[d] = "off"
    /\ phase \in {"clean", "off"} => "shutdown" \in events
    /\ phase = "clean" => dir \subseteq todo
    /\ phase = "off" => dir = {}
    /\ Without({"crash", "reboot"}) =>
          /\ phase = "down" => dir = {}
          /\ phase = "restore" => todo = {} /\ AtRest(Main)

\* The steps of the manager, one by one.
LEMMA MgrSteps ==
    ASSUME [MgrNext]_<<allVars, events>>
    PROVE  /\ UNCHANGED events
           /\ \/ ServerStep
              \/ \E t \in Handler, p \in Port, w \in Password : Allocate(t, p, w)
              \/ \E t \in Handler, p \in Port : FreePort(t, p)
              \/ \E t \in Caller : AddLock(t)
              \/ \E t \in Caller : AddExists(t)
              \/ \E t \in Caller : AddDone(t)
              \/ \E t \in Caller : RemoveStop(t)
              \/ \E t \in Caller : RemoveFiles(t)
              \/ Boot
              \/ \E p \in Port : RestoreLoad(p)
              \/ RestoreAfter \/ RestoreAlive \/ RestoreDead
              \/ Discard \/ Serve \/ Shutdown
              \/ \E p \in Port : CleanDir(p)
              \/ \E p \in Port : CleanServer(p)
              \/ ExitClean \/ Crash \/ Reboot
              \/ UNCHANGED <<allVars, events>>
BY DEF MgrNext, Request, Handle, RestoreStep, CleanStep

\* A daemon gets a target when it is spawned, at the end of a start(), and
\* keeps it as long as it runs.
LEMMA NewTarget ==
    ASSUME BaseInv, ServerStep
    PROVE  /\ \A t \in Caller : pc[t] = "ok" => pc'[t] = "ok"
           /\ \A d \in Daemon :
                 \/ target'[d] = target[d] /\ (pc'[d] # "off" => pc[d] # "off")
                 \/ target'[d] = None /\ pc'[d] = "off"
                 \/ \E u \in Thread : /\ pc[u] = "pid" /\ target'[d] = target[u]
                                      /\ u \in Caller => pc'[u] = "ok"
<1> DEFINE Goal ==
       /\ \A t \in Caller : pc[t] = "ok" => pc'[t] = "ok"
       /\ \A d \in Daemon :
             \/ target'[d] = target[d] /\ (pc'[d] # "off" => pc[d] # "off")
             \/ target'[d] = None /\ pc'[d] = "off"
             \/ \E u \in Thread : /\ pc[u] = "pid" /\ target'[d] = target[u]
                                  /\ u \in Caller => pc'[u] = "ok"
<1> USE DEF BaseInv, TypeOK, ThreadType
<1>1. ASSUME NEW t \in Thread, Write(t) \/ ExecOK(t)
      PROVE  Goal
  BY <1>1 DEF Write, ExecOK, Thread
<1>2. ASSUME NEW t \in Thread, ExecFail(t) \/ NoPid(t)
      PROVE  Goal
  BY <1>2 DEF ExecFail, NoPid, Fail, Leave, Ended, Thread
<1>3. ASSUME NEW t \in Thread, ReadPid(t)
      PROVE  Goal
  BY <1>3 DEF ReadPid, AfterStart, Leave, Ended, Thread
<1>4. ASSUME NEW d \in Daemon, Watching(d)
      PROVE  Goal
  BY <1>4 DEF Watching, Tick, Exit, Check, NotNeeded, Revive, Begin, Leave,
     Ended, Thread
<1>5. ASSUME NEW q \in Pid, Die(q)
      PROVE  Goal
  BY <1>5 DEF Die, threads
<1> QED
  BY <1>1, <1>2, <1>3, <1>4, <1>5 DEF ServerStep, Starting

LEMMA ObjNext ==
    ASSUME MInv, ObjInv, [MgrNext]_<<allVars, events>>
    PROVE  ObjInv'
<1> USE DEF MInv, MgrTypeOK, ObjInv
<1>1. CASE ServerStep
  <2>1. UNCHANGED mgrVars
    BY <1>1 DEF ServerStep
  <2>2. ASSUME NEW t \in Caller, NEW d \in Daemon, Unwatched(t)', target'[d] = obj[t]
        PROVE  FALSE
    <3>1. Unwatched(t) /\ obj[t] \in Server /\ target[d] # obj[t]
      BY <1>1, <2>1, <2>2, NewTarget DEF mgrVars, BaseInv, Unwatched, CallerInv,
         AtRest
    <3>2. PICK u \in Thread : /\ pc[u] = "pid" /\ target'[d] = target[u]
                              /\ u \in Caller => pc'[u] = "ok"
      BY <1>1, <2>2, <3>1, NewTarget DEF BaseInv
    <3>3. u \in Caller /\ target[u] = obj[u]
      BY <2>2, <3>1, <3>2 DEF CallerInv, InStart, Thread
    <3>4. u = t
      BY <2>2, <3>1, <3>2, <3>3
    <3> QED
      BY <2>1, <2>2, <3>2, <3>3, <3>4 DEF Unwatched, mgrVars, CallerInv
  <2> QED
    BY <2>1, <2>2 DEF mgrVars, AtRest
<1>2. ASSUME NEW t \in Handler, NEW p \in Port, NEW w \in Password, Allocate(t, p, w)
      PROVE  ObjInv'
  <2>1. NewServer(p) \in Server /\ Garbage(NewServer(p))
    BY <1>2, NewServerIsGarbage DEF Allocate
  <2> QED
    BY <1>2, <2>1 DEF Allocate, Go, Garbage, AtRest, Unwatched, threads, Handler
<1>3. ASSUME NEW t \in Caller, NEW p \in Port, RemoveLock(t, p)
      PROVE  ObjInv'
  BY <1>3 DEF RemoveLock, Go, Managed, AtRest, Unwatched, vars, threads,
     TableInv
<1>4. ASSUME NEW t \in Caller, AddLock(t)
      PROVE  ObjInv'
  <2>1. \A d \in Daemon : target'[d] = target[d]
    BY <1>4 DEF AddLock, Start, Begin, Leave, TypeOK, ThreadType, Thread
  <2>2. \A u \in Caller \ {t} : pc'[u] = pc[u]
    BY <1>4 DEF AddLock, Start, Begin, Leave, TypeOK, ThreadType, Thread
  <2> QED
    BY <1>4, <2>1, <2>2 DEF AddLock, Go, AtRest, Unwatched
<1>5. ASSUME NEW t \in Caller, AddExists(t)
      PROVE  ObjInv'
  BY <1>5 DEF AddExists, AddFailed, Go, AtRest, Unwatched, vars, threads
<1>6. ASSUME NEW t \in Caller, AddDone(t)
      PROVE  ObjInv'
  BY <1>6 DEF AddDone, AddFailed, Go, AtRest, Unwatched, TypeOK, ThreadType,
     Thread
<1>7. ASSUME NEW t \in Caller, RemoveStop(t) \/ RemoveFiles(t) \/ (Discard /\ t = Main)
      PROVE  ObjInv'
  BY <1>7 DEF RemoveStop, Stop, RemoveFiles, Discard, Go, AtRest, Unwatched,
     threads
<1>8. ASSUME NEW p \in Port, RestoreLoad(p)
      PROVE  ObjInv'
  <2>1. NewServer(p) \in Server /\ Garbage(NewServer(p))
    BY <1>8, NewServerIsGarbage DEF RestoreLoad
  <2> QED
    BY <1>8, <2>1 DEF RestoreLoad, Go, Garbage, AtRest, Unwatched, threads
<1>9. CASE RestoreAfter
  <2>1. \A d \in Daemon : target'[d] \in {target[d], obj[Main]}
    BY <1>9 DEF RestoreAfter, AfterStart, threads, TypeOK, ThreadType, Thread
  <2>2. \A t \in Caller : pc'[t] = pc[t]
    BY <1>9 DEF RestoreAfter, AfterStart, threads, TypeOK, ThreadType, Thread,
       CallerInv
  <2> QED
    BY <1>9, <2>1, <2>2 DEF RestoreAfter, Go, AtRest, Unwatched, CallerInv
<1>10. CASE RestoreAlive
  BY <1>10 DEF RestoreAlive, Go, AtRest, Unwatched, vars, threads, CallerInv
<1>11. CASE RestoreDead
  <2>1. PortOf[obj[Main]] \in Port
    BY <1>11 DEF RestoreDead, CallerInv, AtRest
  <2>2. NewServer(PortOf[obj[Main]]) \in Server /\ Garbage(NewServer(PortOf[obj[Main]]))
    BY <1>11, <2>1, NewServerIsGarbage DEF RestoreDead
  <2> QED
    BY <1>11, <2>2 DEF RestoreDead, Go, Garbage, AtRest, Unwatched, threads
<1>12. CASE Boot \/ Serve \/ Shutdown \/ \E p \in Port : CleanDir(p)
  BY <1>12 DEF Boot, Serve, Shutdown, CleanDir, AtRest, Unwatched, vars, threads
<1>13. CASE ExitClean \/ Crash \/ Reboot
  BY <1>13 DEF ExitClean, Crash, Reboot, Gone, AtRest, Unwatched, Thread
<1>14. CASE UNCHANGED <<allVars, events>>
  BY <1>14 DEF allVars, mgrVars, AtRest, Unwatched, vars, threads
<1>15. Handler \subseteq Caller
  BY DEF Handler
<1> QED
  BY <1>1, <1>2, <1>3, <1>4, <1>5, <1>6, <1>7, <1>8, <1>9, <1>10, <1>11, <1>12,
     <1>13, <1>14, <1>15, MgrSteps DEF FreePort, CleanServer

\* A daemon that is not there does nothing.
LEMMA ServerStepKeeps ==
    ASSUME ServerStep
    PROVE  /\ UNCHANGED <<dir, mgrVars>>
           /\ /\ \A t \in Thread : pc[t] \notin InStart
              /\ \A d \in Daemon : pc[d] = "off"
              => \A d \in Daemon : pc'[d] = "off"
<1>1. UNCHANGED mgrVars
  BY DEF ServerStep
<1>2. ASSUME NEW t \in Thread, Starting(t)
      PROVE  UNCHANGED dir /\ pc[t] \in InStart
  BY <1>2 DEF Starting, Write, ExecOK, ExecFail, NoPid, ReadPid, Fail, disk,
     InStart
<1>3. ASSUME NEW d \in Daemon, Watching(d)
      PROVE  UNCHANGED dir /\ pc[d] # "off"
  BY <1>3 DEF Watching, Tick, Exit, Check, NotNeeded, Revive, Begin, disk
<1>4. ASSUME NEW q \in Pid, Die(q)
      PROVE  UNCHANGED <<dir, pc>>
  BY <1>4 DEF Die, disk, threads
<1> QED
  BY <1>1, <1>2, <1>3, <1>4 DEF ServerStep

LEMMA LifeNext ==
    ASSUME MInv, LifeInv, [MgrNext]_<<allVars, events>>
    PROVE  LifeInv'
<1> USE DEF MInv, LifeInv, Without
<1>e. UNCHANGED events
  BY MgrSteps
<1>1. CASE ServerStep
  <2>1. UNCHANGED <<dir, mgrVars>>
    BY <1>1, ServerStepKeeps
  <2>2. phase \in {"down", "off"} => \A t \in Thread : pc[t] \notin InStart
    BY DEF PhaseInv, CallerInv, AtRest, Handler, InStart, Thread
  <2>3. phase \in {"down", "off"} => \A d \in Daemon : pc'[d] = "off"
    BY <1>1, <2>2, ServerStepKeeps
  <2> QED
    BY <1>e, <2>1, <2>3 DEF mgrVars, AtRest
<1>2. CASE phase' = "serve"
  BY <1>2
<1>3. ASSUME NEW t \in Caller, ~AtRest(t),
             phase' = phase, phase \notin {"serve", "clean"}
      PROVE  LifeInv'
  BY <1>e, <1>3 DEF PhaseInv, Handler, MgrTypeOK, Phase
<1>4. CASE Boot
  BY <1>e, <1>4 DEF Boot, PhaseInv, AtRest
<1>5. ASSUME NEW p \in Port, RestoreLoad(p)
      PROVE  LifeInv'
  BY <1>e, <1>5 DEF RestoreLoad
<1>6. CASE Shutdown
  BY <1>e, <1>6 DEF Shutdown, vars, disk
<1>7. CASE /\ phase = "clean" /\ phase' = phase /\ todo' = todo
           /\ dir' \subseteq dir
  BY <1>e, <1>7
<1>8. ASSUME NEW p \in Port, CleanDir(p)
      PROVE  LifeInv'
  BY <1>e, <1>8 DEF CleanDir, RemoveAll
<1>9. CASE ExitClean \/ Crash \/ Reboot
  BY <1>e, <1>9 DEF ExitClean, Crash, Reboot, Gone, disk, Thread
<1>10. CASE UNCHANGED <<allVars, events>>
  BY <1>10 DEF allVars, mgrVars, vars, threads, disk, AtRest
<1>11. ASSUME NEW t \in Caller,
              \/ AddLock(t) \/ AddExists(t) \/ AddDone(t)
              \/ RemoveStop(t) \/ RemoveFiles(t)
              \/ t = Main /\ (RestoreAfter \/ RestoreAlive \/ RestoreDead \/ Discard)
       PROVE  LifeInv'
  <2>1. ~AtRest(t) /\ phase' = phase
    BY <1>11 DEF AddLock, AddExists, AddDone, RemoveStop, RemoveFiles,
       RestoreAfter, RestoreAlive, RestoreDead, Discard, AtRest
  <2>2. phase = "clean" => todo' = todo /\ dir' \subseteq dir
    BY <1>11 DEF AddLock, AddExists, AddDone, RemoveStop, RemoveFiles,
       RestoreAfter, RestoreAlive, RestoreDead, Discard, PhaseInv, AtRest,
       Handler, Start, Begin, Stop, RemoveAll, disk, vars
  <2> QED
    BY <1>2, <1>3, <1>7, <2>1, <2>2
<1>12. ASSUME NEW t \in Caller, NEW p \in Port, RemoveLock(t, p), phase \in {"serve", "clean"}
       PROVE  LifeInv'
  BY <1>2, <1>7, <1>12 DEF RemoveLock, vars, disk
<1> QED
  BY <1>1, <1>2, <1>4, <1>5, <1>6, <1>8, <1>9, <1>10, <1>11, <1>12, MgrSteps,
     MainIsCaller DEF FreePort, CleanServer, Allocate, Handler, Serve

\* A managed Server, or one that is being added or restored.
Kept(s) ==
    \/ servers[PortOf[s]] = s
    \/ \E t \in Caller : /\ obj[t] = s
                         /\ \/ mpc[t] \in {"loaded", "checked"}
                            \/ mpc[t] = "adding" /\ pc[t] # "fail"

\* Where a Server comes from that is not in the map.
LEMMA WhoKeeps ==
    ASSUME MInv, NEW s \in Server, Kept(s), servers[PortOf[s]] # s
    PROVE  /\ ~Managed(PortOf[s])
           /\ \E t \in Caller :
                 /\ obj[t] = s
                 /\ \/ t = Main /\ mpc[t] \in {"loaded", "checked"} /\ phase = "restore"
                    \/ mpc[t] = "adding" /\ pc[t] # "fail" /\ serverMu = t
BY DEF Kept, MInv, MgrTypeOK, PhaseInv, TableInv, CallerInv, Handler, AtRest,
   Holding, Managed, Phase

LEMMA OneKept ==
    ASSUME MInv, NEW s \in Server, NEW u \in Server, Kept(s), Kept(u),
           PortOf[s] = PortOf[u]
    PROVE  s = u
<1>1. CASE servers[PortOf[s]] = s \/ servers[PortOf[u]] = u
  BY <1>1, WhoKeeps DEF Managed
<1>2. CASE servers[PortOf[s]] # s /\ servers[PortOf[u]] # u
  BY <1>2, WhoKeeps DEF MInv, PhaseInv, Handler, AtRest
<1> QED
  BY <1>1, <1>2

\* The daemons find what they are to start: their timers fire only where no
\* managed Server is ever removed or restored.
Saving == NotBoth({"tick"}, {"free", "crash", "reboot"})
Working == phase \in {"restore", "serve"}

\* Without a tick of its timer a daemon does nothing but wait.
TimerInv ==
    "tick" \notin events => \A d \in Daemon : pc[d] \in {"off", "select"}

\* A daemon watches a Server that is kept.
WorkInv ==
    Saving /\ Working /\ "tick" \in events =>
        \A d \in Daemon : pc[d] # "off" => Kept(target[d])

\* The configuration of a Server that is kept is on disk, but for the moment
\* between the truncation of the file and the write.
Writing(s) == ~Free(s) /\ pc[rtMu[s]] = "write"

ConfInv ==
    Saving /\ Working =>
        \A s \in Server : Kept(s) =>
            conf[PortOf[s]] = IF Writing(s) THEN Torn ELSE password[s]

SaveInv == MInv /\ ObjInv /\ LifeInv /\ TimerInv /\ WorkInv /\ ConfInv

\* Whoever is inside start() works on a Server that is kept.
LEMMA StarterKeeps ==
    ASSUME SaveInv, Saving, Working, NEW t \in Thread, pc[t] \in InStart
    PROVE  /\ target[t] \in Server /\ rtMu[target[t]] = t /\ Kept(target[t])
           /\ t \in Daemon => "tick" \in events
<1>1. target[t] \in Server /\ rtMu[target[t]] = t
  BY DEF SaveInv, MInv, LockInv
<1>2. CASE t \in Caller
  BY <1>1, <1>2 DEF SaveInv, MInv, CallerInv, InStart, Kept
<1>3. CASE t \in Daemon
  BY <1>1, <1>3 DEF SaveInv, TimerInv, WorkInv, InStart
<1> QED
  BY <1>1, <1>2, <1>3 DEF Thread

\* A step of a Server keeps what is kept, but for a start() that fails.
LEMMA KeptStep ==
    ASSUME MInv, ServerStep, NEW s \in Server
    PROVE  /\ Kept(s)' => Kept(s)
           /\ Kept(s) => Kept(s)' \/ \E t \in Caller : obj[t] = s /\ Unwatched(t)
<1>1. UNCHANGED mgrVars
  BY DEF ServerStep
<1>2. \A t \in Caller : pc[t] = "fail" => pc'[t] = "fail"
  BY ServerStepEffect DEF MInv, MgrTypeOK, BaseInv
<1>3. \A t \in Caller : pc[t] = "ok" => pc'[t] = "ok"
  BY NewTarget DEF MInv, MgrTypeOK, BaseInv
<1> QED
  BY <1>1, <1>2, <1>3 DEF mgrVars, Kept, Unwatched

LEMMA ServerStepWorks ==
    ASSUME SaveInv, ServerStep, UNCHANGED events
    PROVE  WorkInv'
<1> SUFFICES ASSUME Saving, Working, "tick" \in events, NEW d \in Daemon, pc'[d] # "off"
             PROVE  Kept(target[d])'
  BY DEF ServerStep, mgrVars, Saving, NotBoth, Without, Working, WorkInv
<1> USE DEF SaveInv
<1>1. PICK u \in Thread, s \in Server :
         /\ pc[u] # "off" /\ target'[d] = s /\ target[u] = s
         /\ u = d \/ (pc[u] = "pid" /\ (u \in Caller => pc'[u] = "ok"))
  BY NewTarget DEF MInv, MgrTypeOK, BaseInv, LockInv, InStart, Thread
<1>2. Kept(s)
  BY <1>1, StarterKeeps DEF WorkInv, InStart, Thread
<1>3. ASSUME NEW t \in Caller, obj[t] = s, Unwatched(t)
      PROVE  Kept(s)'
  <2>1. u \in Caller
    BY <1>1, <1>3 DEF ObjInv, Thread
  <2>2. mpc[u] = "adding" /\ obj[u] = s /\ pc'[u] = "ok"
    BY <1>1, <2>1 DEF MInv, CallerInv, InStart
  <2> QED
    BY <2>1, <2>2 DEF Kept, ServerStep, mgrVars
<1> QED
  BY <1>1, <1>2, <1>3, KeptStep

LEMMA TimerNext ==
    ASSUME MInv, TimerInv, [MgrNext]_<<allVars, events>>
    PROVE  TimerInv'
<1> SUFFICES ASSUME "tick" \notin events, UNCHANGED events,
                    \A d \in Daemon : pc[d] \in {"off", "select"},
                    NEW d \in Daemon
             PROVE  pc'[d] \in {"off", "select"}
  BY MgrSteps DEF TimerInv
<1> USE DEF MInv, MgrTypeOK, TypeOK, ThreadType, Thread
<1>1. ASSUME NEW t \in Thread, Starting(t)
      PROVE  pc'[d] \in {"off", "select"}
  <2>1. t \in Caller
    BY <1>1 DEF Starting, Write, ExecOK, ExecFail, ReadPid, NoPid
  <2> QED
    BY <1>1, <2>1 DEF Starting, Write, ExecOK, ExecFail, ReadPid, NoPid, Fail,
       AfterStart
<1>2. ASSUME NEW e \in Daemon, Watching(e)
      PROVE  pc'[d] \in {"off", "select"}
  BY <1>2 DEF Watching, Tick, Exit, Check, NotNeeded, Revive
<1>3. CASE \/ UNCHANGED pc
           \/ pc' = [t \in Thread |-> IF t \in Daemon THEN "off" ELSE "idle"]
  BY <1>3
<1>4. ASSUME NEW t \in Caller, AddLock(t) \/ AddDone(t) \/ (t = Main /\ RestoreAfter)
      PROVE  pc'[d] \in {"off", "select"}
  BY <1>4 DEF AddLock, Start, Begin, AddDone, RestoreAfter, AfterStart, threads
<1> QED
  BY <1>1, <1>2, <1>3, <1>4, MgrSteps DEF ServerStep, Die, Allocate, FreePort,
     RemoveLock, AddExists, RemoveStop, Stop, RemoveFiles, Boot, RestoreLoad,
     RestoreAlive, RestoreDead, Discard, Serve, Shutdown, CleanDir, CleanServer,
     ExitClean, Crash, Reboot, Gone,
     vars, threads, allVars

\* Write() is the only step of a Server that ends the writing of a
\* configuration, Revive() the only one that begins it.
LEMMA ServerStepSaves ==
    ASSUME SaveInv, ServerStep, UNCHANGED events
    PROVE  ConfInv'
<1> SUFFICES ASSUME Saving, Working, NEW s \in Server, Kept(s)'
             PROVE  conf'[PortOf[s]] = IF Writing(s)' THEN Torn ELSE password'[s]
  BY DEF ServerStep, mgrVars, Saving, NotBoth, Without, Working, ConfInv
<1> USE DEF SaveInv, MInv, MgrTypeOK, TypeOK, MemoryType, ThreadType
<1>1. Kept(s)
  BY KeptStep
<1>2. conf[PortOf[s]] = IF Writing(s) THEN Torn ELSE password[s]
  BY <1>1 DEF ConfInv
<1>3. ASSUME NEW t \in Thread, Write(t)
      PROVE  conf'[PortOf[s]] = IF Writing(s)' THEN Torn ELSE password'[s]
  <2>1. target[t] \in Server /\ rtMu[target[t]] = t /\ Kept(target[t])
    BY <1>3, StarterKeeps DEF Write, InStart
  <2>2. conf[PortOf[target[t]]] = Torn
    BY <1>3, <2>1 DEF Write, ConfInv, Writing, Free, Thread
  <2>5. ASSUME NEW u \in Thread \ {t}, pc[u] = "write"
        PROVE  PortOf[target[u]] # PortOf[target[t]]
    <3>1. target[u] \in Server /\ rtMu[target[u]] = u /\ Kept(target[u])
      BY <2>5, StarterKeeps DEF InStart
    <3>2. target[u] # target[t]
      BY <2>1, <2>5, <3>1
    <3> QED
      BY <2>1, <3>1, <3>2, OneKept
  <2>6. conf' = [conf EXCEPT ![PortOf[target[t]]] = password[target[t]]]
    BY <1>3, <2>2, <2>5, NoneIsNil DEF Write
  <2>3. CASE s = target[t]
    BY <1>3, <2>1, <2>3, <2>6 DEF Write, WorldType, Writing, Free, memory,
       Thread
  <2>4. CASE s # target[t]
    <3>1. PortOf[s] # PortOf[target[t]] /\ rtMu[s] # t
      BY <1>1, <2>1, <2>4, OneKept DEF LockInv, Thread
    <3> QED
      BY <1>2, <1>3, <2>1, <2>4, <2>6, <3>1 DEF Write, WorldType, Writing, Free,
         memory, Thread
  <2> QED
    BY <2>3, <2>4
<1>4. ASSUME NEW t \in Thread, ExecOK(t) \/ ExecFail(t) \/ NoPid(t) \/ ReadPid(t)
      PROVE  conf'[PortOf[s]] = IF Writing(s)' THEN Torn ELSE password'[s]
  <2>1. target[t] \in Server /\ rtMu[target[t]] = t /\ pc[t] # "write"
    BY <1>4 DEF ExecOK, ExecFail, NoPid, ReadPid, LockInv, InStart
  <2>2. UNCHANGED <<conf, password>>
    BY <1>4 DEF ExecOK, ExecFail, NoPid, ReadPid, Fail, memory, disk
  <2>3. Writing(s)' = Writing(s)
    BY <1>4, <2>1 DEF ExecOK, ExecFail, NoPid, ReadPid, Fail, AfterStart, Ended,
       memory, Writing, Free, LockInv, InStart, Thread
  <2> QED
    BY <1>2, <2>2, <2>3
<1>5. ASSUME NEW d \in Daemon, Tick(d) \/ Exit(d) \/ Check(d) \/ NotNeeded(d)
      PROVE  conf'[PortOf[s]] = IF Writing(s)' THEN Torn ELSE password'[s]
  <2>1. Writing(s)' = Writing(s) /\ UNCHANGED <<conf, password>>
    BY <1>5 DEF Tick, Exit, Check, NotNeeded, memory, disk, Writing, Free,
       LockInv, InStart, Thread
  <2> QED
    BY <1>2, <2>1
<1>6. ASSUME NEW d \in Daemon, Revive(d)
      PROVE  conf'[PortOf[s]] = IF Writing(s)' THEN Torn ELSE password'[s]
  <2>1. target[d] \in Server /\ Kept(target[d])
    BY <1>6 DEF Revive, LockInv, TimerInv, WorkInv
  <2>2. CASE UNCHANGED <<conf, rtMu>>
    BY <1>2, <1>6, <2>1, <2>2 DEF Revive, Begin, Ended, Writing, Free, LockInv,
       InStart, Thread
  <2>3. CASE /\ conf' = [conf EXCEPT ![PortOf[target[d]]] = Torn]
             /\ rtMu' = [rtMu EXCEPT ![target[d]] = d]
             /\ pc' = [pc EXCEPT ![d] = "write"]
             /\ UNCHANGED password
    <3>1. CASE s = target[d]
      BY <2>1, <2>3, <3>1 DEF WorldType, Writing, Free, Thread
    <3>2. CASE s # target[d]
      <4>1. PortOf[s] # PortOf[target[d]]
        BY <1>1, <2>1, <3>2, OneKept
      <4>2. rtMu[s] # d
        BY <1>6 DEF Revive, LockInv, InStart, Thread
      <4> QED
        BY <1>2, <2>1, <2>3, <3>2, <4>1, <4>2 DEF WorldType, Writing, Free,
           Thread
    <3> QED
      BY <3>1, <3>2
  <2> QED
    BY <1>6, <2>2, <2>3 DEF Revive, Begin
<1>7. ASSUME NEW q \in Pid, Die(q)
      PROVE  conf'[PortOf[s]] = IF Writing(s)' THEN Torn ELSE password'[s]
  BY <1>2, <1>7 DEF Die, memory, threads, disk, Writing, Free
<1> QED
  BY <1>3, <1>4, <1>5, <1>6, <1>7 DEF ServerStep, Starting, Watching

-----------------------------------------------------------------------------
(* The steps of the manager that do not touch the threads: they keep       *)
(* WorkInv and ConfInv if they keep the configurations of what is kept.    *)
LEMMA CalmStepSaves ==
    ASSUME SaveInv, UNCHANGED <<events, rtMu, pc, target>>,
           Working' => Working,
           Saving /\ Working /\ Working' =>
              \A s \in Server :
                 /\ Kept(s)' => Kept(s) /\ password'[s] = password[s]
                                        /\ conf'[PortOf[s]] = conf[PortOf[s]]
                 /\ "tick" \in events /\ Kept(s) => Kept(s)'
    PROVE  WorkInv' /\ ConfInv'
<1> SUFFICES ASSUME Saving, Working, Working' PROVE WorkInv' /\ ConfInv'
  BY DEF WorkInv, ConfInv, Saving, NotBoth, Without
<1>1. WorkInv'
  BY DEF SaveInv, MInv, LockInv, WorkInv
<1>2. ConfInv'
  BY DEF SaveInv, ConfInv, Writing, Free
<1> QED
  BY <1>1, <1>2

LEMMA AllocateSaves ==
    ASSUME SaveInv, NEW t \in Handler, NEW p \in Port, NEW w \in Password,
           Allocate(t, p, w), UNCHANGED events
    PROVE  WorkInv' /\ ConfInv'
<1>1. /\ t \in Caller /\ NewServer(p) \in Server /\ PortOf[NewServer(p)] = p
      /\ Garbage(NewServer(p))
  BY NewServerIsGarbage DEF Allocate, Handler
<1>2. \A s \in Server : Kept(s) <=> Kept(s)'
  BY <1>1 DEF Allocate, Go, Kept, Garbage, threads, SaveInv, MInv, MgrTypeOK,
     AtRest, CallerInv
<1>3. \A s \in Server : Kept(s) => s # NewServer(p)
  BY <1>1 DEF Kept, Garbage
<1> QED
  BY <1>2, <1>3, CalmStepSaves DEF Allocate, MkdirAll, threads, Working

LEMMA AddLockSaves ==
    ASSUME SaveInv, NEW t \in Caller, AddLock(t), UNCHANGED events
    PROVE  WorkInv' /\ ConfInv'
<1> SUFFICES ASSUME Saving, Working PROVE WorkInv' /\ ConfInv'
  BY DEF AddLock, WorkInv, ConfInv, Saving, NotBoth, Without, Working
<1> USE DEF SaveInv, MInv, MgrTypeOK, TypeOK, MemoryType, ThreadType
<1>0. /\ obj[t] \in Server /\ PortOf[obj[t]] \in Port /\ pc[t] = "idle"
      /\ t \in Thread /\ t \notin Daemon
  BY DEF AddLock, CallerInv, AtRest, Thread
<1>p. \A u \in Thread \ {t} : pc'[u] = pc[u] /\ target'[u] = target[u]
  BY <1>0 DEF AddLock, Start, Begin, Leave, Ended
<1>1. ASSUME NEW s \in Server, Kept(s), PortOf[s] = PortOf[obj[t]]
      PROVE  FALSE
  <2>1. serverMu = None /\ mpc[t] = "add" /\ ~Managed(PortOf[s])
    BY <1>1 DEF AddLock, MgrFree
  <2>2. mpc[Main] \in {"loaded", "checked"} /\ phase = "restore"
    BY <1>1, <2>1, WhoKeeps DEF Managed, Thread
  <2> QED
    BY <2>1, <2>2 DEF PhaseInv, Handler, AtRest
<1>2. \A s \in Server : Kept(s) => Kept(s)'
  BY <1>0, <1>p DEF AddLock, Go, Kept, Thread
<1>3. \A s \in Server : Kept(s)' => Kept(s) \/ (s = obj[t] /\ pc'[t] # "fail")
  BY <1>0, <1>p DEF AddLock, Go, Kept, Thread
<1>4. \A d \in Daemon : pc'[d] = pc[d] /\ target'[d] = target[d]
  BY <1>0, <1>p DEF Thread
<1>5. WorkInv'
  BY <1>2, <1>4 DEF WorkInv, LockInv
<1>6. \A s \in Server : rtMu[s] # t
  BY <1>0 DEF LockInv, InStart
<1>7. CASE pc'[t] = "fail"
  <2>1. UNCHANGED <<conf, rtMu, password>>
    BY <1>0, <1>7 DEF AddLock, Start, Begin, Ended
  <2>2. \A s \in Server : Writing(s)' = Writing(s)
    BY <1>0, <1>6, <2>1 DEF AddLock, Start, Begin, Writing, Free
  <2> QED
    BY <1>3, <1>5, <1>7, <2>1, <2>2 DEF ConfInv
<1>8. CASE /\ conf' = [conf EXCEPT ![PortOf[obj[t]]] = Torn]
           /\ rtMu' = [rtMu EXCEPT ![obj[t]] = t]
           /\ pc' = [pc EXCEPT ![t] = "write"]
           /\ UNCHANGED password
  <2>1. \A s \in Server : Kept(s) => /\ Writing(s)' = Writing(s)
                                     /\ conf'[PortOf[s]] = conf[PortOf[s]]
    BY <1>0, <1>1, <1>6, <1>8 DEF Writing, Free, WorldType
  <2>2. \A s \in Server : s = obj[t] => Writing(s)' /\ conf'[PortOf[s]] = Torn
    BY <1>0, <1>8 DEF Writing, Free, WorldType
  <2> QED
    BY <1>3, <1>5, <1>8, <2>1, <2>2 DEF ConfInv
<1> QED
  BY <1>0, <1>7, <1>8 DEF AddLock, Start, Begin, Ended

LEMMA AddDoneSaves ==
    ASSUME SaveInv, NEW t \in Caller, AddDone(t), UNCHANGED events
    PROVE  WorkInv' /\ ConfInv'
<1> SUFFICES ASSUME Saving, Working PROVE WorkInv' /\ ConfInv'
  BY DEF AddDone, WorkInv, ConfInv, Saving, NotBoth, Without, Working
<1> USE DEF SaveInv, MInv, MgrTypeOK, TypeOK, MemoryType, ThreadType
<1>0. /\ obj[t] \in Server /\ PortOf[obj[t]] \in Port /\ ~Managed(PortOf[obj[t]])
      /\ t \in Thread /\ t \notin Daemon
  BY DEF AddDone, CallerInv, TableInv, AtRest, Holding, Thread
<1>1. \A s \in Server : Kept(s)' <=> Kept(s)
  BY <1>0 DEF AddDone, AddFailed, Go, Kept, ObjInv, CallerInv, Managed
<1>2. \A s \in Server : Writing(s)' = Writing(s)
  BY <1>0 DEF AddDone, memory, LockInv, InStart, Writing, Free
<1>3. \A d \in Daemon : pc'[d] = pc[d] /\ target'[d] = target[d]
  BY <1>0 DEF AddDone
<1> QED
  BY <1>1, <1>2, <1>3 DEF AddDone, memory, disk, WorkInv, ConfInv, LockInv

LEMMA AddExistsSaves ==
    ASSUME SaveInv, NEW t \in Caller, AddExists(t), UNCHANGED events
    PROVE  WorkInv' /\ ConfInv'
<1>1. \A s \in Server : Kept(s) <=> Kept(s)'
  BY DEF AddExists, AddFailed, Go, Kept, vars, threads, SaveInv, MInv, MgrTypeOK
<1> QED
  BY <1>1, CalmStepSaves DEF AddExists, vars, memory, threads, disk, Working

LEMMA RemoveLockSaves ==
    ASSUME SaveInv, NEW t \in Caller, NEW p \in Port, RemoveLock(t, p),
           phase = "clean" \/ "free" \in events, UNCHANGED events
    PROVE  WorkInv' /\ ConfInv'
<1>1. Saving /\ Working => "tick" \notin events
  BY DEF Saving, NotBoth, Without, Working
<1>2. \A s \in Server : Kept(s)' => Kept(s)
  BY DEF RemoveLock, Go, Kept, vars, threads, SaveInv, MInv, MgrTypeOK
<1> QED
  BY <1>1, <1>2, CalmStepSaves DEF RemoveLock, vars, memory, threads, disk,
     Working

LEMMA RemoveStopSaves ==
    ASSUME SaveInv, NEW t \in Caller, RemoveStop(t), UNCHANGED events
    PROVE  WorkInv' /\ ConfInv'
<1>1. \A s \in Server : Kept(s) <=> Kept(s)'
  BY DEF RemoveStop, Stop, Go, Kept, SaveInv, MInv, MgrTypeOK
<1> QED
  BY <1>1, CalmStepSaves DEF RemoveStop, Stop, disk, Working

\* RemoveFiles and Discard: nobody keeps a Server of the port.
LEMMA FilesGoneSaves ==
    ASSUME SaveInv, NEW t \in Caller, RemoveFiles(t) \/ (Discard /\ t = Main),
           UNCHANGED events
    PROVE  WorkInv' /\ ConfInv'
<1> USE DEF SaveInv, MInv
<1>0. obj[t] \in Server /\ mpc[t] \in {"deleting", "discard"}
  BY DEF RemoveFiles, Discard, CallerInv, AtRest
<1>1. \A s \in Server : Kept(s) => PortOf[s] # PortOf[obj[t]]
  BY <1>0, WhoKeeps DEF RemoveFiles, Discard, TableInv, PhaseInv, CallerInv,
     Handler, AtRest, Managed, Holding
<1>2. \A s \in Server : Kept(s) <=> Kept(s)'
  BY <1>0 DEF RemoveFiles, Discard, Go, Kept, threads, MgrTypeOK
<1>3. \A s \in Server : Kept(s) => conf'[PortOf[s]] = conf[PortOf[s]]
  BY <1>1 DEF RemoveFiles, Discard, RemoveAll, MgrTypeOK, TypeOK, WorldType
<1> QED
  BY <1>2, <1>3, CalmStepSaves DEF RemoveFiles, Discard, memory, threads,
     Working

\* Until a tick can do harm, Restore finds nothing to do.
LEMMA NothingToRestore ==
    ASSUME SaveInv, Saving, phase = "restore", "tick" \in events
    PROVE  todo = {} /\ AtRest(Main)
BY DEF SaveInv, LifeInv, Saving, NotBoth, Without

LEMMA RestoreLoadSaves ==
    ASSUME SaveInv, NEW p \in Port, RestoreLoad(p), UNCHANGED events
    PROVE  WorkInv' /\ ConfInv'
<1> SUFFICES ASSUME Saving, Working PROVE WorkInv' /\ ConfInv'
  BY DEF RestoreLoad, WorkInv, ConfInv, Saving, NotBoth, Without, Working
<1> USE DEF SaveInv, MInv, MgrTypeOK, TypeOK, MemoryType, ThreadType
<1>0. /\ NewServer(p) \in Server /\ PortOf[NewServer(p)] = p
      /\ Garbage(NewServer(p)) /\ Free(NewServer(p))
  BY NewServerIsGarbage, GarbageIsFree DEF RestoreLoad
<1>1. UNCHANGED <<rtMu, pc, target, conf, servers>>
  BY DEF RestoreLoad, threads, disk
<1>2. "tick" \notin events
  BY NothingToRestore DEF RestoreLoad
<1>3. WorkInv'
  BY <1>1, <1>2 DEF WorkInv, RestoreLoad, Working
<1>4. ASSUME NEW s \in Server, Kept(s)', s # NewServer(p)
      PROVE  Kept(s) /\ password'[s] = password[s]
  BY <1>0, <1>1, <1>4 DEF RestoreLoad, Go, Kept
<1>5. ASSUME NEW s \in Server, Kept(s)', s = NewServer(p)
      PROVE  conf[p] = password'[s]
  <2>1. mpc'[Main] = "loaded"
    BY <1>0, <1>1, <1>5 DEF RestoreLoad, Go, Kept, Garbage, CallerInv, AtRest
  <2> QED
    BY <1>0, <1>5, <2>1 DEF RestoreLoad, Go, Readable
<1>6. \A s \in Server : Writing(s)' = Writing(s)
  BY <1>1 DEF Writing, Free
<1> QED
  BY <1>0, <1>1, <1>3, <1>4, <1>5, <1>6 DEF ConfInv, Writing

LEMMA RestoreAfterSaves ==
    ASSUME SaveInv, RestoreAfter, UNCHANGED events
    PROVE  WorkInv' /\ ConfInv'
<1> SUFFICES ASSUME Saving, Working PROVE WorkInv' /\ ConfInv'
  BY DEF RestoreAfter, WorkInv, ConfInv, Saving, NotBoth, Without, Working
<1> USE DEF SaveInv, MInv, MgrTypeOK, TypeOK, MemoryType, ThreadType
<1>0. /\ obj[Main] \in Server /\ mpc[Main] = "loaded"
      /\ phase = "restore" /\ pc[Main] = "idle"
  BY DEF RestoreAfter, CallerInv, PhaseInv, AtRest, Working
<1>1. "tick" \notin events
  BY <1>0, NothingToRestore DEF AtRest
<1>2. /\ \A t \in Caller : pc'[t] = pc[t]
      /\ \A d \in Daemon : pc'[d] \in {pc[d], "select"}
      /\ UNCHANGED <<rtMu, conf, password, servers>>
  BY <1>0 DEF RestoreAfter, AfterStart, threads, disk, Thread
<1>3. WorkInv'
  BY <1>1, <1>2 DEF WorkInv
<1>4. \A s \in Server : Kept(s)' <=> Kept(s)
  BY <1>0, <1>2 DEF RestoreAfter, Go, Kept
<1>5. \A s \in Server : Writing(s)' = Writing(s)
  BY <1>1, <1>2 DEF TimerInv, Writing, Free, Thread
<1> QED
  BY <1>2, <1>3, <1>4, <1>5 DEF ConfInv

LEMMA RestoreAliveSaves ==
    ASSUME SaveInv, RestoreAlive, UNCHANGED events
    PROVE  WorkInv' /\ ConfInv'
<1> USE DEF SaveInv, MInv, MgrTypeOK
<1>0. obj[Main] \in Server /\ mpc[Main] = "checked" /\ ~Managed(PortOf[obj[Main]])
  BY DEF RestoreAlive, CallerInv, PhaseInv, TableInv, AtRest, Phase
<1>1. \A s \in Server : Kept(s)' <=> Kept(s)
  BY <1>0 DEF RestoreAlive, Go, Kept, Managed, ObjInv, vars, threads
<1> QED
  BY <1>1, CalmStepSaves DEF RestoreAlive, vars, memory, threads, disk, Working

LEMMA RestoreDeadSaves ==
    ASSUME SaveInv, RestoreDead, UNCHANGED events
    PROVE  WorkInv' /\ ConfInv'
<1> USE DEF SaveInv, MInv, MgrTypeOK
<1>0. obj[Main] \in Server /\ PortOf[obj[Main]] \in Port /\ phase = "restore"
  BY DEF RestoreDead, CallerInv, PhaseInv, AtRest, Phase
<1>1. Saving => "tick" \notin events
  BY <1>0, NothingToRestore DEF RestoreDead, AtRest
<1>2. NewServer(PortOf[obj[Main]]) \in Server /\ Garbage(NewServer(PortOf[obj[Main]]))
  BY <1>0, NewServerIsGarbage DEF RestoreDead
<1>3. \A s \in Server : Kept(s)' => Kept(s)
  BY <1>2 DEF RestoreDead, Go, Kept, threads
<1>4. \A s \in Server : Kept(s) => s # NewServer(PortOf[obj[Main]])
  BY <1>2 DEF Kept, Garbage
<1> QED
  BY <1>1, <1>3, <1>4, CalmStepSaves DEF RestoreDead, MkdirAll, threads, Working

\* Boot finds no daemon and nothing that is kept.
LEMMA BootSaves ==
    ASSUME SaveInv, Boot, UNCHANGED events
    PROVE  WorkInv' /\ ConfInv'
<1> USE DEF SaveInv, MInv, MgrTypeOK
<1>1. UNCHANGED <<pc, servers, mpc, obj>>
  BY DEF Boot, vars, threads
<1>2. \A d \in Daemon : pc'[d] = "off"
  BY <1>1 DEF Boot, LifeInv
<1>3. \A s \in Server : ~Kept(s)'
  BY <1>1 DEF Boot, Kept, PhaseInv, Handler, AtRest, Managed
<1> QED
  BY <1>2, <1>3 DEF WorkInv, ConfInv

\* Serve changes nothing but the phase; Shutdown, CleanDir and what ends the
\* program leave the phases that these invariants are about.
LEMMA PhaseStepSaves ==
    ASSUME SaveInv,
           \/ Serve \/ Shutdown \/ (\E p \in Port : CleanDir(p))
           \/ ExitClean \/ Crash \/ Reboot
           \/ UNCHANGED <<allVars, events>>,
           UNCHANGED events
    PROVE  WorkInv' /\ ConfInv'
<1>1. CASE Serve \/ UNCHANGED <<allVars, events>>
  <2>1. UNCHANGED <<rtMu, pc, target, servers, mpc, obj, conf, password>>
    BY <1>1 DEF Serve, allVars, mgrVars, vars, memory, threads, disk
  <2> QED
    BY <1>1, <2>1, CalmStepSaves DEF Kept, Working, Serve, allVars, mgrVars
<1>2. CASE phase' \in {"clean", "down", "off"}
  BY <1>2 DEF WorkInv, ConfInv, Working
<1> QED
  BY <1>1, <1>2 DEF Shutdown, CleanDir, ExitClean, Crash, Reboot

LEMMA SaveNext == SaveInv /\ [MgrNext]_<<allVars, events>> => SaveInv'
<1> SUFFICES ASSUME SaveInv, [MgrNext]_<<allVars, events>> PROVE SaveInv'
  OBVIOUS
<1>1. MInv' /\ ObjInv' /\ LifeInv' /\ TimerInv'
  BY MgrNextInv, ObjNext, LifeNext, TimerNext DEF SaveInv
<1>2. UNCHANGED events
  BY MgrSteps
<1>3. ASSUME NEW t \in Handler, NEW p \in Port, FreePort(t, p)
      PROVE  WorkInv' /\ ConfInv'
  BY <1>2, <1>3, RemoveLockSaves DEF FreePort, Handler
<1>4. ASSUME NEW p \in Port, CleanServer(p)
      PROVE  WorkInv' /\ ConfInv'
  BY <1>2, <1>4, RemoveLockSaves DEF CleanServer
<1>5. WorkInv' /\ ConfInv'
  BY <1>2, <1>3, <1>4, MgrSteps, ServerStepWorks, ServerStepSaves,
     AllocateSaves, AddLockSaves, AddExistsSaves, AddDoneSaves, RemoveStopSaves,
     FilesGoneSaves, BootSaves, RestoreLoadSaves, RestoreAfterSaves,
     RestoreAliveSaves, RestoreDeadSaves, PhaseStepSaves
<1> QED
  BY <1>1, <1>5 DEF SaveInv

LEMMA SaveInit == MgrInit => SaveInv
<1> SUFFICES ASSUME MgrInit PROVE SaveInv
  OBVIOUS
<1>1. MInv
  BY MgrInitInv
<1>2. ObjInv /\ LifeInv
  BY DEF MgrInit, EmptyMemory, ObjInv, LifeInv, Unwatched, AtRest, Thread
<1>3. TimerInv /\ WorkInv /\ ConfInv
  BY DEF MgrInit, EmptyMemory, TimerInv, WorkInv, ConfInv, Working, Thread
<1> QED
  BY <1>1, <1>2, <1>3 DEF SaveInv

LEMMA SaveAlways == MgrSpec => []SaveInv
BY SaveInit, SaveNext, PTL DEF MgrSpec

\* Every managed Server has its configuration on disk as long as it is
\* managed, in every environment where Durable promises it: the write precedes
\* the map, no two Servers of one port are kept at a time, and the watch
\* daemons work on what is kept.
THEOREM ManagedIsSaved == MgrSpec => []Durable
<1>1. SaveInv => Durable
  BY DEF SaveInv, MInv, MgrTypeOK, TableInv, ConfInv, Saving, Working, Writing,
     Kept, Managed, Durable
<1> QED
  BY <1>1, SaveAlways, PTL
=============================================================================
