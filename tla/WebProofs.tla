----------------------------- MODULE WebProofs -----------------------------
(***************************************************************************)
(* Proofs about the master's request handlers and the log they write to:   *)
(* nobody but the hook's own actions touches its queue, a queue that is    *)
(* full never keeps everybody, the configuration file says what is in      *)
(* memory unless saving it failed, and what races may exceed is bounded.   *)
(***************************************************************************)
EXTENDS Web, FiniteSetTheorems, TLAPS

-----------------------------------------------------------------------------
(* The log hook *)

LEMMA LogStart == LogInit => LogTypeOK /\ NotAllBlocked
<1> SUFFICES ASSUME LogInit PROVE LogTypeOK /\ NotAllBlocked
  OBVIOUS
<1>1. LogTypeOK
  <2>1. queued \in 0 .. Cap BY CapType DEF LogInit
  <2>2. posting \in BOOLEAN BY Zenon DEF LogInit
  <2>3. at \in [Logger -> {"run", "send"}] BY DEF LogInit
  <2> QED BY <2>1, <2>2, <2>3 DEF LogTypeOK
<1>2. ~Full BY CapType DEF LogInit, Full
<1> QED BY <1>1, <1>2 DEF NotAllBlocked

LEMMA LogTypeStep == LogTypeOK /\ [LogNext]_logging => LogTypeOK'
<1> SUFFICES ASSUME LogTypeOK, [LogNext]_logging PROVE LogTypeOK'
  OBVIOUS
<1> USE CapType DEF LogTypeOK, Full
<1>1. ASSUME NEW t \in Logger, Fire(t) PROVE LogTypeOK' BY <1>1 DEF Fire
<1>2. ASSUME NEW t \in Logger, Send(t) PROVE LogTypeOK' BY <1>2 DEF Send
<1>3. CASE Take BY <1>3 DEF Take
<1>4. CASE Post BY <1>4 DEF Post
<1>5. CASE LogReset
  <2>1. queued' \in 0 .. Cap BY <1>5 DEF LogReset
  <2>2. posting' \in BOOLEAN BY <1>5, Zenon DEF LogReset
  <2>3. at' \in [Logger -> {"run", "send"}] BY <1>5 DEF LogReset
  <2> QED BY <2>1, <2>2, <2>3
<1>6. CASE UNCHANGED logging BY <1>6 DEF logging
<1> QED BY <1>1, <1>2, <1>3, <1>4, <1>5, <1>6 DEF LogNext

\* No step of the hook leaves the queue full and everybody waiting for it.
LEMMA LogStep == LogTypeOK /\ NotAllBlocked /\ [LogNext]_logging => NotAllBlocked'
<1> SUFFICES ASSUME LogTypeOK, NotAllBlocked, [LogNext]_logging PROVE NotAllBlocked'
  OBVIOUS
<1> USE CapType DEF LogTypeOK, NotAllBlocked, Full
<1>1. ASSUME NEW t \in Logger, Fire(t) PROVE NotAllBlocked' BY <1>1 DEF Fire
<1>2. ASSUME NEW t \in Logger, Send(t) PROVE NotAllBlocked' BY <1>2 DEF Send
<1>3. CASE Take BY <1>3 DEF Take
<1>4. CASE Post BY <1>4 DEF Post
<1>5. CASE LogReset BY <1>5 DEF LogReset
<1>6. CASE UNCHANGED logging BY <1>6 DEF logging
<1> QED BY <1>1, <1>2, <1>3, <1>4, <1>5, <1>6 DEF LogNext

\* Whoever logs, and whenever: Fire (slackrus.go) may keep some of those who
\* log waiting for a queue that is full, never all of them.
THEOREM SomebodyRuns == LogSpec => []NotAllBlocked
<1>1. LogSpec => [](LogTypeOK /\ NotAllBlocked)
  BY LogStart, LogTypeStep, LogStep, PTL DEF LogSpec
<1> QED BY <1>1, PTL

LEMMA WebLogs == [WebNext]_<<vars, events>> => [LogNext]_logging
<1> SUFFICES ASSUME [WebNext]_<<vars, events>> PROVE [LogNext]_logging
  OBVIOUS
<1> USE DEF LogNext, logging
<1>1. ASSUME NEW h \in Handler, Request(h) PROVE UNCHANGED logging
  BY <1>1 DEF Request, HandleEmail, HandleCode, ChangeUserGroup, HandleConfigPut
<1>2. ASSUME NEW h \in Handler, Handle(h) PROVE LogNext \/ UNCHANGED logging
  BY <1>2, HandlersLog DEF Handle, SayCode, InsertCode, FindUser, ReadFlow, CreateUser,
                           Greet, EndRequest, SaveUser, SetTime
<1>3. ASSUME NEW s \in Saver, SaveConfig(s) \/ SaveFails(s) PROVE UNCHANGED logging
  BY <1>3 DEF SaveConfig, Marshal, Truncate, WriteFile, SaveFails
<1>4. ASSUME NEW t \in Logger, Log(t) \/ SendLog(t) PROVE LogNext
  BY <1>4 DEF Log, SendLog
<1>5. ASSUME NEW e \in Email, CodeExpires(e) PROVE UNCHANGED logging
  BY <1>5 DEF CodeExpires
<1>6. ASSUME NEW u \in User, RemoveUser(u) PROVE UNCHANGED logging
  BY <1>6 DEF RemoveUser
<1>7. CASE TakeLog \/ PostLog \/ Crash BY <1>7 DEF TakeLog, PostLog, Crash
<1>8. CASE Boot BY <1>8 DEF Boot
<1>9. CASE UNCHANGED <<vars, events>> BY <1>9 DEF vars
<1> QED BY <1>1, <1>2, <1>3, <1>4, <1>5, <1>6, <1>7, <1>8, <1>9 DEF WebNext

\* The master uses its hook as the module LogHook says: it logs from handlers
\* and other goroutines, and when it dies the queue is lost.
THEOREM MasterLogs == WebSpec => LogSpec
<1>1. WebInit => LogInit BY DEF WebInit
<1> QED BY <1>1, WebLogs, PTL DEF WebSpec, LogSpec

-----------------------------------------------------------------------------
(* Types *)

\* What a handler or saver has read before it goes on.
HandlersHave ==
    \A h \in Handler :
        /\ pc[h] \in {"say", "insert", "find", "create", "save"} => about[h] \in Email
        /\ pc[h] \in {"save", "time"} => local[h] \in Limit
        /\ pc[h] = "back" => about[h] \in User /\ local[h] \in UserRow
SaversHave == \A s \in Saver : saver[s] \in {"open", "write"} => data[s] \in Limits

TypeInv == WebTypeOK /\ HandlersHave /\ SaversHave

LEMMA TypeInit == WebInit => TypeInv
<1> SUFFICES ASSUME WebInit PROVE TypeInv
  OBVIOUS
<1>1. LogTypeOK BY LogStart DEF WebInit
<1>2. lost \in BOOLEAN /\ up \in BOOLEAN BY Zenon DEF WebInit
<1>3. fresh \in [Email -> Nat] /\ users \in [User -> UserRow \cup {None}]
  BY DEF WebInit
<1>4. limits \in Limits /\ file \in Limits \cup {Torn}
  BY LimitsType DEF WebInit
<1>5. /\ pc \in [Handler -> PC]
      /\ about \in [Handler -> Email \cup User \cup {None}]
      /\ local \in [Handler -> Limit \cup UserRow \cup {None}]
      /\ saver \in [Saver -> {"off", "marshal", "open", "write"}]
      /\ data \in [Saver -> Limits \cup {None}]
  BY DEF WebInit, PC
<1>6. happened \in 0 .. MaxEvents
  BY EventsAreCounted DEF WebInit
<1>7. WebTypeOK BY <1>1, <1>2, <1>3, <1>4, <1>5, <1>6 DEF WebTypeOK
<1> QED BY <1>7 DEF WebInit, TypeInv, HandlersHave, SaversHave

LEMMA TypeStep == TypeInv /\ [WebNext]_<<vars, events>> => TypeInv'
<1> SUFFICES ASSUME TypeInv, [WebNext]_<<vars, events>> PROVE TypeInv'
  OBVIOUS
<1>0. LogTypeOK'
  BY LogTypeStep, WebLogs DEF TypeInv, WebTypeOK
<1> USE <1>0, EventsAreCounted
        DEF TypeInv, WebTypeOK, HandlersHave, SaversHave, PC, tables, config, handling,
            Finish, Goto, Happens
<1>1. ASSUME NEW h \in Handler, NEW e \in Email, HandleEmail(h, e) \/ HandleCode(h, e)
      PROVE TypeInv'
  BY <1>1 DEF HandleEmail, HandleCode
<1>2. ASSUME NEW h \in Handler, NEW g \in Group, ChangeUserGroup(h, g) PROVE TypeInv'
  <2>1. PICK u \in Rows :
           /\ about' = [about EXCEPT ![h] = u]
           /\ local' = [local EXCEPT ![h] =
                 [users[u] EXCEPT !.group = g, !.flow = FlowOf(g), !.time = limits.time]]
    BY <1>2 DEF ChangeUserGroup
  <2>2. u \in User /\ users[u] \in UserRow BY DEF Rows
  <2>3. FlowOf(g) \in Limit /\ limits.time \in Limit
    BY LimitsType DEF FlowOf, Limits
  <2>4. [users[u] EXCEPT !.group = g, !.flow = FlowOf(g), !.time = limits.time] \in UserRow
    BY <2>2, <2>3 DEF UserRow
  <2> QED BY <1>2, <2>1, <2>2, <2>4 DEF ChangeUserGroup
<1>3. ASSUME NEW h \in Handler, NEW new \in Limits, HandleConfigPut(h, new) PROVE TypeInv'
  <2>1. [limits EXCEPT !.flow = new.flow] \in Limits /\ new.time \in Limit BY DEF Limits
  <2> QED BY <1>3, <2>1 DEF HandleConfigPut
<1>4. ASSUME NEW h \in Handler, SayCode(h) \/ InsertCode(h) \/ FindUser(h) PROVE TypeInv'
  BY <1>4 DEF SayCode, InsertCode, FindUser, Running
<1>5. ASSUME NEW h \in Handler, ReadFlow(h) \/ CreateUser(h) PROVE TypeInv'
  <2>1. CASE ReadFlow(h) BY <2>1 DEF ReadFlow, Running, Limits
  <2>2. CASE CreateUser(h)
    <3> DEFINE new == [email |-> about[h], group |-> "default", flow |-> local[h],
                       time |-> limits.time, disabled |-> FALSE]
    <3>1. about[h] \in Email /\ local[h] \in Limit /\ limits.time \in Limit
      BY <2>2 DEF CreateUser, Running, Limits
    <3>2. new \in UserRow BY <3>1 DEF UserRow, Group
    <3>3. PICK u \in User : users' = [users EXCEPT ![u] = new] BY <2>2 DEF CreateUser
    <3>4. users' \in [User -> UserRow \cup {None}] BY <3>2, <3>3
    <3> HIDE DEF new
    <3> QED BY <2>2, <3>4 DEF CreateUser, Running
  <2> QED BY <1>5, <2>1, <2>2
<1>6. ASSUME NEW h \in Handler, Greet(h) \/ EndRequest(h) \/ SaveUser(h) PROVE TypeInv'
  <2>1. CASE Greet(h) BY <2>1 DEF Greet, Running
  <2>2. CASE EndRequest(h) BY <2>2 DEF EndRequest, Running
  <2>3. CASE SaveUser(h) BY <2>3 DEF SaveUser, Running
  <2> QED BY <1>6, <2>1, <2>2, <2>3
<1>7. ASSUME NEW h \in Handler, SetTime(h) PROVE TypeInv'
  <2>1. [limits EXCEPT !.time = local[h]] \in Limits BY <1>7 DEF SetTime, Running, Limits
  <2> QED BY <1>7, <2>1 DEF SetTime, Running
<1>8. ASSUME NEW s \in Saver, SaveConfig(s) \/ SaveFails(s) PROVE TypeInv'
  <2>1. CASE Marshal(s) \/ Truncate(s) BY <2>1 DEF Marshal, Truncate
  <2>2. CASE WriteFile(s)
    <3>1. lost' \in BOOLEAN BY <2>2, Zenon DEF WriteFile
    <3> QED BY <2>2, <3>1 DEF WriteFile, EndSaving
  <2>3. CASE SaveFails(s)
    <3>1. lost' \in BOOLEAN BY <2>3, Zenon DEF SaveFails
    <3> QED BY <2>3, <3>1 DEF SaveFails, EndSaving
  <2> QED BY <1>8, <2>1, <2>2, <2>3 DEF SaveConfig
<1>9. ASSUME NEW t \in Logger, Log(t) \/ SendLog(t) PROVE TypeInv'
  BY <1>9 DEF Log, SendLog
<1>10. ASSUME NEW e \in Email, CodeExpires(e) PROVE TypeInv'
  BY <1>10 DEF CodeExpires
<1>11. ASSUME NEW u \in User, RemoveUser(u) PROVE TypeInv'
  <2>0. users[u] \in UserRow BY <1>11 DEF RemoveUser, Rows
  <2>1. [users[u] EXCEPT !.disabled = TRUE] \in UserRow BY <2>0 DEF UserRow
  <2>2. users' = [users EXCEPT ![u] = [users[u] EXCEPT !.disabled = TRUE]]
    BY <1>11 DEF RemoveUser
  <2>3. users' \in [User -> UserRow \cup {None}] BY <2>1, <2>2
  <2>4. UNCHANGED <<fresh, config, handling, up>> /\ happened' = happened + 1 /\ happened < MaxEvents
    BY <1>11 DEF RemoveUser
  <2> QED BY <2>3, <2>4
<1>12. CASE TakeLog \/ PostLog BY <1>12 DEF TakeLog, PostLog
<1>13. CASE Crash
  <2>1. lost' \in BOOLEAN /\ up' \in BOOLEAN BY <1>13, Zenon DEF Crash
  <2> QED BY <1>13, <2>1 DEF Crash
<1>14. CASE Boot
  <2>1. lost' \in BOOLEAN /\ up' \in BOOLEAN BY <1>14, Zenon DEF Boot
  <2> QED BY <1>14, <2>1 DEF Boot
<1>15. CASE UNCHANGED <<vars, events>> BY <1>15 DEF vars
<1> QED
  BY <1>1, <1>2, <1>3, <1>4, <1>5, <1>6, <1>7, <1>8, <1>9, <1>10, <1>11, <1>12, <1>13,
     <1>14, <1>15 DEF WebNext, Request, Handle

\* Every variable of the master's request handlers has its type.
THEOREM WebTypeCorrect == WebSpec => []WebTypeOK
<1>1. TypeInv => WebTypeOK BY DEF TypeInv
<1> QED BY <1>1, TypeInit, TypeStep, PTL DEF WebSpec

-----------------------------------------------------------------------------
(* The configuration file *)

\* If nobody changes the configuration before it is saved there is one who
\* changes or saves it at a time, and none when the master is down; what was
\* marshalled is what is in memory, who writes the file has truncated it, and
\* the file says what is in memory unless somebody is at work or has failed.
AloneInv ==
    /\ \A h, k \in Putting : h = k
    /\ \A s, t \in Saving : s = t
    /\ Saving = {} \/ Putting = {}
    /\ ~up => Saving = {} /\ Putting = {}
SavedInv ==
    /\ \A s \in Saver : /\ saver[s] \in {"open", "write"} => data[s] = limits
                        /\ saver[s] = "write" => file = Torn
    /\ ConfigSaved
ConfigInv == Without({"resave"}) => AloneInv /\ SavedInv

LEMMA ConfigInit == WebInit => ConfigInv
BY DEF WebInit, ConfigInv, AloneInv, SavedInv, ConfigSaved, Saving, Putting

LEMMA ConfigStep ==
    ASSUME TypeInv, ConfigInv, [WebNext]_<<vars, events>>
    PROVE  ConfigInv'
<1> events' = events BY DEF WebNext
<1> SUFFICES ASSUME Without({"resave"}), AloneInv, SavedInv PROVE AloneInv' /\ SavedInv'
  BY DEF ConfigInv, Without
<1> USE DEF TypeInv, WebTypeOK, AloneInv, SavedInv, ConfigSaved, Saving, Putting, PC
\* Most steps neither touch the configuration nor begin or end to change it.
<1>0. ASSUME UNCHANGED <<config, up>>, Putting' = Putting PROVE AloneInv' /\ SavedInv'
  BY <1>0 DEF config
<1>1. ASSUME NEW h \in Handler, NEW e \in Email, HandleEmail(h, e) \/ HandleCode(h, e)
      PROVE AloneInv' /\ SavedInv'
  BY <1>0, <1>1 DEF HandleEmail, HandleCode, MayHandle, Busy, Goto
<1>2. ASSUME NEW h \in Handler, NEW g \in Group, ChangeUserGroup(h, g)
      PROVE AloneInv' /\ SavedInv'
  BY <1>0, <1>2 DEF ChangeUserGroup, MayHandle, Busy, Goto
<1>3. ASSUME NEW h \in Handler, NEW new \in Limits, HandleConfigPut(h, new)
      PROVE AloneInv' /\ SavedInv'
  BY <1>3 DEF HandleConfigPut, MayHandle, MayPut, Without, Goto
<1>4. ASSUME NEW h \in Handler, \/ SayCode(h) \/ InsertCode(h) \/ FindUser(h) \/ ReadFlow(h)
                                \/ CreateUser(h) \/ Greet(h) \/ EndRequest(h) \/ SaveUser(h)
      PROVE AloneInv' /\ SavedInv'
  <2>1. UNCHANGED <<config, up>>
    BY <1>4 DEF SayCode, InsertCode, FindUser, ReadFlow, CreateUser, Greet, EndRequest, SaveUser
  <2>2. PICK here \in PC : pc[h] # "time" /\ here # "time" /\ pc' = [pc EXCEPT ![h] = here]
    BY <1>4 DEF SayCode, InsertCode, FindUser, ReadFlow, CreateUser, Greet, EndRequest,
                SaveUser, Running, Goto, Finish
  <2> QED BY <1>0, <2>1, <2>2
<1>5. ASSUME NEW h \in Handler, SetTime(h) PROVE AloneInv' /\ SavedInv'
  BY <1>5 DEF SetTime, Running, Finish, Goto
<1>6. ASSUME NEW s \in Saver, Marshal(s) PROVE AloneInv' /\ SavedInv'
  BY <1>6 DEF Marshal, handling
<1>7. ASSUME NEW s \in Saver, Truncate(s) PROVE AloneInv' /\ SavedInv'
  BY <1>7 DEF Truncate, handling
<1>8. ASSUME NEW s \in Saver, WriteFile(s) PROVE AloneInv' /\ SavedInv'
  BY <1>8 DEF WriteFile, EndSaving, handling
<1>13. ASSUME NEW s \in Saver, SaveFails(s) PROVE AloneInv' /\ SavedInv'
  BY <1>13 DEF SaveFails, EndSaving, handling
<1>9. ASSUME \/ \E t \in Logger : Log(t) \/ SendLog(t)
             \/ \E e \in Email : CodeExpires(e)
             \/ \E u \in User : RemoveUser(u)
             \/ TakeLog \/ PostLog
      PROVE AloneInv' /\ SavedInv'
  BY <1>0, <1>9 DEF Log, SendLog, CodeExpires, RemoveUser, TakeLog, PostLog, handling
<1>10. CASE Crash BY <1>10 DEF Crash
<1>11. CASE Boot BY <1>11 DEF Boot, handling
<1>12. CASE UNCHANGED <<vars, events>> BY <1>0, <1>12 DEF vars, handling
<1> QED
  BY <1>1, <1>2, <1>3, <1>4, <1>5, <1>6, <1>7, <1>8, <1>9, <1>10, <1>11, <1>12, <1>13
     DEF WebNext, Request, Handle, SaveConfig

\* If the configuration is not changed before it is saved, its file says what
\* is in memory whenever nobody changes or saves it, but after an attempt to
\* save it that failed (ioutil.WriteFile in handleConfigPut) or was cut off by
\* a crash, until the next one that is completed or the next start.
THEOREM FileIsMemory == WebSpec => []ConfigKept
<1>1. ConfigInv => ConfigKept BY DEF ConfigInv, SavedInv, ConfigKept
<1> QED BY <1>1, TypeInit, TypeStep, ConfigInit, ConfigStep, PTL DEF WebSpec

-----------------------------------------------------------------------------
(* Requests that overlap *)

\* Without overlap there is one request at a time.
OneByOne == Without({"overlap"}) => \A h, k \in Busy : h = k

LEMMA AtOnceType == AtOnce \in Nat
BY HandlersAreFinite, FS_CardinalityType DEF AtOnce

LEMMA FewBusy ==
    ASSUME NEW B \in SUBSET Handler, Without({"overlap"}) => \A h, k \in B : h = k,
           NEW S \in SUBSET B
    PROVE  IsFiniteSet(S) /\ Cardinality(S) \in Nat /\ Cardinality(S) <= AtOnce
<1>1. IsFiniteSet(S) /\ Cardinality(S) <= Cardinality(Handler)
  BY HandlersAreFinite, FS_Subset
<1>2. Cardinality(S) \in Nat
  BY <1>1, FS_CardinalityType
<1>3. CASE Without({"overlap"})
  <2>1. CASE S = {} BY <1>1, <1>2, <1>3, <2>1, FS_EmptySet DEF AtOnce
  <2>2. CASE S # {}
    <3>1. PICK h \in S : S = {h} BY <1>3, <2>2
    <3> QED BY <1>1, <1>2, <1>3, <3>1, FS_Singleton DEF AtOnce
  <2> QED BY <2>1, <2>2
<1> QED BY <1>1, <1>2, <1>3 DEF AtOnce

\* What a step does to a handler: it begins, goes on, or ends.
LEMMA OneByOneStep ==
    ASSUME TypeInv, OneByOne, [WebNext]_<<vars, events>>
    PROVE  OneByOne'
<1> events' = events BY DEF WebNext
<1> SUFFICES ASSUME Without({"overlap"}), \A h, k \in Busy : h = k
             PROVE \A h, k \in Busy' : h = k
  BY DEF OneByOne, Without
<1> USE DEF TypeInv, WebTypeOK, Busy
<1>0. ASSUME UNCHANGED pc PROVE \A h, k \in Busy' : h = k
  BY <1>0
<1>1. ASSUME NEW h \in Handler, Request(h) PROVE \A g, k \in Busy' : g = k
  <2>1. Busy = {}
    BY <1>1 DEF Request, HandleEmail, HandleCode, ChangeUserGroup, HandleConfigPut,
                MayHandle, Without
  <2>2. PICK here : pc' = [pc EXCEPT ![h] = here]
    BY <1>1 DEF Request, HandleEmail, HandleCode, ChangeUserGroup, HandleConfigPut, Goto
  <2> QED BY <2>1, <2>2
<1>2. ASSUME NEW h \in Handler, Handle(h) PROVE \A g, k \in Busy' : g = k
  <2>1. pc[h] # "idle"
    BY <1>2 DEF Handle, SayCode, InsertCode, FindUser, ReadFlow, CreateUser, Greet,
                EndRequest, SaveUser, SetTime, Running
  <2>2. PICK here : pc' = [pc EXCEPT ![h] = here]
    BY <1>2 DEF Handle, SayCode, InsertCode, FindUser, ReadFlow, CreateUser, Greet,
                EndRequest, SaveUser, SetTime, Finish, Goto
  <2> QED BY <2>1, <2>2
<1>3. ASSUME \/ \E s \in Saver : SaveConfig(s) \/ SaveFails(s)
             \/ \E t \in Logger : Log(t) \/ SendLog(t)
             \/ \E e \in Email : CodeExpires(e)
             \/ \E u \in User : RemoveUser(u)
             \/ TakeLog \/ PostLog \/ Boot
      PROVE \A h, k \in Busy' : h = k
  BY <1>0, <1>3 DEF SaveConfig, Marshal, Truncate, WriteFile, SaveFails, Log, SendLog, CodeExpires,
                    RemoveUser, TakeLog, PostLog, Boot, handling
<1>4. CASE Crash BY <1>4 DEF Crash
<1>5. CASE UNCHANGED <<vars, events>> BY <1>0, <1>5 DEF vars, handling
<1> QED BY <1>1, <1>2, <1>3, <1>4, <1>5 DEF WebNext

\* Who has been let in to send a code to an e-mail address, or has found no
\* user for one.
Sending(e) == {h \in Handler : pc[h] \in {"say", "insert"} /\ about[h] = e}
Creating(e) == {h \in Handler : pc[h] \in {"create", "save"} /\ about[h] = e}

\* Whoever was let in counts already.
SentInv == \A e \in Email : fresh[e] + Cardinality(Sending(e)) < MaxSent + AtOnce

LEMMA SentInit == WebInit => SentInv
<1> SUFFICES ASSUME WebInit, NEW e \in Email
             PROVE fresh[e] + Cardinality(Sending(e)) < MaxSent + AtOnce
  BY DEF SentInv
<1>1. Sending(e) = {} BY DEF WebInit, Sending
<1>2. fresh[e] = 0 BY DEF WebInit
<1> QED BY <1>1, <1>2, FS_EmptySet, SomeCodes, AtOnceType

LEMMA SentStep ==
    ASSUME TypeInv, OneByOne, OneByOne', SentInv, [WebNext]_<<vars, events>>
    PROVE  SentInv'
<1> SUFFICES ASSUME NEW e \in Email
             PROVE fresh'[e] + Cardinality(Sending(e)') < MaxSent + AtOnce
  BY DEF SentInv, AtOnce, Without, WebNext
<1>a. /\ fresh[e] \in Nat /\ fresh[e] + Cardinality(Sending(e)) < MaxSent + AtOnce
      /\ AtOnce \in Nat /\ MaxSent \in Nat
  BY AtOnceType, SomeCodes DEF TypeInv, WebTypeOK, SentInv
<1>b. AtOnce' = AtOnce BY DEF AtOnce, Without, WebNext
<1>c. IsFiniteSet(Sending(e)) /\ Cardinality(Sending(e)) \in Nat
  <2>1. Sending(e) \in SUBSET Busy /\ Busy \in SUBSET Handler BY DEF Sending, Busy
  <2> QED BY <2>1, FewBusy DEF OneByOne
<1>d. Cardinality(Sending(e)') \in Nat /\ Cardinality(Sending(e)') <= AtOnce
  <2>1. Sending(e)' \in SUBSET Busy' /\ Busy' \in SUBSET Handler BY DEF Sending, Busy
  <2>2. Without({"overlap"}) => \A h, k \in Busy' : h = k BY DEF OneByOne, Without, WebNext
  <2> QED BY <2>1, <2>2, FewBusy
\* Most steps let nobody in and send nothing.
<1>0. ASSUME fresh'[e] \in Nat, fresh'[e] <= fresh[e], Sending(e)' \subseteq Sending(e)
      PROVE fresh'[e] + Cardinality(Sending(e)') < MaxSent + AtOnce
  <2>1. Cardinality(Sending(e)') <= Cardinality(Sending(e)) BY <1>0, <1>c, FS_Subset
  <2> QED BY <1>0, <1>a, <1>c, <1>d, <2>1
<1> USE DEF TypeInv, WebTypeOK, PC
<1>1. ASSUME NEW h \in Handler, NEW d \in Email, HandleEmail(h, d)
      PROVE fresh'[e] + Cardinality(Sending(e)') < MaxSent + AtOnce
  <2>1. fresh' = fresh BY <1>1 DEF HandleEmail, tables
  <2>2. CASE e = d BY <1>1, <1>a, <1>d, <2>1, <2>2 DEF HandleEmail, MaySend
  <2>3. CASE e # d
    <3>1. Sending(e)' \subseteq Sending(e)
      BY <1>1, <2>3 DEF HandleEmail, MayHandle, Busy, Goto, Sending
    <3> QED BY <1>0, <1>a, <2>1, <3>1
  <2> QED BY <2>2, <2>3
<1>2. ASSUME NEW h \in Handler, InsertCode(h)
      PROVE fresh'[e] + Cardinality(Sending(e)') < MaxSent + AtOnce
  <2>1. CASE e = about[h]
    <3>1. h \in Sending(e) /\ fresh'[e] = fresh[e] + 1
      BY <1>2, <2>1 DEF InsertCode, Running, Sending
    <3>2. Sending(e)' = Sending(e) \ {h}
      BY <1>2, <2>1 DEF InsertCode, Finish, Goto, Sending
    <3>3. Cardinality(Sending(e)') = Cardinality(Sending(e)) - 1
      BY <1>c, <3>1, <3>2, FS_RemoveElement
    <3> QED BY <1>a, <1>c, <1>d, <3>1, <3>3
  <2>2. CASE e # about[h]
    <3>1. fresh'[e] = fresh[e] BY <1>2, <2>2 DEF InsertCode
    <3>2. Sending(e)' \subseteq Sending(e) BY <1>2 DEF InsertCode, Finish, Goto, Sending
    <3> QED BY <1>0, <1>a, <3>1, <3>2
  <2> QED BY <2>1, <2>2
<1>3. ASSUME NEW d \in Email, CodeExpires(d)
      PROVE fresh'[e] + Cardinality(Sending(e)') < MaxSent + AtOnce
  <2>1. fresh'[e] \in Nat /\ fresh'[e] <= fresh[e] BY <1>3, <1>a DEF CodeExpires
  <2>2. Sending(e)' = Sending(e) BY <1>3 DEF CodeExpires, handling, Sending
  <2> QED BY <1>0, <2>1, <2>2
<1>4. ASSUME fresh' = fresh, Sending(e)' \subseteq Sending(e)
      PROVE fresh'[e] + Cardinality(Sending(e)') < MaxSent + AtOnce
  BY <1>0, <1>4, <1>a
<1>5. ASSUME NEW h \in Handler,
             \/ \E d \in Email : HandleCode(h, d)
             \/ \E g \in Group : ChangeUserGroup(h, g)
             \/ \E new \in Limits : HandleConfigPut(h, new)
      PROVE fresh'[e] + Cardinality(Sending(e)') < MaxSent + AtOnce
  <2>1. fresh' = fresh
    BY <1>5 DEF HandleCode, ChangeUserGroup, HandleConfigPut, tables
  <2>2. /\ \E here \in PC \ {"say", "insert"} : pc' = [pc EXCEPT ![h] = here]
        /\ \A k \in Handler : k # h => about'[k] = about[k]
    BY <1>5 DEF HandleCode, ChangeUserGroup, HandleConfigPut, Goto
  <2> QED BY <1>4, <2>1, <2>2 DEF Sending
<1>6. ASSUME NEW h \in Handler, SayCode(h)
      PROVE fresh'[e] + Cardinality(Sending(e)') < MaxSent + AtOnce
  BY <1>4, <1>6 DEF SayCode, Running, Goto, tables, Sending
<1>7. ASSUME NEW h \in Handler,
             \/ FindUser(h) \/ ReadFlow(h) \/ CreateUser(h)
             \/ Greet(h) \/ EndRequest(h) \/ SaveUser(h) \/ SetTime(h)
      PROVE fresh'[e] + Cardinality(Sending(e)') < MaxSent + AtOnce
  <2>1. fresh' = fresh
    BY <1>7 DEF FindUser, ReadFlow, CreateUser, Greet, EndRequest, SaveUser, SetTime, tables
  <2>2. /\ \E here \in PC \ {"say", "insert"} : pc' = [pc EXCEPT ![h] = here]
        /\ \A k \in Handler : k # h => about'[k] = about[k]
    BY <1>7 DEF FindUser, ReadFlow, CreateUser, Greet, EndRequest, SaveUser, SetTime,
                Finish, Goto
  <2> QED BY <1>4, <2>1, <2>2 DEF Sending
<1>8. ASSUME \/ \E s \in Saver : SaveConfig(s) \/ SaveFails(s)
             \/ \E t \in Logger : Log(t) \/ SendLog(t)
             \/ \E u \in User : RemoveUser(u)
             \/ TakeLog \/ PostLog \/ Boot \/ UNCHANGED <<vars, events>>
      PROVE fresh'[e] + Cardinality(Sending(e)') < MaxSent + AtOnce
  <2>1. fresh' = fresh /\ UNCHANGED handling
    BY <1>8 DEF SaveConfig, Marshal, Truncate, WriteFile, SaveFails, Log, SendLog, RemoveUser, TakeLog,
                PostLog, Boot, vars, tables
  <2> QED BY <1>4, <2>1 DEF handling, Sending
<1>9. CASE Crash
  BY <1>4, <1>9 DEF Crash, tables, Sending
<1> QED
  BY <1>1, <1>2, <1>3, <1>5, <1>6, <1>7, <1>8, <1>9 DEF WebNext, Request, Handle

\* However requests overlap, an e-mail address is not sent more codes than the
\* limit allows and the requests at a time add.
THEOREM CodesAreLimited == WebSpec => []SentLimit
<1>1. WebInit => OneByOne BY DEF WebInit, OneByOne, Busy
<1>2. TypeInv /\ SentInv /\ OneByOne => SentLimit
  <2> SUFFICES ASSUME TypeInv, SentInv, OneByOne, NEW e \in Email
               PROVE fresh[e] < MaxSent + AtOnce
    BY DEF SentLimit
  <2>1. Sending(e) \in SUBSET Busy /\ Busy \in SUBSET Handler BY DEF Sending, Busy
  <2>2. Cardinality(Sending(e)) \in Nat BY <2>1, FewBusy DEF OneByOne
  <2> QED BY <2>2, AtOnceType, SomeCodes DEF SentInv, TypeInv, WebTypeOK
<1> QED
  BY <1>1, <1>2, TypeInit, TypeStep, OneByOneStep, SentInit, SentStep, PTL DEF WebSpec

\* Whoever has found no user counts already, unless users' groups change.
UserInv ==
    Without({"change"}) =>
        /\ \A h \in Handler : pc[h] # "back"
        /\ \A e \in Email : /\ IsFiniteSet(Enabled(e))
                           /\ Cardinality(Enabled(e)) + Cardinality(Creating(e)) <= AtOnce

LEMMA UserInit == WebInit => UserInv
<1> SUFFICES ASSUME WebInit, NEW e \in Email
             PROVE /\ \A h \in Handler : pc[h] # "back"
                   /\ IsFiniteSet(Enabled(e))
                   /\ Cardinality(Enabled(e)) + Cardinality(Creating(e)) <= AtOnce
  BY DEF UserInv, WebInit
<1>1. Enabled(e) = {} /\ Creating(e) = {} BY DEF WebInit, Enabled, Rows, Creating
<1>2. \A h \in Handler : pc[h] # "back" BY DEF WebInit
<1> QED BY <1>1, <1>2, FS_EmptySet, AtOnceType

LEMMA UserStep ==
    ASSUME TypeInv, OneByOne, OneByOne', UserInv, [WebNext]_<<vars, events>>
    PROVE  UserInv'
<1> SUFFICES ASSUME Without({"change"})
             PROVE /\ \A h \in Handler : pc'[h] # "back"
                   /\ \A e \in Email :
                         /\ IsFiniteSet(Enabled(e)')
                         /\ Cardinality(Enabled(e)') + Cardinality(Creating(e)') <= AtOnce
  BY DEF UserInv, AtOnce, Without, WebNext
<1> DEFINE Few(e) == /\ IsFiniteSet(Enabled(e)')
                     /\ Cardinality(Enabled(e)') + Cardinality(Creating(e)') <= AtOnce
           NoBack == \A h \in Handler : pc'[h] # "back"
<1> USE DEF TypeInv, WebTypeOK, PC
<1>a. \A e \in Email : /\ IsFiniteSet(Enabled(e)) /\ Cardinality(Enabled(e)) \in Nat
                       /\ Cardinality(Enabled(e)) + Cardinality(Creating(e)) <= AtOnce
  BY FS_CardinalityType DEF UserInv
<1>b. AtOnce \in Nat BY AtOnceType
<1>c. \A e \in Email : IsFiniteSet(Creating(e)) /\ Cardinality(Creating(e)) \in Nat
  <2> TAKE e \in Email
  <2>1. Creating(e) \in SUBSET Busy /\ Busy \in SUBSET Handler BY DEF Creating, Busy
  <2> QED BY <2>1, FewBusy DEF OneByOne
<1>d. \A e \in Email : Cardinality(Creating(e)') \in Nat /\ Cardinality(Creating(e)') <= AtOnce
  <2> TAKE e \in Email
  <2>1. Creating(e)' \in SUBSET Busy' /\ Busy' \in SUBSET Handler BY DEF Creating, Busy
  <2>2. Without({"overlap"}) => \A h, k \in Busy' : h = k BY DEF OneByOne, Without, WebNext
  <2> QED BY <2>1, <2>2, FewBusy
<1>e. \A h \in Handler : pc[h] # "back" BY DEF UserInv
\* Most steps neither enable a user nor find none.
<1>0. ASSUME NEW e \in Email, Enabled(e)' \subseteq Enabled(e), Creating(e)' \subseteq Creating(e)
      PROVE Few(e)
  <2>1. IsFiniteSet(Enabled(e)') /\ Cardinality(Enabled(e)') <= Cardinality(Enabled(e))
    BY <1>0, <1>a, FS_Subset
  <2>2. Cardinality(Enabled(e)') \in Nat BY <2>1, FS_CardinalityType
  <2>3. Cardinality(Creating(e)') <= Cardinality(Creating(e)) BY <1>0, <1>c, FS_Subset
  <2> QED BY <1>a, <1>b, <1>c, <1>d, <2>1, <2>2, <2>3
<1>1. ASSUME NEW h \in Handler, FindUser(h) PROVE NoBack /\ \A e \in Email : Few(e)
  <2>1. Enabled(about[h]) = {} \/ Enabled(about[h]) # {} OBVIOUS
  <2>2. NoBack BY <1>1, <1>e DEF FindUser, Finish, Goto
  <2>3. \A e \in Email : Enabled(e)' = Enabled(e)
    BY <1>1 DEF FindUser, tables, Enabled, Rows
  <2>4. ASSUME NEW e \in Email PROVE Few(e)
    <3>1. CASE e = about[h] /\ Enabled(e) = {}
      <4>1. IsFiniteSet(Enabled(e)') /\ Cardinality(Enabled(e)') = 0
        BY <2>3, <3>1, FS_EmptySet
      <4> QED BY <1>b, <1>d, <4>1
    <3>2. CASE e # about[h] \/ Enabled(e) # {}
      <4>1. Creating(e)' \subseteq Creating(e)
        BY <1>1, <3>2 DEF FindUser, Running, Finish, Goto, Creating
      <4> QED BY <1>0, <2>3, <4>1
    <3> QED BY <3>1, <3>2
  <2> QED BY <2>2, <2>4
<1>2. ASSUME NEW h \in Handler, CreateUser(h) PROVE NoBack /\ \A e \in Email : Few(e)
  <2>1. NoBack BY <1>2, <1>e DEF CreateUser, Goto
  <2>2. PICK u \in User \ Rows :
           users' = [users EXCEPT ![u] = [email |-> about[h], group |-> "default",
                        flow |-> local[h], time |-> limits.time, disabled |-> FALSE]]
    BY <1>2 DEF CreateUser
  <2>3. Rows' \subseteq Rows \cup {u} BY <2>2 DEF Rows
  <2>4. ASSUME NEW e \in Email PROVE Few(e)
    <3>1. CASE e = about[h]
      <4>1. h \in Creating(e) BY <1>2, <3>1 DEF CreateUser, Running, Creating
      <4>2. Creating(e)' = Creating(e) \ {h}
        BY <1>2, <3>1 DEF CreateUser, Running, Goto, Creating
      <4>3. Cardinality(Creating(e)') = Cardinality(Creating(e)) - 1
        BY <1>c, <4>1, <4>2, FS_RemoveElement
      <4>4. Enabled(e)' \subseteq Enabled(e) \cup {u}
        BY <2>2, <2>3 DEF Enabled, Rows
      <4>5. /\ IsFiniteSet(Enabled(e) \cup {u})
            /\ Cardinality(Enabled(e) \cup {u}) <= Cardinality(Enabled(e)) + 1
        <5>1. /\ IsFiniteSet(Enabled(e) \cup {u})
              /\ Cardinality(Enabled(e) \cup {u}) =
                   IF u \in Enabled(e) THEN Cardinality(Enabled(e)) ELSE Cardinality(Enabled(e)) + 1
          BY <1>a, FS_AddElement
        <5>2. Cardinality(Enabled(e)) \in Nat BY <1>a
        <5> QED BY <5>1, <5>2
      <4>6. /\ IsFiniteSet(Enabled(e)')
            /\ Cardinality(Enabled(e)') <= Cardinality(Enabled(e) \cup {u})
        BY <4>4, <4>5, FS_Subset
      <4>7. Cardinality(Enabled(e)') \in Nat /\ Cardinality(Enabled(e) \cup {u}) \in Nat
        BY <4>5, <4>6, FS_CardinalityType
      <4> QED BY <1>a, <1>b, <1>c, <1>d, <4>3, <4>5, <4>6, <4>7
    <3>2. CASE e # about[h]
      <4>1. Enabled(e)' \subseteq Enabled(e) BY <2>2, <2>3, <3>2 DEF Enabled, Rows
      <4>2. Creating(e)' \subseteq Creating(e) BY <1>2 DEF CreateUser, Goto, Creating
      <4> QED BY <1>0, <4>1, <4>2
    <3> QED BY <3>1, <3>2
  <2> QED BY <2>1, <2>4
<1>3. ASSUME NEW h \in Handler, UNCHANGED users,
             pc[h] = "create" \/ \E here \in PC \ {"create", "save"} : pc'[h] = here,
             pc'[h] # "back", \E here \in PC : pc' = [pc EXCEPT ![h] = here],
             \A k \in Handler : (k # h \/ pc[h] = "create") => about'[k] = about[k]
      PROVE NoBack /\ \A e \in Email : Few(e)
  <2>1. NoBack BY <1>3, <1>e
  <2>2. ASSUME NEW e \in Email PROVE Few(e)
    <3>1. Enabled(e)' = Enabled(e) BY <1>3 DEF Enabled, Rows
    <3>2. Creating(e)' \subseteq Creating(e) BY <1>3 DEF Creating
    <3> QED BY <1>0, <3>1, <3>2
  <2> QED BY <2>1, <2>2
<1>4. ASSUME NEW h \in Handler, NEW e \in Email, HandleEmail(h, e) \/ HandleCode(h, e)
      PROVE NoBack /\ \A d \in Email : Few(d)
  <2>1. UNCHANGED users BY <1>4 DEF HandleEmail, HandleCode, tables
  <2>2. \E here \in {"say", "find"} : pc' = [pc EXCEPT ![h] = here]
    BY <1>4 DEF HandleEmail, HandleCode, Goto
  <2>3. pc[h] = "idle" /\ \A k \in Handler : k # h => about'[k] = about[k]
    BY <1>4 DEF HandleEmail, HandleCode, MayHandle, Busy
  <2> QED BY <1>3, <2>1, <2>2, <2>3
<1>5. ASSUME NEW h \in Handler, NEW new \in Limits, HandleConfigPut(h, new)
      PROVE NoBack /\ \A e \in Email : Few(e)
  BY <1>3, <1>5 DEF HandleConfigPut, Goto, tables
<1>6. ASSUME NEW h \in Handler,
             SayCode(h) \/ InsertCode(h) \/ Greet(h) \/ EndRequest(h) \/ SetTime(h)
      PROVE NoBack /\ \A e \in Email : Few(e)
  <2>1. UNCHANGED users BY <1>6 DEF SayCode, InsertCode, Greet, EndRequest, SetTime, tables
  <2>2. \E here \in {"idle", "insert", "end"} : pc' = [pc EXCEPT ![h] = here]
    BY <1>6 DEF SayCode, InsertCode, Greet, EndRequest, SetTime, Finish, Goto
  <2>3. pc[h] # "create" /\ \A k \in Handler : k # h => about'[k] = about[k]
    BY <1>6 DEF SayCode, InsertCode, Greet, EndRequest, SetTime, Running, Finish
  <2> QED BY <1>3, <2>1, <2>2, <2>3
<1>7. ASSUME NEW h \in Handler, ReadFlow(h) PROVE NoBack /\ \A e \in Email : Few(e)
  BY <1>3, <1>7 DEF ReadFlow, Running, Goto, tables
<1>8. ASSUME NEW u \in User, RemoveUser(u) PROVE NoBack /\ \A e \in Email : Few(e)
  <2>1. NoBack BY <1>8, <1>e DEF RemoveUser, handling
  <2>2. ASSUME NEW e \in Email PROVE Few(e)
    <3>1. users' = [users EXCEPT ![u] = [users[u] EXCEPT !.disabled = TRUE]]
      BY <1>8 DEF RemoveUser
    <3>2. u \in Rows /\ users[u] \in UserRow BY <1>8 DEF RemoveUser, Rows
    <3>3. users'[u].disabled /\ \A v \in User : v # u => users'[v] = users[v]
      BY <3>1, <3>2 DEF UserRow
    <3>4. Enabled(e)' \subseteq Enabled(e) BY <3>2, <3>3 DEF Enabled, Rows
    <3>5. Creating(e)' = Creating(e) BY <1>8 DEF RemoveUser, handling, Creating
    <3> QED BY <1>0, <3>4, <3>5
  <2> QED BY <2>1, <2>2
<1>9. ASSUME UNCHANGED <<users, pc, about>> PROVE NoBack /\ \A e \in Email : Few(e)
  <2>1. \A e \in Email : Enabled(e)' = Enabled(e) /\ Creating(e)' = Creating(e)
    BY <1>9 DEF Enabled, Rows, Creating
  <2> QED BY <1>0, <1>9, <1>e, <2>1
<1>10. ASSUME \/ \E s \in Saver : SaveConfig(s) \/ SaveFails(s)
              \/ \E t \in Logger : Log(t) \/ SendLog(t)
              \/ \E e \in Email : CodeExpires(e)
              \/ TakeLog \/ PostLog \/ Boot \/ UNCHANGED <<vars, events>>
       PROVE NoBack /\ \A e \in Email : Few(e)
  <2>1. UNCHANGED <<users, pc, about>>
    BY <1>10 DEF SaveConfig, Marshal, Truncate, WriteFile, SaveFails, Log, SendLog, CodeExpires, TakeLog,
                 PostLog, Boot, vars, tables, handling
  <2> QED BY <1>9, <2>1
<1>11. CASE Crash
  <2>1. NoBack BY <1>11 DEF Crash
  <2>2. ASSUME NEW e \in Email PROVE Few(e)
    <3>1. Enabled(e)' = Enabled(e) BY <1>11 DEF Crash, tables, Enabled, Rows
    <3>2. Creating(e)' = {} BY <1>11 DEF Crash, Creating
    <3> QED BY <1>0, <3>1, <3>2
  <2> QED BY <2>1, <2>2
<1>12. ASSUME NEW h \in Handler, SaveUser(h) \/ \E g \in Group : ChangeUserGroup(h, g)
       PROVE FALSE
  BY <1>12, <1>e DEF SaveUser, Running, ChangeUserGroup, Happens, Without
<1>13. ASSUME NEW h \in Handler, Request(h) PROVE NoBack /\ \A e \in Email : Few(e)
  BY <1>4, <1>5, <1>12, <1>13 DEF Request
<1>14. ASSUME NEW h \in Handler, Handle(h) PROVE NoBack /\ \A e \in Email : Few(e)
  BY <1>1, <1>2, <1>6, <1>7, <1>12, <1>14 DEF Handle
<1>15. NoBack /\ \A e \in Email : Few(e)
  <2>1. CASE UNCHANGED <<vars, events>> BY <1>10, <2>1
  <2>2. CASE WebNext BY <1>8, <1>10, <1>11, <1>13, <1>14, <2>2 DEF WebNext
  <2> QED BY <2>1, <2>2
<1> QED BY <1>15

\* However requests overlap and users are disabled and log in again, an e-mail
\* address has no more enabled users than requests at a time.
THEOREM UsersAreLimited == WebSpec => []OneUser
<1>1. WebInit => OneByOne BY DEF WebInit, OneByOne, Busy
<1>2. TypeInv /\ UserInv /\ OneByOne => OneUser
  <2> SUFFICES ASSUME TypeInv, UserInv, OneByOne, Without({"change"}), NEW e \in Email
               PROVE Cardinality(Enabled(e)) <= AtOnce
    BY DEF OneUser
  <2>1. Creating(e) \in SUBSET Busy /\ Busy \in SUBSET Handler BY DEF Creating, Busy
  <2>2. Cardinality(Creating(e)) \in Nat BY <2>1, FewBusy DEF OneByOne
  <2>3. Cardinality(Enabled(e)) \in Nat BY FS_CardinalityType DEF UserInv
  <2> QED BY <2>2, <2>3, AtOnceType DEF UserInv
<1> QED
  BY <1>1, <1>2, TypeInit, TypeStep, OneByOneStep, UserInit, UserStep, PTL DEF WebSpec

\* The master's log never keeps everybody who logs waiting.
THEOREM MasterRuns == WebSpec => []NotAllBlocked
BY MasterLogs, SomebodyRuns, PTL
=============================================================================
