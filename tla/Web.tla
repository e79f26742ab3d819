-------------------------------- MODULE Web --------------------------------
(***************************************************************************)
(* The master's request handlers (master/web.go) with what they change:    *)
(* the tables verify_code and users, the limits of the default group, the  *)
(* configuration file, and the log, whose hook may keep them waiting.      *)
(*                                                                         *)
(* iris runs a handler per request; every query, and every access to the   *)
(* configuration, is a step of its own.  Handlers that only read, sessions *)
(* and mail are left out; Allocation has what the goroutines of CreateUser *)
(* and ChangeUserGroup do.                                                 *)
(***************************************************************************)
EXTENDS LogHook, FiniteSets

CONSTANTS
    Email,
    User,       \* ids of users; First() takes the smallest one
    Handler,    \* goroutines that handle requests
    Saver,      \* goroutines of handleConfigPut that save the configuration
    Limit,      \* values of a limit of flow or time
    FirstLimits,\* the limits of the default group in the first configuration
    VipLimits,  \* the limits of the other group
    MaxSent,    \* codes an e-mail address may be sent in a while; 3 in the code
    Regimes,    \* environments: sets of the events that may happen in one
    MaxEvents,  \* bound on all of these events but login, overlap and resave
    None, Torn  \* Torn: a configuration file that does not parse

Limits == [flow : Limit, time : Limit]
Group == {"default", "vip"}
UserRow == [email : Email, group : Group, flow : Limit, time : Limit, disabled : BOOLEAN]

ASSUME HandlersLog == Handler \subseteq Logger
ASSUME HandlersAreFinite == IsFiniteSet(Handler)
ASSUME SomeCodes == MaxSent \in Nat \ {0}
ASSUME UsersAreOrdered == User \subseteq Nat
ASSUME EventsAreCounted == MaxEvents \in Nat
ASSUME LimitsType == FirstLimits \in Limits /\ VipLimits \in Limits

\* What may happen in a behaviour, chosen once and for all.  login: people ask
\* for codes and log in.  overlap: requests are handled at the same time.  put:
\* the admin changes the configuration.  resave: and does so again before it
\* is saved.  diskfail: the configuration file cannot be written.  change: the
\* admin changes a user's group.  limit: users are disabled.  crash: the master
\* dies.
VARIABLE events

VARIABLES
    fresh,      \* table verify_code: [Email -> how many codes have not expired]
    users,      \* table users: [User -> UserRow or None]
    limits,     \* the limits of the default group, in memory
    file,       \* these limits in the configuration file, or Torn
    pc,         \* per handler: where it is
    about,      \* per handler: its e-mail address or user
    local,      \* per handler: a limit or row it has read
    saver,      \* per saver: where it is
    data,       \* per saver: the limits it has marshalled
    lost,       \* history: saving failed or was cut off, and was not made up for
    up,         \* is the master running
    happened

tables == <<fresh, users>>
config == <<limits, file, saver, data, lost>>
handling == <<pc, about, local>>
vars == <<logging, tables, config, handling, up, happened>>

PC == {"idle", "say", "insert", "find", "create", "save", "greet", "end", "time", "back"}

WebTypeOK ==
    /\ LogTypeOK
    /\ fresh \in [Email -> Nat] /\ users \in [User -> UserRow \cup {None}]
    /\ limits \in Limits /\ file \in Limits \cup {Torn}
    /\ pc \in [Handler -> PC]
    /\ about \in [Handler -> Email \cup User \cup {None}]
    /\ local \in [Handler -> Limit \cup UserRow \cup {None}]
    /\ saver \in [Saver -> {"off", "marshal", "open", "write"}]
    /\ data \in [Saver -> Limits \cup {None}]
    /\ lost \in BOOLEAN /\ up \in BOOLEAN /\ happened \in 0 .. MaxEvents

WebInit ==
    /\ events \in Regimes /\ LogInit
    /\ fresh = [e \in Email |-> 0] /\ users = [u \in User |-> None]
    /\ limits = FirstLimits /\ file = FirstLimits
    /\ pc = [h \in Handler |-> "idle"]
    /\ about = [h \in Handler |-> None] /\ local = [h \in Handler |-> None]
    /\ saver = [s \in Saver |-> "off"] /\ data = [s \in Saver |-> None]
    /\ lost = FALSE /\ up = TRUE /\ happened = 0

Happens(kind) ==
    /\ kind \in events /\ happened < MaxEvents
    /\ happened' = happened + 1

Goto(h, here) == pc' = [pc EXCEPT ![h] = here]

Finish(h) ==
    /\ Goto(h, "idle")
    /\ about' = [about EXCEPT ![h] = None]
    /\ local' = [local EXCEPT ![h] = None]

Busy == {h \in Handler : pc[h] # "idle"}
MayHandle(h) == up /\ h \notin Busy /\ ("overlap" \in events \/ Busy = {})

\* A handler goes on when it is not waiting for the log.
Running(h, here) == pc[h] = here /\ at[h] = "run"

-----------------------------------------------------------------------------
(* handleEmail *)

\* Bug: one code too many.
MayCountTo(e) == fresh[e] <= MaxSent

\* Other requests are answered 403.
MaySend(e) == fresh[e] < MaxSent

HandleEmail(h, e) ==
    /\ MayHandle(h) /\ "login" \in events /\ MaySend(e)
    /\ Goto(h, "say")
    /\ about' = [about EXCEPT ![h] = e]
    /\ UNCHANGED <<logging, tables, config, local, up, happened>>

SayCode(h) ==
    /\ Running(h, "say")
    /\ Fire(h) /\ Goto(h, "insert")
    /\ UNCHANGED <<tables, config, about, local, up, happened>>

InsertCode(h) ==
    /\ Running(h, "insert")
    /\ fresh' = [fresh EXCEPT ![about[h]] = @ + 1]
    /\ Finish(h)
    /\ UNCHANGED <<logging, users, config, up, happened>>

\* verifyCodeExpire seconds after it was sent
CodeExpires(e) ==
    /\ fresh[e] > 0
    /\ fresh' = [fresh EXCEPT ![e] = @ - 1]
    /\ UNCHANGED <<logging, users, config, handling, up, happened>>

-----------------------------------------------------------------------------
(* handleCode, CreateUser *)

Rows == {u \in User : users[u] # None}
Enabled(e) == {u \in Rows : users[u].email = e /\ ~users[u].disabled}

\* A bound of the model: there is an id for whoever may create a user.
SpareUser ==
    Cardinality(User \ Rows) > Cardinality({h \in Handler : pc[h] \in {"find", "create", "save"}})

HandleCode(h, e) ==
    /\ MayHandle(h) /\ "login" \in events /\ fresh[e] > 0 /\ SpareUser
    /\ Goto(h, "find")
    /\ about' = [about EXCEPT ![h] = e]
    /\ UNCHANGED <<logging, tables, config, local, up, happened>>

\* Bug: users are not looked for.
FindNobody(h) ==
    /\ Running(h, "find")
    /\ Goto(h, "create") /\ UNCHANGED <<about, local>>
    /\ UNCHANGED <<logging, tables, config, up, happened>>

FindUser(h) ==
    /\ Running(h, "find")
    /\ \/ Enabled(about[h]) # {} /\ Finish(h)
       \/ Enabled(about[h]) = {} /\ Goto(h, "create") /\ UNCHANGED <<about, local>>
    /\ UNCHANGED <<logging, tables, config, up, happened>>

\* CreateUser reads one limit
ReadFlow(h) ==
    /\ Running(h, "create")
    /\ local' = [local EXCEPT ![h] = limits.flow]
    /\ Goto(h, "save")
    /\ UNCHANGED <<logging, tables, config, about, up, happened>>

\* and the other, and inserts the user.
CreateUser(h) ==
    /\ Running(h, "save")
    /\ \E u \in User \ Rows :
          users' = [users EXCEPT ![u] = [email |-> about[h], group |-> "default",
                       flow |-> local[h], time |-> limits.time, disabled |-> FALSE]]
    /\ Goto(h, "greet")
    /\ UNCHANGED <<logging, fresh, config, about, local, up, happened>>

Greet(h) ==
    /\ Running(h, "greet")
    /\ Fire(h) /\ Goto(h, "end")
    /\ UNCHANGED <<tables, config, about, local, up, happened>>

EndRequest(h) ==
    /\ Running(h, "end")
    /\ Finish(h)
    /\ UNCHANGED <<logging, tables, config, up, happened>>

\* checkUserLimit
RemoveUser(u) ==
    /\ up /\ u \in Rows /\ ~users[u].disabled /\ Happens("limit")
    /\ users' = [users EXCEPT ![u].disabled = TRUE]
    /\ UNCHANGED <<logging, fresh, config, handling, up>>

-----------------------------------------------------------------------------
(* handleUserPut, ChangeUserGroup: the first user, whatever user was meant, *)
(* gets the group, its flow, and the time of the default group.             *)

FlowOf(g) == IF g = "default" THEN limits.flow ELSE VipLimits.flow

ChangeUserGroup(h, g) ==
    /\ MayHandle(h) /\ Happens("change")
    /\ \E u \in Rows :
          /\ \A v \in Rows : u <= v
          /\ about' = [about EXCEPT ![h] = u]
          /\ local' = [local EXCEPT ![h] =
                [users[u] EXCEPT !.group = g, !.flow = FlowOf(g), !.time = limits.time]]
    /\ Goto(h, "back")
    /\ UNCHANGED <<logging, tables, config, up>>

SaveUser(h) ==
    /\ Running(h, "back")
    /\ users' = [users EXCEPT ![about[h]] = local[h]]
    /\ Finish(h)
    /\ UNCHANGED <<logging, fresh, config, up, happened>>

-----------------------------------------------------------------------------
(* handleConfigPut, and the goroutine that saves the configuration.        *)

Saving == {s \in Saver : saver[s] # "off"}
Putting == {h \in Handler : pc[h] = "time"}

\* Without resave nobody changes the configuration before it is saved.
MayPut ==
    IF "resave" \in events THEN Cardinality(Saver \ Saving) > Cardinality(Putting)
    ELSE Saving = {} /\ Putting = {}

HandleConfigPut(h, new) ==
    /\ MayHandle(h) /\ MayPut /\ Happens("put")
    /\ limits' = [limits EXCEPT !.flow = new.flow]
    /\ local' = [local EXCEPT ![h] = new.time]
    /\ Goto(h, "time")
    /\ UNCHANGED <<logging, tables, file, saver, data, lost, about, up>>

SetTime(h) ==
    /\ Running(h, "time")
    /\ limits' = [limits EXCEPT !.time = local[h]]
    /\ \E s \in Saver \ Saving : saver' = [saver EXCEPT ![s] = "marshal"]
    /\ Finish(h)
    /\ UNCHANGED <<logging, tables, file, data, lost, up, happened>>

\* Bug: what was read from the file is marshalled.
MarshalOld(s) ==
    /\ saver[s] = "marshal"
    /\ data' = [data EXCEPT ![s] = IF file = Torn THEN limits ELSE file]
    /\ saver' = [saver EXCEPT ![s] = "open"]
    /\ UNCHANGED <<logging, tables, limits, file, lost, handling, up, happened>>

\* Bug: nothing is marshalled.
MarshalFails(s) ==
    /\ saver[s] = "marshal"
    /\ saver' = [saver EXCEPT ![s] = "open"]
    /\ UNCHANGED <<logging, tables, limits, file, data, lost, handling, up, happened>>

Marshal(s) ==
    /\ saver[s] = "marshal"
    /\ data' = [data EXCEPT ![s] = limits]
    /\ saver' = [saver EXCEPT ![s] = "open"]
    /\ UNCHANGED <<logging, tables, limits, file, lost, handling, up, happened>>

\* WriteFile truncates the file and writes it through its own descriptor.
Truncate(s) ==
    /\ saver[s] = "open"
    /\ file' = Torn
    /\ saver' = [saver EXCEPT ![s] = "write"]
    /\ UNCHANGED <<logging, tables, limits, data, lost, handling, up, happened>>

EndSaving(s) ==
    /\ saver' = [saver EXCEPT ![s] = "off"]
    /\ data' = [data EXCEPT ![s] = None]

\* A shorter configuration over a longer one that another saver has written
\* since leaves the other's end behind.
WriteFile(s) ==
    /\ saver[s] = "write"
    /\ file' = data[s] \/ (file \notin {Torn, data[s]} /\ file' = Torn)
    /\ lost' = FALSE
    /\ EndSaving(s)
    /\ UNCHANGED <<logging, tables, limits, handling, up, happened>>

\* The file cannot be opened, or written in full, and the goroutine warns (see
\* Log) and ends.
SaveFails(s) ==
    /\ saver[s] \in {"open", "write"} /\ Happens("diskfail")
    /\ file' = file \/ (saver[s] = "write" /\ file' = Torn)
    /\ lost' = TRUE
    /\ EndSaving(s)
    /\ UNCHANGED <<logging, tables, limits, handling, up>>

-----------------------------------------------------------------------------
(* The log, and the end and the start of the master.                       *)

\* Somebody else logs: Monitoring, a goroutine that sends mail, or one that
\* failed to save the configuration.
Log(t) ==
    /\ t \in Logger \ Handler /\ up
    /\ Fire(t)
    /\ UNCHANGED <<tables, config, handling, up, happened>>

SendLog(t) == Send(t) /\ UNCHANGED <<tables, config, handling, up, happened>>
TakeLog == Take /\ UNCHANGED <<tables, config, handling, up, happened>>
PostLog == Post /\ UNCHANGED <<tables, config, handling, up, happened>>

Crash ==
    /\ up /\ Happens("crash")
    /\ up' = FALSE
    /\ LogReset
    /\ pc' = [h \in Handler |-> "idle"]
    /\ about' = [h \in Handler |-> None] /\ local' = [h \in Handler |-> None]
    /\ saver' = [s \in Saver |-> "off"] /\ data' = [s \in Saver |-> None]
    /\ lost' = (lost \/ Saving # {} \/ Putting # {})
    /\ UNCHANGED <<tables, limits, file>>

\* Without a configuration that parses main() ends at once.
Boot ==
    /\ ~up /\ file # Torn
    /\ up' = TRUE
    /\ limits' = file
    /\ lost' = FALSE
    /\ UNCHANGED <<logging, tables, file, saver, data, handling, happened>>

-----------------------------------------------------------------------------
Request(h) ==
    \/ \E e \in Email : HandleEmail(h, e) \/ HandleCode(h, e)
    \/ \E g \in Group : ChangeUserGroup(h, g)
    \/ \E new \in Limits : HandleConfigPut(h, new)

Handle(h) ==
    \/ SayCode(h) \/ InsertCode(h) \/ FindUser(h) \/ ReadFlow(h) \/ CreateUser(h)
    \/ Greet(h) \/ EndRequest(h) \/ SaveUser(h) \/ SetTime(h)

SaveConfig(s) == Marshal(s) \/ Truncate(s) \/ WriteFile(s)

WebNext ==
    /\ \/ \E h \in Handler : Request(h) \/ Handle(h)
       \/ \E s \in Saver : SaveConfig(s) \/ SaveFails(s)
       \/ \E t \in Logger : Log(t) \/ SendLog(t)
       \/ \E e \in Email : CodeExpires(e)
       \/ \E u \in User : RemoveUser(u)
       \/ TakeLog \/ PostLog \/ Crash \/ Boot
    /\ UNCHANGED events

WebSpec == WebInit /\ [][WebNext]_<<vars, events>>
-----------------------------------------------------------------------------
(* Properties *)

Without(kinds) == events \cap kinds = {}

\* How many requests are handled at the same time.
AtOnce == IF Without({"overlap"}) THEN 1 ELSE Cardinality(Handler)

\* An e-mail address is not sent more than MaxSent codes in verifyCodeExpire
\* seconds; handleEmail counts before it inserts, so requests that overlap may
\* each add one beyond the first that reaches the limit, and no more.
SentLimit == \A e \in Email : fresh[e] < MaxSent + AtOnce

\* An e-mail address has one enabled user; handleCode looks before it creates,
\* so requests that overlap may each create one, but however users are
\* disabled and log in again there are never more. ChangeUserGroup breaks this
\* since it may enable a disabled user again.
OneUser == Without({"change"}) => \A e \in Email : Cardinality(Enabled(e)) <= AtOnce

\* Whenever nobody changes or saves the configuration the file says what is, or
\* was when the master died, in memory, unless the last attempt to save it
\* failed or was cut off (handleConfigPut: "Save into config file").
ConfigSaved == Saving = {} /\ Putting = {} => file = limits \/ lost

\* That is so if the configuration is not changed again before it is saved: a
\* file that lags behind or does not parse, so that the master cannot boot, is
\* due to a write that failed or a crash while somebody was saving, and the next
\* save that is completed makes up for it.
ConfigKept == Without({"resave"}) => ConfigSaved

\* A request comes to its end, although it logs to a queue that others fill,
\* as long as Slack answers.
RequestsEnd == \A h \in Handler : pc[h] # "idle" ~> pc[h] = "idle"

\* Handlers and the goroutines of savers and of the hook are scheduled, queries
\* return, and Slack answers or refuses. Who waits to send into a channel is
\* served in turn.
WebFairSpec ==
    /\ WebSpec
    /\ \A h \in Handler : WF_vars(Handle(h))
    /\ \A s \in Saver : WF_vars(SaveConfig(s))
    /\ \A t \in Logger : SF_vars(SendLog(t))
    /\ WF_vars(TakeLog) /\ WF_vars(PostLog)
=============================================================================
