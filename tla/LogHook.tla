------------------------------ MODULE LogHook ------------------------------
(***************************************************************************)
(* The logrus hook that sends the master's log to Slack                    *)
(* (master/slack/slackrus.go): whoever logs calls Fire, which puts the     *)
(* entry into a bounded channel, and one goroutine posts the entries, one  *)
(* after the other.  logrus calls its hooks without a lock.                *)
(***************************************************************************)
EXTENDS Naturals

CONSTANTS
    Logger,     \* goroutines that log
    Cap         \* capacity of msgQ; 200 in the code

ASSUME CapType == Cap \in Nat \ {0}

VARIABLES
    queued,     \* entries in msgQ
    posting,    \* is the goroutine posting an entry
    at          \* [Logger -> "run", or "send" if Fire has found room in msgQ]

logging == <<queued, posting, at>>

LogTypeOK ==
    /\ queued \in 0 .. Cap
    /\ posting \in BOOLEAN
    /\ at \in [Logger -> {"run", "send"}]

LogInit ==
    /\ queued = 0 /\ posting = FALSE
    /\ at = [t \in Logger |-> "run"]

Full == queued = Cap

\* Bug: the queue is not looked at.
FireBlind(t) ==
    /\ at[t] = "run"
    /\ at' = [at EXCEPT ![t] = "send"]
    /\ UNCHANGED <<queued, posting>>

\* An entry is dropped if the queue is full,
Fire(t) ==
    /\ at[t] = "run"
    /\ at' = [at EXCEPT ![t] = IF Full THEN "run" ELSE "send"]
    /\ UNCHANGED <<queued, posting>>

\* else it is sent, which blocks if the queue was filled in between.
Send(t) ==
    /\ at[t] = "send" /\ ~Full
    /\ queued' = queued + 1
    /\ at' = [at EXCEPT ![t] = "run"]
    /\ UNCHANGED posting

Take ==
    /\ ~posting /\ queued > 0
    /\ posting' = TRUE
    /\ queued' = queued - 1
    /\ UNCHANGED at

\* Bug: the failure is logged like everything else.
PostAndLog ==
    /\ posting /\ ~Full
    /\ posting' = FALSE
    /\ queued' = queued + 1
    /\ UNCHANGED at

\* Slack answers, or the request fails.
Post ==
    /\ posting
    /\ posting' = FALSE
    /\ UNCHANGED <<queued, at>>

\* The program exits, with whatever is in the queue, and starts again.
LogReset ==
    /\ queued' = 0 /\ posting' = FALSE
    /\ at' = [t \in Logger |-> "run"]

LogNext ==
    \/ \E t \in Logger : Fire(t) \/ Send(t)
    \/ Take \/ Post \/ LogReset

LogSpec == LogInit /\ [][LogNext]_logging

\* Room that was there when Fire looked may be gone when it sends, but never
\* for all: of the goroutines that race for the last place the one that gets
\* it goes on, and while the queue is full Fire keeps nobody.
NotAllBlocked == Full => \E t \in Logger : at[t] = "run"
=============================================================================
