------------------------------ MODULE Shutdown ------------------------------
(***************************************************************************)
(* The listener when it is told to stop. The worker then accepts nothing   *)
(* more and goes on with what it has; gunicorn waits for graceful_timeout  *)
(* and kills what is left. How long that is against the timeout of an      *)
(* extraction decides who is answered, so there is a clock here: it runs   *)
(* while everything waits for clients or for children, and the steps in    *)
(* between take no time. There are no other deaths of the worker.          *)
(***************************************************************************)
EXTENDS Listener

CONSTANTS
    ExtractTimeout,  \* SR_EXTRACT_TIMEOUT_SECONDS, in units of the model
    GracefulTimeout  \* SR_GUNICORN_GRACEFUL_TIMEOUT, in the same units

ASSUME TimeoutsAssumption == ExtractTimeout \in Nat \ {0} /\ GracefulTimeout \in Nat

VARIABLES
    elapsed,  \* elapsed[c]: how long the child of c's job has run
    grace,    \* how long ago the worker was told to stop, -1 if it was not
    owed      \* the requests that had a slot then

stopVars == <<vars, elapsed, grace, owed>>

Stopping == grace >= 0

StopInit == /\ Init
            /\ elapsed = [c \in Clients |-> 0]
            /\ grace = -1
            /\ owed = {}
-----------------------------------------------------------------------------
\* A child that has just been started has run for no time.
KeepTime == /\ elapsed' = [c \in Clients |-> IF pc'[c] = "running" THEN elapsed[c] ELSE 0]
            /\ UNCHANGED <<grace, owed>>

\* The listening socket is closed first.
Accept(c) == ~Stopping /\ Post(c) /\ KeepTime

Proceed(c) ==
    /\ \/ CheckHeader(c, "ok") \/ Refuse(c) \/ FailToParse(c) \/ Admit(c) \/ Respond(c)
       \/ SkipExtraction(c) \/ Spawn(c) \/ ChildExits(c) \/ Classify(c)
    /\ KeepTime

TakeJob == StartJob /\ KeepTime

\* Mistake: the child is given more time than was configured.
DueLate(c) == pc[c] = "running" /\ elapsed[c] > ExtractTimeout

Due(c) == pc[c] = "running" /\ elapsed[c] >= ExtractTimeout

Expire(c) == Due(c) /\ Timeout(c) /\ KeepTime

\* SIGTERM, from a stop of the container or of gunicorn.
Stop ==
    /\ up /\ ~Stopping
    /\ grace' = 0
    /\ owed' = Holders
    /\ UNCHANGED <<vars, elapsed>>

\* The worker is done, or its time is up.
Leave ==
    /\ Stopping
    /\ (\A c \in Clients : pc[c] = "idle") \/ grace >= GracefulTimeout
    /\ Crash
    /\ KeepTime

ComeBack ==
    /\ Restart
    /\ grace' = -1
    /\ owed' = {}
    /\ UNCHANGED elapsed

Settled == /\ \A c \in Clients : pc[c] \notin {"thread", "exited", "returned"} /\ ~Due(c)
           /\ queue = <<>> \/ Cardinality(Busy) >= PoolSize

Tick ==
    /\ up /\ Settled
    /\ Stopping => grace < GracefulTimeout
    /\ elapsed' = [c \in Clients |-> IF pc[c] = "running" THEN elapsed[c] + 1 ELSE 0]
    /\ grace' = IF Stopping THEN grace + 1 ELSE grace
    /\ UNCHANGED <<vars, owed>>

StopNext ==
    \/ \E c \in Clients : Accept(c) \/ Proceed(c) \/ Expire(c)
    \/ TakeJob \/ Stop \/ Leave \/ ComeBack \/ Tick
    \/ OrphanExits /\ KeepTime

StopSpec == StopInit /\ [][StopNext]_stopVars
-----------------------------------------------------------------------------
(* Properties                                                              *)

\* The design of v2: "a legitimate long extraction is never killed by gunicorn;
\* graceful-timeout configured accordingly". Who has a slot when the worker is
\* told to stop is answered before it goes, however long its child takes.
StoppedKindly == \A c \in owed : answer[c] # "lost"
=============================================================================
