--------------------------- MODULE LegacyListener ---------------------------
(***************************************************************************)
(* do_POST of the v1 listener, old/src/listener.py: a thread for every     *)
(* connection, and a semaphore that extractions acquire without waiting.   *)
(*                                                                         *)
(* v2 took the webhook's contract over from it: what Webhook promises is   *)
(* shown of both. Here an alert is parsed before the gate, the slot is     *)
(* given back before the client is answered, and every step may interleave *)
(* with those of other threads.                                            *)
(***************************************************************************)
EXTENDS Integers, FiniteSets

CONSTANTS
    Clients,       \* connections that post alerts, again and again
    MaxConcurrent  \* max_concurrent_extractions as configured

ASSUME ClientsAssumption == IsFiniteSet(Clients)
ASSUME LimitAssumption   == MaxConcurrent \in Int

VARIABLES
    sem,     \* the value of _EXTRACT_SEM
    pc,      \* pc[c]: how far the thread of c's request has come
    outcome, \* outcome[c]: what run_extraction came to, "text" or "raised"
    answer   \* answer[c]: the status c got last, "lost" if there was none

vars == <<sem, pc, outcome, answer>>

\* MAX_CONCURRENT
Limit == IF MaxConcurrent < 1 THEN 1 ELSE MaxConcurrent

Extracting == {"extracting", "running", "exited", "returned"}
Steps      == Extracting \union {"idle", "accepted", "body", "parsed", "released"}
Rejections == {"400", "401", "411", "413", "500"}
Statuses   == Rejections \union {"none", "200", "429", "lost"}

Holders == {c \in Clients : pc[c] \in Extracting}

Init ==
    /\ sem = Limit
    /\ pc = [c \in Clients |-> "idle"]
    /\ outcome = [c \in Clients |-> "none"]
    /\ answer = [c \in Clients |-> "none"]
-----------------------------------------------------------------------------
Goto(c, step) == pc' = [pc EXCEPT ![c] = step]

\* The thread ends with its answer.
Reply(c, status) ==
    /\ Goto(c, "idle")
    /\ answer' = [answer EXCEPT ![c] = status]
    /\ outcome' = [outcome EXCEPT ![c] = "none"]
    /\ UNCHANGED sem

\* ThreadingHTTPServer starts a thread for a new connection.
Accept(c) ==
    /\ pc[c] = "idle"
    /\ Goto(c, "accepted")
    /\ answer' = [answer EXCEPT ![c] = "none"]
    /\ UNCHANGED <<sem, outcome>>

\* Credentials and Content-Length. A length that is no number raises outside of
\* the try, and the connection is dropped.
CheckHeaders(c) ==
    /\ pc[c] = "accepted"
    /\ \/ \E status \in {"401", "411", "413", "lost"} : Reply(c, status)
       \/ Goto(c, "body") /\ UNCHANGED <<sem, outcome, answer>>

\* The body has come, or the client has gone. It is empty or no JSON; or it is
\* parsed, which raises for what is no object and for an impossible time.
ReadBody(c) ==
    /\ pc[c] = "body"
    /\ \/ \E status \in {"400", "500", "lost"} : Reply(c, status)
       \/ Goto(c, "parsed") /\ UNCHANGED <<sem, outcome, answer>>

\* Mistake: the semaphore counts one slot too many.
AvailableLate == sem >= 0

Available == sem > 0

\* acquire(blocking=False)
Acquire(c) ==
    /\ pc[c] = "parsed"
    /\ IF Available
       THEN /\ sem' = sem - 1
            /\ Goto(c, "extracting")
            /\ UNCHANGED <<outcome, answer>>
       ELSE Reply(c, "429")

Return(c, what) ==
    /\ Goto(c, "returned")
    /\ outcome' = [outcome EXCEPT ![c] = what]
    /\ UNCHANGED <<sem, answer>>

\* There is no filter, or the directory cannot be made.
Skip(c) == pc[c] = "extracting" /\ \E what \in {"text", "raised"} : Return(c, what)

\* subprocess.run raises if there is no npcapextract.
Spawn(c) ==
    /\ pc[c] = "extracting"
    /\ \/ Goto(c, "running") /\ UNCHANGED <<sem, outcome, answer>>
       \/ Return(c, "raised")

ChildExits(c) ==
    /\ pc[c] = "running"
    /\ Goto(c, "exited")
    /\ UNCHANGED <<sem, outcome, answer>>

\* Mistake: subprocess.run without its timeout.
TimeoutNever(c) == FALSE

Timeout(c) == pc[c] = "running" /\ Return(c, "text")

\* It raises if the file vanishes before it is sized.
Classify(c) == pc[c] = "exited" /\ \E what \in {"text", "raised"} : Return(c, what)

\* Mistake: release() without the finally.
ReleaseUnlessRaised(c) ==
    /\ pc[c] = "returned"
    /\ sem' = IF outcome[c] = "text" THEN sem + 1 ELSE sem
    /\ Goto(c, "released")
    /\ UNCHANGED <<outcome, answer>>

Release(c) ==
    /\ pc[c] = "returned"
    /\ sem' = sem + 1
    /\ Goto(c, "released")
    /\ UNCHANGED <<outcome, answer>>

Status(c) == IF outcome[c] = "raised" THEN "500" ELSE "200"

Respond(c) == pc[c] = "released" /\ Reply(c, Status(c))

Thread(c) == \/ CheckHeaders(c) \/ ReadBody(c) \/ Acquire(c)
             \/ Skip(c) \/ Spawn(c) \/ Timeout(c) \/ Classify(c)
             \/ Release(c) \/ Respond(c)

Next == \E c \in Clients : Accept(c) \/ Thread(c) \/ ChildExits(c)

Safe == Init /\ [][Next]_vars

\* The threads are scheduled and the timeout fires. Nothing is assumed of a
\* child, and a client need not send what it announced.
Spec == /\ Safe
        /\ \A c \in Clients :
              /\ WF_vars(Skip(c) \/ Spawn(c))
              /\ WF_vars(Timeout(c))
              /\ WF_vars(Classify(c))
              /\ WF_vars(Release(c))
              /\ WF_vars(Respond(c))
-----------------------------------------------------------------------------
(* Properties                                                              *)

\* Every variable keeps to its type.
TypeOK ==
    /\ sem \in Nat
    /\ pc \in [Clients -> Steps]
    /\ outcome \in [Clients -> {"none", "text", "raised"}]
    /\ answer \in [Clients -> Statuses]

\* However the threads interleave and whatever they raise, the semaphore has
\* exactly the slots that no extraction holds.
SlotsExact == sem = Limit - Cardinality(Holders)

\* A thread that got a slot gives it back and answers, also if its child hangs.
AdmittedAnswered ==
    \A c \in Clients : pc[c] = "extracting" ~> pc[c] = "idle"

\* Each exchange as it stands with the listener: an answer that only remains to
\* be sent no longer counts against the limit.
Exchange == [c \in Clients |-> IF pc[c] = "idle" THEN answer[c]
                               ELSE IF pc[c] = "released" THEN Status(c)
                               ELSE IF pc[c] \in Extracting THEN "admitted"
                               ELSE "open"]

Promise == INSTANCE Webhook WITH exchange <- Exchange

\* v1 keeps the promise of v2's webhook, with 401 besides: SPEC.md calls the
\* contract that of v1, and one specification holds of both.
KeepsPromise == Promise!Spec
=============================================================================
