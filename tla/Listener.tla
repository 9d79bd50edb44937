------------------------------ MODULE Listener ------------------------------
(***************************************************************************)
(* The webhook service of src/sycope_recorder/api.py: the extract()        *)
(* handler as a coroutine of one event loop, the counting gate             *)
(* app.state.active_extractions, the default thread pool its               *)
(* run_in_executor call hands the extraction to, the npcapextract child of *)
(* every running extraction, and the death and restart of the one gunicorn *)
(* worker all of that lives in.                                            *)
(*                                                                         *)
(* A step of a handler is what it does between two awaits; the test of the *)
(* gate and the increment are one step because no await separates them.    *)
(* What run_extraction does inside its thread is reduced to whether and    *)
(* when it runs a child and whether it returns a text or raises; Extraction*)
(* has the rest.                                                           *)
(***************************************************************************)
EXTENDS Integers, Sequences, FiniteSets

CONSTANTS
    Clients,                   \* connections that post alerts, again and again
    MaxConcurrentExtractions,  \* SR_MAX_CONCURRENT_EXTRACTIONS as configured
    PoolSize,                  \* threads of the loop's default executor
    MaxOrphans                 \* BOUND on orphaned npcapextract processes

ASSUME ClientsAssumption == IsFiniteSet(Clients)
ASSUME LimitAssumption   == MaxConcurrentExtractions \in Int
ASSUME PoolAssumption    == PoolSize \in Nat \ {0}
ASSUME OrphanAssumption  == MaxOrphans \in Nat

VARIABLES
    up,       \* the gunicorn worker is alive
    active,   \* app.state.active_extractions
    pc,       \* pc[c]: how far the handler of c's request has come
    answer,   \* answer[c]: the status c got last, "lost" if none will come
    returned, \* returned[c]: what the future of c's job holds
    queue,    \* the executor's work queue
    orphans   \* npcapextract processes whose worker died

vars == <<up, active, pc, answer, returned, queue, orphans>>

\* Settings lifts a configured limit below 1 to 1.
Limit == IF MaxConcurrentExtractions < 1 THEN 1 ELSE MaxConcurrentExtractions

InThread == {"thread", "running", "exited"}
Holding  == InThread \union {"queued", "returned"}
Steps    == Holding \union {"idle", "posted", "body"}
Statuses == {"none", "200", "400", "411", "413", "429", "500", "lost"}

Holders == {c \in Clients : pc[c] \in Holding}   \* requests inside the try
Busy    == {c \in Clients : pc[c] \in InThread}  \* threads of the pool at work
Running == {c \in Clients : pc[c] = "running"}   \* npcapextract processes

Init ==
    /\ up = TRUE
    /\ active = 0
    /\ pc = [c \in Clients |-> "idle"]
    /\ answer = [c \in Clients |-> "none"]
    /\ returned = [c \in Clients |-> "none"]
    /\ queue = <<>>
    /\ orphans = 0
-----------------------------------------------------------------------------
(* The handler, on the event loop                                          *)

Goto(c, step) == pc' = [pc EXCEPT ![c] = step]

Reply(c, status) ==
    /\ Goto(c, "idle")
    /\ answer' = [answer EXCEPT ![c] = status]

\* A request arrives and a task for its handler is created.
Post(c) ==
    /\ up
    /\ pc[c] = "idle"
    /\ Goto(c, "posted")
    /\ answer' = [answer EXCEPT ![c] = "none"]
    /\ UNCHANGED <<up, active, returned, queue, orphans>>

\* The Content-Length checks, up to the await of the body.
CheckHeader(c, length) ==
    /\ pc[c] = "posted"
    /\ \/ length = "missing"   /\ Reply(c, "411")
       \/ length = "not an int" /\ Reply(c, "400")
       \/ length = "too large" /\ Reply(c, "413")
       \/ length = "ok"        /\ Goto(c, "body") /\ UNCHANGED answer
    /\ UNCHANGED <<up, active, returned, queue, orphans>>

\* The body does not pass the checks that come before the gate.
RejectBody(c) ==
    /\ pc[c] = "body"
    /\ Reply(c, "400")
    /\ UNCHANGED <<up, active, returned, queue, orphans>>

\* Mistake: one slot too many.
GateFullLate == active > Limit

GateFull == active >= Limit

Refuse(c) ==
    /\ pc[c] = "body"
    /\ GateFull
    /\ Reply(c, "429")
    /\ UNCHANGED <<up, active, returned, queue, orphans>>

\* Mistake: the early way out does not give the slot back.
FailToParseLeaking(c) ==
    /\ pc[c] = "body"
    /\ ~GateFull
    /\ active' = active + 1
    /\ Reply(c, "500")
    /\ UNCHANGED <<up, returned, queue, orphans>>

\* JSON that is no object: the slot is taken, parse_alert raises, and the
\* finally clause gives the slot back, all without an await.
FailToParse(c) ==
    /\ pc[c] = "body"
    /\ ~GateFull
    /\ active' = (active + 1) - 1
    /\ Reply(c, "500")
    /\ UNCHANGED <<up, returned, queue, orphans>>

\* Mistake: an await between the test and the increment, so the test is stale.
AdmitUnchecked(c) ==
    /\ pc[c] = "body"
    /\ active' = active + 1
    /\ Goto(c, "queued")
    /\ queue' = Append(queue, c)
    /\ UNCHANGED <<up, answer, returned, orphans>>

\* An alert takes a slot and its extraction is handed to the executor.
Admit(c) ==
    /\ pc[c] = "body"
    /\ ~GateFull
    /\ active' = active + 1
    /\ Goto(c, "queued")
    /\ queue' = Append(queue, c)
    /\ UNCHANGED <<up, answer, returned, orphans>>

\* The client closes the connection while its body is awaited: the await
\* raises outside the try. A client that leaves later changes nothing, the
\* handler runs on and its response is dropped.
Disconnect(c) ==
    /\ pc[c] = "body"
    /\ Reply(c, "lost")
    /\ UNCHANGED <<up, active, returned, queue, orphans>>

\* Mistake: the slot is given back twice, as by except and finally both.
RespondReleasingTwice(c) ==
    /\ pc[c] = "returned"
    /\ Reply(c, IF returned[c] = "raised" THEN "500" ELSE "200")
    /\ returned' = [returned EXCEPT ![c] = "none"]
    /\ active' = active - 2
    /\ UNCHANGED <<up, queue, orphans>>

\* The future is done: the handler resumes, answers, and its finally clause
\* gives the slot back.
Respond(c) ==
    /\ pc[c] = "returned"
    /\ Reply(c, IF returned[c] = "raised" THEN "500" ELSE "200")
    /\ returned' = [returned EXCEPT ![c] = "none"]
    /\ active' = active - 1
    /\ UNCHANGED <<up, queue, orphans>>
-----------------------------------------------------------------------------
(* run_extraction, on a thread of the executor                             *)

Return(c, outcome) ==
    /\ Goto(c, "returned")
    /\ returned' = [returned EXCEPT ![c] = outcome]

\* run_in_executor(None, ...): a free thread of the default pool takes the
\* oldest job.
StartJob ==
    /\ queue # <<>>
    /\ Cardinality(Busy) < PoolSize
    /\ Goto(Head(queue), "thread")
    /\ queue' = Tail(queue)
    /\ UNCHANGED <<up, active, answer, returned, orphans>>

\* No filter can be built, or the time of the alert, the output directory or
\* a missing npcapextract binary raises: no child is started.
SkipExtraction(c) ==
    /\ pc[c] = "thread"
    /\ \E outcome \in {"text", "raised"} : Return(c, outcome)
    /\ UNCHANGED <<up, active, answer, queue, orphans>>

Spawn(c) ==
    /\ pc[c] = "thread"
    /\ Goto(c, "running")
    /\ UNCHANGED <<up, active, answer, returned, queue, orphans>>

ChildExits(c) ==
    /\ pc[c] = "running"
    /\ Goto(c, "exited")
    /\ UNCHANGED <<up, active, answer, returned, queue, orphans>>

\* Mistake: subprocess.run without its timeout.
TimeoutNever(c) == FALSE

\* subprocess.run kills and reaps the child before it raises TimeoutExpired.
Timeout(c) ==
    /\ pc[c] = "running"
    /\ Return(c, "text")
    /\ UNCHANGED <<up, active, answer, queue, orphans>>

\* A URL or an error text; it raises if the file vanishes while it is sized.
Classify(c) ==
    /\ pc[c] = "exited"
    /\ \E outcome \in {"text", "raised"} : Return(c, outcome)
    /\ UNCHANGED <<up, active, answer, queue, orphans>>
-----------------------------------------------------------------------------
(* The worker process under gunicorn                                       *)

\* The worker is killed, by a fault, by gunicorn's heartbeat timeout or at
\* the end of graceful_timeout. Its children are not.
Crash ==
    /\ up
    /\ orphans + Cardinality(Running) <= MaxOrphans
    /\ up' = FALSE
    /\ orphans' = orphans + Cardinality(Running)
    /\ answer' = [c \in Clients |-> IF pc[c] = "idle" THEN answer[c] ELSE "lost"]
    /\ pc' = [c \in Clients |-> "idle"]
    /\ returned' = [c \in Clients |-> "none"]
    /\ queue' = <<>>
    /\ UNCHANGED active

\* gunicorn forks a new worker, which calls create_app.
Restart ==
    /\ ~up
    /\ up' = TRUE
    /\ active' = 0
    /\ UNCHANGED <<pc, answer, returned, queue, orphans>>

OrphanExits ==
    /\ orphans > 0
    /\ orphans' = orphans - 1
    /\ UNCHANGED <<up, active, pc, answer, returned, queue>>
-----------------------------------------------------------------------------
Next ==
    \/ \E c \in Clients :
          \/ Post(c)
          \/ \E length \in {"missing", "not an int", "too large", "ok"} :
                CheckHeader(c, length)
          \/ RejectBody(c) \/ Refuse(c) \/ FailToParse(c) \/ Admit(c)
          \/ Disconnect(c) \/ Respond(c)
          \/ SkipExtraction(c) \/ Spawn(c) \/ ChildExits(c) \/ Timeout(c)
          \/ Classify(c)
    \/ StartJob
    \/ Crash \/ Restart \/ OrphanExits

Safe == Init /\ [][Next]_vars

\* The loop and the threads are scheduled, and the timeout of a child that
\* goes on running fires. Nothing is assumed of a child (it may hang), of the
\* clients, of crashes, or of gunicorn.
Fairness ==
    /\ WF_vars(StartJob)
    /\ \A c \in Clients :
          /\ WF_vars(SkipExtraction(c) \/ Spawn(c))
          /\ WF_vars(Timeout(c))
          /\ WF_vars(Classify(c))
          /\ WF_vars(Respond(c))

Spec == Safe /\ Fairness
-----------------------------------------------------------------------------
(* Properties                                                              *)

\* Every variable keeps to its type.
TypeOK ==
    /\ up \in BOOLEAN
    /\ active \in Nat
    /\ pc \in [Clients -> Steps]
    /\ answer \in [Clients -> Statuses]
    /\ returned \in [Clients -> {"none", "text", "raised"}]
    /\ queue \in Seq(Clients)
    /\ orphans \in Nat

\* The plain counter of the gate is exact in every state of a living worker,
\* whatever path a handler leaves by: it counts the requests inside the try,
\* neither leaking a slot nor giving one back twice.
ActiveMatches == up => active = Cardinality(Holders)

\* README: npcapextract runs are capped. However many threads there are, the
\* children of the living worker number at most the limit.
ChildrenBounded == Cardinality(Running) <= Limit

\* A client is sent 429 only when other requests do fill every slot: the gate
\* refuses nobody because of a stale count, and never refuses the only one.
RefusedOnlyWhenFull ==
    [][\A c \in Clients :
         answer[c] # "429" /\ answer'[c] = "429"
           => Holders # {} /\ Cardinality(Holders) >= MaxConcurrentExtractions]_vars

\* A request that got a slot is answered, or its worker dies: an extraction
\* cannot hang the service, however its child behaves and however many jobs
\* stand before it.
AdmittedAnswered ==
    \A c \in Clients : pc[c] = "queued" ~> pc[c] = "idle"

\* Each exchange as its client sees it.
Exchange == [c \in Clients |-> IF pc[c] = "idle" THEN answer[c]
                               ELSE IF pc[c] \in Holding THEN "admitted"
                               ELSE "open"]

Promise == INSTANCE Webhook WITH exchange <- Exchange,
                                 Rejections <- {"400", "411", "413", "500"}

\* The service keeps the webhook's promise: it admits at most Limit requests,
\* answers each of them once, and refuses for no other reason.
KeepsPromise == Promise!Spec
=============================================================================
