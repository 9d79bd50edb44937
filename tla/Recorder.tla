------------------------------ MODULE Recorder ------------------------------
(***************************************************************************)
(* The whole service over its one output directory: the handlers and the   *)
(* worker of Listener, the run_extraction threads and children of          *)
(* Extraction, the sweeps of Retention. Their actions are joined here,     *)
(* with what only shows in the whole: a slot is held from before its       *)
(* extraction to its answer, a sweep keeps the event loop from all         *)
(* handlers but not the threads, a file has a time that sweeps read and    *)
(* extractions renew, and a child outlives its worker and keeps on writing.*)
(*                                                                         *)
(* Every job is posted once and passes the checks that come before the     *)
(* gate; Listener has the rest. A client that posts its alert again is     *)
(* another job of the same file name.                                      *)
(***************************************************************************)
EXTENDS Integers, Sequences, FiniteSets

CONSTANTS
    Jobs, Names, NameOf, Creates, None,    \* as in Extraction
    Stuck,                                 \* as in Extraction and in Retention
    MaxConcurrentExtractions, MaxOrphans,  \* as in Listener
    MaxAge, MaxTotal, Horizon              \* as in Retention

ASSUME JobsAssumption  == IsFiniteSet(Jobs) /\ None \notin Jobs /\ Creates \in BOOLEAN
ASSUME NamesAssumption == /\ IsFiniteSet(Names) /\ NameOf \in [Jobs -> Names]
                          /\ Stuck \subseteq Names
ASSUME LimitAssumption == MaxConcurrentExtractions \in Int /\ MaxOrphans \in Nat
ASSUME AgeAssumption   == MaxAge \in Nat /\ MaxTotal \in Nat /\ Horizon \in Nat

VARIABLES
    up, active, step, answer, returned, queue, orphans,  \* Listener's, step being its pc
    pc, result, rc, output, matched, garbled, dir, contents,  \* Extraction's
    written,                                             \* when a file was last written
    now, stage, asOf, unseen, seenMtime, seenSize, doomed, kept, total,  \* Retention's
    victim, call, freed

listener == <<up, active, step, answer, returned, queue, orphans>>
runner   == <<pc, result, rc, output, matched, garbled>>
files    == <<dir, contents, written>>
task     == <<stage, asOf, unseen, seenMtime, seenSize, doomed, kept, total,
              victim, call, freed>>
vars     == <<listener, runner, files, now, task>>

L == INSTANCE Listener WITH Clients <- Jobs, PoolSize <- Cardinality(Jobs), pc <- step

\* What the components choose once, whether there are sweeps and whether
\* extractions run during them, is true here (TLC wants a state function).
Yes == now \in Nat

\* Which jobs may begin is the listener's business here.
X == INSTANCE Extraction WITH Slots <- Cardinality(Jobs) + 1, pruning <- Yes

R == INSTANCE Retention WITH
        Files <- Names, MaxSize <- Cardinality(Jobs), busy <- Yes,
        present <- {n \in Names : dir[n] # None},
        mtime <- [n \in Names |-> IF dir[n] = None THEN 0 ELSE written[dir[n]]],
        size <- [n \in Names |-> IF dir[n] = None THEN 0 ELSE Cardinality(contents[dir[n]])]

Init == now = 0 /\ written = [j \in Jobs |-> 0] /\ L!Init /\ X!Init /\ R!Init
-----------------------------------------------------------------------------
(* The event loop runs the handlers, and the sweep; the executor's threads *)
(* run the extractions.                                                    *)

OnLoop == stage = "waiting" /\ UNCHANGED <<runner, files, now, task>>

Receive(j) == OnLoop /\ answer[j] = "none" /\ L!Post(j)

\* The rest of the handler up to its decision.
Handle(j) ==
    /\ OnLoop
    /\ L!CheckHeader(j, "ok") \/ L!FailToParse(j) \/ L!Refuse(j) \/ L!Admit(j)

Respond(j) == OnLoop /\ L!Respond(j)

StartJob == L!StartJob /\ UNCHANGED <<runner, files, now, task>>

\* Where a job stands for the listener.
Place(at, status) ==
    CASE at \in {"ready", "spawn"}        -> "thread"
      [] at = "wait" /\ status = "none"   -> "running"
      [] at = "done"                      -> "returned"
      [] OTHER                            -> "exited"

\* run_extraction, as long as its thread lives.
Run(j) ==
    /\ step[j] \in L!InThread
    /\ UNCHANGED <<up, active, answer, queue, orphans, written, now, task>>
    /\ X!Caller(j)
    /\ step' = [step EXCEPT ![j] = Place(pc'[j], rc'[j])]
    /\ returned' = [returned EXCEPT ![j] = IF pc'[j] # "done" THEN "none"
                                           ELSE IF result'[j] = "raised" THEN "raised"
                                           ELSE "text"]

\* Opening a file makes it new, as writing does.
ChildWrites(j) ==
    /\ UNCHANGED <<listener, now, task>>
    /\ X!ChildOpens(j) \/ X!ChildWrites(j)
    /\ written' = [written EXCEPT ![output'[j]] = now]

ChildExits(j) ==
    /\ UNCHANGED <<written, now, task>>
    /\ X!ChildExits(j)
    /\ IF step[j] = "running" THEN L!ChildExits(j) ELSE L!OrphanExits

Sweep ==
    /\ up
    /\ UNCHANGED dir \/ \E n \in Names : dir' = [dir EXCEPT ![n] = None]
    /\ UNCHANGED <<listener, runner, contents, written, now>>
    /\ R!SweepStep
-----------------------------------------------------------------------------
(* The worker takes the sweep with it and leaves its children.             *)

Crash   == UNCHANGED <<runner, files, now>> /\ L!Crash /\ R!Stop
Restart == UNCHANGED <<runner, files, now>> /\ L!Restart /\ R!Start

\* MaxAge counts days and an extraction takes minutes at most: it falls between
\* two ticks. The child of a dead worker has no such limit.
Tick ==
    /\ L!Holders = {}
    /\ UNCHANGED <<listener, runner, files, task>>
    /\ R!Tick

Next == \/ \E j \in Jobs : \/ Receive(j) \/ Handle(j) \/ Respond(j)
                           \/ Run(j) \/ ChildWrites(j) \/ ChildExits(j)
        \/ StartJob \/ Sweep \/ Crash \/ Restart \/ Tick

Spec == Init /\ [][Next]_vars
-----------------------------------------------------------------------------
(* Properties                                                              *)

Sent(j)      == answer[j] = "200" /\ result[j] = "url"
Intact(j)    == X!Target(j) # None /\ contents[X!Target(j)] = {j}
Namesakes(j) == {k \in Jobs \ {j} : NameOf[k] = NameOf[j]}

\* The thread of k died while it waited for its child.
Stranded(k) == step[k] = "idle" /\ pc[k] = "wait"

\* When a client is sent a URL, its own extraction found packets and the file
\* holds these and no others, or a sweep has removed it since it was measured.
\* Alerts of one name, a post after a timeout or a retried one, may follow each
\* other as they like; only the child a dead worker left can spoil it.
UrlTrueWhenSent ==
    [][\A j \in Jobs :
         ~Sent(j) /\ Sent(j)' /\ ~(\E k \in Namesakes(j) : Stranded(k))
           => j \in matched /\ (Intact(j) \/ X!Target(j) = None)]_vars

\* The capture behind a URL that was sent goes for its age, for the budget, or
\* because a child opens or writes to the file of its name, be it that of a
\* retry or of a dead worker. An extraction that failed or found nothing takes
\* no earlier capture with it, unless it ran beside that one.
CaptureKept ==
    [][\A j \in Jobs :
         Sent(j) /\ Intact(j) /\ ~Intact(j)'
           => \/ R!Aged(NameOf[j])
              \/ MaxTotal > 0 /\ stage = "size"
              \/ \E k \in Namesakes(j) :
                    X!Alive(k) \/ (MaxConcurrentExtractions > 1 /\ pc[k] = "remove")]_vars

\* The runner step by step does nothing but what Listener allows a job.
KeepsListener == L!Safe

\* README: "Every extraction outcome - a real download URL, NO BPF FILTER, or a
\* timeout/failure string - is returned as HTTP 200". So it is once a child has
\* exited, whose output is text.
OutcomeIs200 == \A j \in Jobs \ garbled : rc[j] # "none" => answer[j] # "500"

\* A MISS, rc 0 with no packets, is reported as a failure, as the tests of
\* run_extraction expect, also if the alert is posted again after a crash.
MissReportedFailed == \A j \in Jobs : Sent(j) => j \in matched
=============================================================================
