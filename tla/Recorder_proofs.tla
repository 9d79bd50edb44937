--------------------------- MODULE Recorder_proofs ---------------------------
(***************************************************************************)
(* The composed service is a Listener and a Retention: what was shown of   *)
(* them beside jobs and extractions that come to something arbitrary holds *)
(* beside the real run_extraction. And what only shows in the whole: why a *)
(* capture behind a URL may go, and that a URL tells the truth. For any    *)
(* jobs, names and limits.                                                 *)
(***************************************************************************)
EXTENDS Recorder, FiniteSetTheorems, TLAPS

USE JobsAssumption, NamesAssumption, LimitAssumption, AgeAssumption

Typed ==
    /\ step \in [Jobs -> L!Steps] /\ answer \in [Jobs -> L!Statuses]
    /\ returned \in [Jobs -> {"none", "text", "raised"}]
    /\ queue \in Seq(Jobs)
    /\ pc \in [Jobs -> X!Calls] /\ rc \in [Jobs -> {"none", "zero", "nonzero"}]
    /\ result \in [Jobs -> X!Texts \union {"none", "raised"}]

\* The handler of j has not handed its job to a thread.
Unstarted(j) == \/ step[j] \in {"posted", "body", "queued"}
                \/ step[j] = "idle" /\ answer[j] = "none"

\* Where the listener believes j to be is where its run_extraction is. The first
\* two conjuncts are what the third needs when a thread begins.
Coupled(j) ==
    /\ pc[j] \in {"ready", "spawn"} => rc[j] = "none"
    /\ Unstarted(j) => pc[j] = "ready"
    /\ step[j] \in L!InThread => pc[j] # "done" /\ step[j] = Place(pc[j], rc[j])
    /\ step[j] # "returned" => returned[j] = "none"

Queued ==
    /\ \A i \in 1 .. Len(queue) : step[queue[i]] = "queued"
    /\ \A i, k \in 1 .. Len(queue) : queue[i] = queue[k] => i = k

IInv == Typed /\ Queued /\ \A j \in Jobs : Coupled(j)
-----------------------------------------------------------------------------
(* Steps of run_extraction                                                 *)

\* The call of a thread that can end run_extraction, and with what.
LEMMA CallerMoves ==
  ASSUME Typed, NEW j \in Jobs, X!Caller(j)
  PROVE  /\ pc' \in [Jobs -> X!Calls] /\ \A k \in Jobs \ {j} : pc'[k] = pc[k]
         /\ result' \in [Jobs -> X!Texts \union {"none", "raised"}]
         /\ rc' = rc /\ pc[j] # "done" /\ pc'[j] # "ready"
         /\ pc'[j] = "spawn" => pc[j] = "ready"
         /\ pc'[j] = "wait" => pc[j] = "spawn"
         /\ pc[j] \in {"ready", "spawn"} => pc'[j] \in {"spawn", "wait", "done"}
         /\ pc'[j] # "done" /\ pc[j] \notin {"ready", "spawn"} =>
               rc[j] # "none" \/ pc[j] # "wait"
         /\ pc'[j] = "done" /\ pc[j] = "wait" /\ rc[j] = "none" => result'[j] = "timeout"
<1>. USE DEF Typed, X!Goto, X!Finish, X!Calls, X!Texts
<1>1. CASE X!Prepare(j)
  BY <1>1 DEF X!Prepare
<1>2. CASE X!Spawn(j)
  BY <1>2 DEF X!Spawn
<1>3. CASE X!Timeout(j)
  BY <1>3 DEF X!Timeout
<1>4. CASE X!Wait(j)
  BY <1>4 DEF X!Wait
<1>5. CASE X!Exists(j)
  BY <1>5 DEF X!Exists
<1>6. CASE X!GetSize(j)
  BY <1>6 DEF X!GetSize
<1>7. CASE X!Report(j)
  BY <1>7 DEF X!Report
<1>8. CASE X!Recheck(j)
  BY <1>8 DEF X!Recheck
<1>9. CASE X!Remove(j)
  BY <1>9 DEF X!Remove
<1>. QED
  BY <1>1, <1>2, <1>3, <1>4, <1>5, <1>6, <1>7, <1>8, <1>9 DEF X!Caller

LEMMA RunKeeps ==
  ASSUME IInv, NEW j \in Jobs, Run(j)
  PROVE  IInv'
<1>1. /\ step[j] \in L!InThread /\ queue' = queue /\ answer' = answer
      /\ step' = [step EXCEPT ![j] = Place(pc'[j], rc'[j])]
      /\ returned' = [returned EXCEPT ![j] = IF pc'[j] # "done" THEN "none"
                                             ELSE IF result'[j] = "raised" THEN "raised"
                                             ELSE "text"]
      /\ X!Caller(j) /\ Typed
  BY DEF Run, IInv
<1>2. Place(pc'[j], rc'[j]) \in L!Steps \ {"idle", "posted", "body", "queued"}
  BY DEF Place, L!Steps, L!Holding, L!InThread
<1>3. Typed'
  BY <1>1, <1>2, CallerMoves DEF Typed
<1>4. Queued'
  <2>1. \A i \in 1 .. Len(queue) : queue[i] # j
    BY <1>1 DEF IInv, Queued, L!InThread
  <2>2. \A i \in 1 .. Len(queue) : queue[i] \in Jobs
    BY <1>1 DEF Typed
  <2>. QED
    BY <1>1, <2>1, <2>2 DEF IInv, Queued, Typed
<1>5. ASSUME NEW k \in Jobs \ {j} PROVE Coupled(k)'
  <2>1. /\ step'[k] = step[k] /\ answer'[k] = answer[k] /\ returned'[k] = returned[k]
        /\ pc'[k] = pc[k] /\ rc'[k] = rc[k]
    BY <1>1, CallerMoves DEF Typed
  <2>. QED
    BY <2>1 DEF IInv, Coupled, Unstarted, Place
<1>6. Coupled(j)'
  <2>1. step'[j] = Place(pc'[j], rc'[j])
    BY <1>1 DEF Typed
  <2>2. returned'[j] = IF pc'[j] # "done" THEN "none"
                       ELSE IF result'[j] = "raised" THEN "raised" ELSE "text"
    BY <1>1 DEF Typed
  <2>3. step'[j] # "returned" <=> pc'[j] # "done"
    BY <2>1 DEF Place
  <2>4. ~Unstarted(j)'
    BY <1>2, <2>1 DEF Unstarted
  <2>5. pc'[j] \in {"ready", "spawn"} => rc'[j] = "none"
    BY <1>1, CallerMoves DEF IInv, Coupled
  <2>6. step'[j] \in L!InThread => pc'[j] # "done"
    BY <2>1 DEF Place, L!InThread
  <2>. QED
    BY <2>1, <2>2, <2>3, <2>4, <2>5, <2>6 DEF Coupled
<1>. QED
  BY <1>3, <1>4, <1>5, <1>6 DEF IInv

\* A call of a thread is a step of the listener's job, or none.
LEMMA RunImplements ==
  ASSUME IInv, NEW j \in Jobs, Run(j)
  PROVE  [L!Next]_listener
<1>1. /\ step[j] \in L!InThread /\ step[j] = Place(pc[j], rc[j]) /\ pc[j] # "done"
      /\ returned[j] = "none" /\ X!Caller(j) /\ Typed
      /\ pc[j] \in {"ready", "spawn"} => rc[j] = "none"
  BY DEF Run, IInv, Coupled, L!InThread
<1>2. UNCHANGED <<up, active, answer, queue, orphans>>
  BY DEF Run
<1>3. step' = [step EXCEPT ![j] = Place(pc'[j], rc'[j])]
  BY DEF Run
<1>4. pc[j] \in X!Calls /\ rc[j] \in {"none", "zero", "nonzero"} /\ rc' = rc
  BY <1>1, CallerMoves DEF Typed
<1>5. CASE pc'[j] = "done"
  <2>1. PICK outcome \in {"text", "raised"} :
           /\ returned' = [returned EXCEPT ![j] = outcome]
           /\ result'[j] # "raised" => outcome = "text"
    BY <1>5 DEF Run
  <2>2. L!Return(j, outcome)
    BY <1>3, <1>5, <2>1 DEF L!Return, L!Goto, Place
  <2>3. CASE step[j] = "thread"
    BY <1>2, <2>2, <2>3 DEF L!Next, L!SkipExtraction
  <2>4. CASE step[j] = "running"
    <3>1. pc[j] = "wait" /\ rc[j] = "none"
      BY <1>1, <2>4 DEF Place
    <3>2. outcome = "text"
      BY <1>1, <1>5, <2>1, <3>1, CallerMoves
    <3>. QED
      BY <1>2, <2>2, <2>4, <3>2 DEF L!Next, L!Timeout
  <2>5. CASE step[j] = "exited"
    BY <1>2, <2>2, <2>5 DEF L!Next, L!Classify
  <2>. QED
    BY <1>1, <2>3, <2>4, <2>5 DEF L!InThread
<1>6. CASE pc'[j] # "done"
  <2>1. returned' = returned
    BY <1>1, <1>6 DEF Run, Typed
  <2>2. CASE pc'[j] = "wait"
    <3>1. step[j] = "thread" /\ Place(pc'[j], rc'[j]) = "running"
      BY <1>1, <1>4, <2>2, CallerMoves DEF Place
    <3>. QED
      BY <1>2, <1>3, <2>1, <3>1 DEF L!Next, L!Spawn, L!Goto
  <2>3. CASE pc'[j] # "wait"
    <3>1. Place(pc'[j], rc'[j]) = step[j]
      BY <1>1, <1>4, <1>6, <2>3, CallerMoves DEF Place, Typed, X!Calls
    <3>2. step' = step
      BY <1>1, <1>3, <3>1 DEF Typed
    <3>. QED
      BY <1>2, <2>1, <3>2 DEF listener
  <2>. QED
    BY <2>2, <2>3
<1>. QED
  BY <1>5, <1>6
-----------------------------------------------------------------------------
(* The other steps                                                         *)

\* A move of the handler of j, up to the handing over of its job.
LEMMA HandlerKeeps ==
  ASSUME IInv, NEW j \in Jobs, NEW s \in {"idle", "posted", "body", "queued"},
         L!Goto(j, s), UNCHANGED runner, step[j] \in {"idle", "posted", "body"},
         answer' \in [Jobs -> L!Statuses], \A k \in Jobs \ {j} : answer'[k] = answer[k],
         Unstarted(j)' => Unstarted(j), UNCHANGED returned,
         queue' = IF s = "queued" THEN Append(queue, j) ELSE queue
  PROVE  IInv'
<1>1. /\ step' = [step EXCEPT ![j] = s] /\ Typed /\ s \in L!Steps
      /\ pc' = pc /\ rc' = rc /\ result' = result
  BY DEF L!Goto, IInv, runner, L!Steps, L!Holding, L!InThread
<1>2. queue \in Seq(Jobs) /\ \A i \in 1 .. Len(queue) : queue[i] # j
  BY DEF IInv, Typed, Queued
<1>3. Typed'
  BY <1>1, <1>2 DEF Typed
<1>4. Queued'
  <2>1. CASE s = "queued"
    BY <1>1, <1>2, <2>1 DEF IInv, Queued, Typed
  <2>2. CASE s # "queued"
    BY <1>1, <1>2, <2>2 DEF IInv, Queued, Typed
  <2>. QED
    BY <2>1, <2>2
<1>5. ASSUME NEW k \in Jobs PROVE Coupled(k)'
  <2>1. CASE k = j
    BY <1>1, <2>1 DEF IInv, Coupled, Typed, L!InThread
  <2>2. CASE k # j
    BY <1>1, <2>2 DEF IInv, Coupled, Unstarted, Typed, Place
  <2>. QED
    BY <2>1, <2>2
<1>. QED
  BY <1>3, <1>4, <1>5 DEF IInv

LEMMA LoopKeeps ==
  ASSUME IInv, NEW j \in Jobs, Receive(j) \/ Handle(j)
  PROVE  IInv'
<1>. USE DEF L!Reply
<1>0. Typed
  BY DEF IInv
<1>1. CASE Receive(j)
  <2>1. PICK s \in {"idle", "posted", "body", "queued"} : s = "posted" /\ L!Goto(j, s)
    BY <1>1 DEF Receive, L!Post
  <2>2. /\ step[j] = "idle" /\ answer[j] = "none" /\ Unstarted(j)
        /\ answer' = [answer EXCEPT ![j] = "none"]
        /\ UNCHANGED runner /\ UNCHANGED <<returned, queue>>
    BY <1>1 DEF Receive, L!Post, OnLoop, Unstarted
  <2>3. /\ answer' \in [Jobs -> L!Statuses]
        /\ \A k \in Jobs \ {j} : answer'[k] = answer[k]
    BY <1>0, <2>2 DEF Typed, L!Statuses
  <2>. QED
    BY <2>1, <2>2, <2>3, HandlerKeeps
<1>2. CASE OnLoop /\ (L!CheckHeader(j, "ok") \/ L!Admit(j))
  <2>1. PICK s \in {"idle", "posted", "body", "queued"} :
           /\ L!Goto(j, s)
           /\ queue' = IF s = "queued" THEN Append(queue, j) ELSE queue
    BY <1>2 DEF L!CheckHeader, L!Admit
  <2>2. /\ step[j] \in {"posted", "body"} /\ Unstarted(j)
        /\ UNCHANGED answer /\ UNCHANGED runner /\ UNCHANGED returned
    BY <1>2 DEF L!CheckHeader, L!Admit, OnLoop, Unstarted
  <2>. QED
    BY <1>0, <2>1, <2>2, HandlerKeeps DEF Typed
<1>3. CASE OnLoop /\ (L!FailToParse(j) \/ L!Refuse(j))
  <2>1. PICK s \in {"idle", "posted", "body", "queued"} : s = "idle" /\ L!Goto(j, s)
    BY <1>3 DEF L!FailToParse, L!Refuse
  <2>2. PICK status \in {"500", "429"} : answer' = [answer EXCEPT ![j] = status]
    BY <1>3 DEF L!FailToParse, L!Refuse
  <2>3. /\ step[j] = "body" /\ Unstarted(j)
        /\ UNCHANGED runner /\ UNCHANGED <<returned, queue>>
    BY <1>3 DEF L!FailToParse, L!Refuse, OnLoop, Unstarted
  <2>4. /\ answer' \in [Jobs -> L!Statuses]
        /\ \A k \in Jobs \ {j} : answer'[k] = answer[k]
    BY <1>0, <2>2 DEF Typed, L!Statuses
  <2>. QED
    BY <2>1, <2>3, <2>4, HandlerKeeps
<1>. QED
  BY <1>1, <1>2, <1>3 DEF Handle

\* A job that was answered has been started once and is not again.
LEMMA RespondKeeps ==
  ASSUME IInv, NEW j \in Jobs, Respond(j)
  PROVE  IInv'
<1>1. PICK status \in {"500", "200"} : answer' = [answer EXCEPT ![j] = status]
  BY DEF Respond, L!Respond, L!Reply
<1>2. /\ step[j] = "returned" /\ step' = [step EXCEPT ![j] = "idle"]
      /\ returned' = [returned EXCEPT ![j] = "none"] /\ queue' = queue
      /\ pc' = pc /\ rc' = rc /\ result' = result /\ Typed
  BY DEF Respond, L!Respond, L!Reply, L!Goto, OnLoop, runner, IInv
<1>3. Typed'
  BY <1>1, <1>2 DEF Typed, L!Steps, L!Statuses
<1>4. Queued'
  BY <1>2 DEF IInv, Queued, Typed
<1>5. ASSUME NEW k \in Jobs PROVE Coupled(k)'
  <2>1. CASE k = j
    BY <1>1, <1>2, <2>1 DEF IInv, Coupled, Unstarted, Typed, L!InThread
  <2>2. CASE k # j
    BY <1>1, <1>2, <2>2 DEF IInv, Coupled, Unstarted, Typed, Place
  <2>. QED
    BY <2>1, <2>2
<1>. QED
  BY <1>3, <1>4, <1>5 DEF IInv

\* The job a thread takes is one whose run_extraction has not begun.
LEMMA StartKeeps ==
  ASSUME IInv, StartJob
  PROVE  IInv'
<1>1. /\ queue # <<>> /\ step' = [step EXCEPT ![Head(queue)] = "thread"]
      /\ queue' = Tail(queue) /\ answer' = answer /\ returned' = returned
      /\ pc' = pc /\ rc' = rc /\ result' = result /\ Typed /\ queue \in Seq(Jobs)
  BY DEF StartJob, L!StartJob, L!Goto, runner, IInv, Typed
<1>2. PICK j \in Jobs : j = Head(queue) /\ j = queue[1] /\ step[j] = "queued"
  BY <1>1 DEF IInv, Queued
<1>3. Typed'
  BY <1>1, <1>2 DEF Typed, L!Steps, L!Holding, L!InThread
<1>4. Queued'
  <2>1. \A i \in 1 .. Len(queue') : i + 1 \in 2 .. Len(queue) /\ queue'[i] = queue[i + 1]
    BY <1>1
  <2>2. \A i \in 2 .. Len(queue) : queue[i] # j
    BY <1>1, <1>2 DEF IInv, Queued
  <2>3. \A i \in 1 .. Len(queue') : step'[queue'[i]] = "queued"
    BY <1>1, <1>2, <2>1, <2>2 DEF IInv, Queued, Typed
  <2>4. \A i, k \in 1 .. Len(queue') : queue'[i] = queue'[k] => i = k
    BY <1>1, <2>1 DEF IInv, Queued
  <2>. QED
    BY <2>3, <2>4 DEF Queued
<1>5. ASSUME NEW k \in Jobs PROVE Coupled(k)'
  <2>1. CASE k = j
    BY <1>1, <1>2, <2>1 DEF IInv, Coupled, Unstarted, Typed, Place
  <2>2. CASE k # j
    BY <1>1, <1>2, <2>2 DEF IInv, Coupled, Unstarted, Typed, Place
  <2>. QED
    BY <2>1, <2>2
<1>. QED
  BY <1>3, <1>4, <1>5 DEF IInv

\* A child that exits moves a job that waits for it, and nothing of a dead one's.
LEMMA ExitKeeps ==
  ASSUME IInv, NEW j \in Jobs, ChildExits(j)
  PROVE  IInv'
<1>1. /\ pc[j] = "wait" /\ rc[j] = "none" /\ Typed
      /\ \E status \in {"zero", "nonzero"} : rc' = [rc EXCEPT ![j] = status]
      /\ pc' = pc /\ result' = result
  BY DEF ChildExits, X!ChildExits, X!Alive, IInv
<1>2. /\ answer' = answer /\ returned' = returned /\ queue' = queue
      /\ step' = IF step[j] = "running" THEN [step EXCEPT ![j] = "exited"] ELSE step
  BY DEF ChildExits, L!ChildExits, L!OrphanExits, L!Goto
<1>3. Typed'
  BY <1>1, <1>2 DEF Typed, L!Steps, L!Holding, L!InThread
<1>4. Queued'
  BY <1>2 DEF IInv, Queued, Typed
<1>5. ASSUME NEW k \in Jobs PROVE Coupled(k)'
  <2>1. CASE k = j
    <3>1. step[j] \in L!InThread => step[j] = "running"
      BY <1>1 DEF IInv, Coupled, Place
    <3>. QED
      BY <1>1, <1>2, <2>1, <3>1 DEF IInv, Coupled, Unstarted, Typed, Place, L!InThread
  <2>2. CASE k # j
    BY <1>1, <1>2, <2>2 DEF IInv, Coupled, Unstarted, Typed, Place
  <2>. QED
    BY <2>1, <2>2
<1>. QED
  BY <1>3, <1>4, <1>5 DEF IInv

LEMMA CrashKeeps ==
  ASSUME IInv, Crash
  PROVE  IInv'
<1>1. /\ step' = [k \in Jobs |-> "idle"] /\ returned' = [k \in Jobs |-> "none"]
      /\ answer' = [k \in Jobs |-> IF step[k] = "idle" THEN answer[k] ELSE "lost"]
      /\ queue' = <<>> /\ pc' = pc /\ rc' = rc /\ result' = result /\ Typed
  BY DEF Crash, L!Crash, runner, IInv
<1>2. Typed'
  BY <1>1 DEF Typed, L!Steps, L!Statuses
<1>3. ASSUME NEW k \in Jobs PROVE Coupled(k)'
  BY <1>1 DEF IInv, Coupled, Unstarted, L!InThread
<1>. QED
  BY <1>1, <1>2, <1>3 DEF IInv, Queued

\* What the rest leaves alone is all that IInv is about.
LEMMA StutterKeeps ==
  ASSUME IInv, UNCHANGED <<step, answer, returned, queue>>, UNCHANGED <<pc, result, rc>>
  PROVE  IInv'
BY DEF IInv, Typed, Queued, Coupled, Unstarted, Place

LEMMA InitKeeps == Init => IInv
BY DEF Init, L!Init, X!Init, IInv, Typed, Queued, Coupled, Unstarted, L!Steps, L!Statuses,
       X!Calls, L!InThread

LEMMA StepKeeps ==
  ASSUME IInv, [Next]_vars
  PROVE  IInv'
<1>1. CASE \E j \in Jobs : Receive(j) \/ Handle(j) \/ Respond(j) \/ Run(j) \/ ChildExits(j)
  BY <1>1, LoopKeeps, RespondKeeps, RunKeeps, ExitKeeps
<1>2. CASE StartJob \/ Crash
  BY <1>2, StartKeeps, CrashKeeps
<1>3. CASE \/ \E j \in Jobs : ChildWrites(j)
           \/ Sweep \/ Restart \/ Tick \/ UNCHANGED vars
  BY <1>3, StutterKeeps
     DEF ChildWrites, X!ChildOpens, X!ChildWrites, Sweep, Restart, L!Restart, Tick,
         vars, listener, runner
<1>. QED
  BY <1>1, <1>2, <1>3 DEF Next

LEMMA Invariance == Spec => []IInv
BY InitKeeps, StepKeeps, PTL DEF Spec
-----------------------------------------------------------------------------
(* The refinement                                                          *)

LEMMA StepImplements ==
  ASSUME IInv, [Next]_vars
  PROVE  [L!Next]_listener
<1>1. CASE \E j \in Jobs : Receive(j) \/ Handle(j) \/ Respond(j)
  BY <1>1 DEF Receive, Handle, Respond, L!Next
<1>2. CASE \E j \in Jobs : Run(j)
  BY <1>2, RunImplements
<1>3. CASE \E j \in Jobs : ChildExits(j)
  BY <1>3 DEF ChildExits, L!Next
<1>4. CASE StartJob \/ Crash \/ Restart
  BY <1>4 DEF StartJob, Crash, Restart, L!Next
<1>5. CASE (\E j \in Jobs : ChildWrites(j)) \/ Sweep \/ Tick \/ UNCHANGED vars
  BY <1>5 DEF ChildWrites, Sweep, Tick, vars
<1>. QED
  BY <1>1, <1>2, <1>3, <1>4, <1>5 DEF Next

\* The composed service keeps to Listener's specification, so that its gate is
\* exact and the webhook's promise holds of it with the real run_extraction in
\* its threads, children that outlive their worker, and sweeps.
THEOREM ListenerKept == Spec => KeepsListener
<1>1. Init => L!Init
  BY DEF Init
<1>. QED
  BY <1>1, StepImplements, Invariance, PTL DEF Spec, KeepsListener, L!Safe, L!vars, listener
-----------------------------------------------------------------------------
(* The files. A file stands under the name of the job that created it; what *)
(* a sweep condemns was old when it was looked at, and the capture behind a *)
(* URL that was sent is not written again without being spoiled.           *)

USE DEF JobsAssumption, NamesAssumption, AgeAssumption

FilesTyped ==
    /\ output \in [Jobs -> Jobs \union {None}] /\ matched \in SUBSET Jobs
    /\ dir \in [Names -> Jobs \union {None}] /\ contents \in [Jobs -> SUBSET Jobs]
    /\ written \in [Jobs -> Nat]
    /\ now \in Nat /\ asOf \in Nat /\ seenMtime \in [Names -> Nat]
    /\ unseen \in SUBSET Names /\ doomed \in SUBSET Names /\ victim \in SUBSET Names

\* A file stands under the name of the job that created it, and a child has open
\* a file of its own name.
Linked ==
    /\ \A n \in Names : dir[n] # None => NameOf[dir[n]] = n /\ output[dir[n]] = dir[n]
    /\ \A j \in Jobs : output[j] # None => NameOf[output[j]] = NameOf[j]

\* What the place of a job tells of it.
Progress(j) ==
    /\ step[j] = "returned" => pc[j] = "done"
    /\ answer[j] # "none" => step[j] = "idle"
    /\ answer[j] = "200" => pc[j] = "done"
    /\ pc[j] \in {"ready", "spawn"} => output[j] = None
    /\ output[j] = None => j \notin matched
    /\ pc[j] \in {"exists", "getsize", "report", "recheck", "remove"} => rc[j] = "zero"

\* The files the age pass is to remove, and the one it is removing.
Condemned == doomed \union IF stage = "age" THEN victim ELSE {}

SweepListed ==
    /\ asOf <= now
    /\ unseen \intersect doomed = {}
    /\ stage \in {"waiting", "stopped"} => doomed = {}
    /\ stage = "size" => MaxTotal > 0
    /\ call = "choose" => victim = {}
    /\ victim # {} => stage \in {"age", "size"}
    /\ \A n \in Condemned : MaxAge > 0 /\ asOf - seenMtime[n] > MaxAge

\* A sweep that condemns the capture behind a URL has seen its last version.
Seen(j) ==
    Sent(j) /\ Intact(j) /\ NameOf[j] \in Condemned
      => written[X!Target(j)] <= seenMtime[NameOf[j]]

FilesInv == /\ FilesTyped /\ Linked /\ SweepListed
            /\ \A j \in Jobs : Progress(j) /\ Seen(j)

FInv == IInv /\ FilesInv
-----------------------------------------------------------------------------
(* What a step does to them                                                *)

\* The caller of a live child is on a thread, or died.
LEMMA WaitingWhere ==
  ASSUME FInv, NEW j \in Jobs, pc[j] = "wait"
  PROVE  step[j] \in L!InThread \/ Stranded(j)
BY DEF FInv, FilesInv, IInv, Typed, Coupled, Unstarted, Progress, Stranded, L!Steps, L!Holding, L!InThread

LEMMA InitFiles == Init => FInv
<1>1. Init => IInv
  BY InitKeeps
<1>2. Init => FilesTyped /\ Linked /\ SweepListed
  BY DEF Init, X!Init, R!Init, R!Nowhere, FilesTyped, Linked, SweepListed, Condemned
<1>3. Init => \A j \in Jobs : Progress(j) /\ Seen(j)
  BY DEF Init, L!Init, X!Init, Progress, Seen, Sent
<1>. QED
  BY <1>1, <1>2, <1>3 DEF FInv, FilesInv

\* A move of the event loop or the executor is one of a single job.
Moves(j) ==
    /\ \A k \in Jobs \ {j} : step'[k] = step[k] /\ answer'[k] = answer[k]
    /\ ~Stranded(j)
    /\ step'[j] \in {"idle", "posted", "body", "queued", "thread"}
    /\ step'[j] # "idle" => answer'[j] = "none" /\ Unstarted(j)
    /\ answer'[j] = "200" => step[j] = "returned" /\ Respond(j)

Handling == (\E j \in Jobs : Receive(j) \/ Handle(j) \/ Respond(j)) \/ StartJob

LEMMA HandlerMoves ==
  ASSUME FInv, Handling
  PROVE  UNCHANGED <<runner, files, now, task>> /\ \E j \in Jobs : Moves(j)
<1>0. /\ step \in [Jobs -> L!Steps] /\ answer \in [Jobs -> L!Statuses]
      /\ \A j \in Jobs : Progress(j) /\ Coupled(j)
  BY DEF FInv, FilesInv, IInv, Typed
<1>. USE DEF L!Goto, L!Reply
<1>1. ASSUME NEW j \in Jobs, Receive(j) PROVE UNCHANGED <<runner, files, now, task>> /\ Moves(j)
  <2>1. /\ UNCHANGED <<runner, files, now, task>> /\ step[j] = "idle" /\ answer[j] = "none"
        /\ step' = [step EXCEPT ![j] = "posted"] /\ answer' = [answer EXCEPT ![j] = "none"]
    BY <1>1 DEF Receive, OnLoop, L!Post
  <2>. QED
    BY <1>0, <2>1 DEF Moves, Coupled, Unstarted, Stranded
<1>2. ASSUME NEW j \in Jobs, Handle(j) PROVE UNCHANGED <<runner, files, now, task>> /\ Moves(j)
  <2>1. UNCHANGED <<runner, files, now, task>> /\ step[j] \in {"posted", "body"}
    BY <1>2 DEF Handle, OnLoop, L!CheckHeader, L!FailToParse, L!Refuse, L!Admit
  <2>2. answer[j] = "none" /\ Unstarted(j) /\ ~Stranded(j)
    BY <1>0, <2>1 DEF Progress, Unstarted, Stranded
  <2>3. CASE L!CheckHeader(j, "ok") \/ L!Admit(j)
    BY <1>0, <2>1, <2>2, <2>3 DEF Moves, L!CheckHeader, L!Admit
  <2>4. CASE L!FailToParse(j) \/ L!Refuse(j)
    BY <1>0, <2>1, <2>2, <2>4 DEF Moves, L!FailToParse, L!Refuse
  <2>. QED
    BY <1>2, <2>1, <2>3, <2>4 DEF Handle
<1>3. ASSUME NEW j \in Jobs, Respond(j) PROVE UNCHANGED <<runner, files, now, task>> /\ Moves(j)
  <2>1. /\ UNCHANGED <<runner, files, now, task>> /\ step[j] = "returned"
        /\ step' = [step EXCEPT ![j] = "idle"]
        /\ \E status \in {"500", "200"} : answer' = [answer EXCEPT ![j] = status]
    BY <1>3 DEF Respond, OnLoop, L!Respond
  <2>. QED
    BY <1>0, <1>3, <2>1 DEF Moves, Stranded
<1>4. CASE StartJob
  <2>1. /\ UNCHANGED <<runner, files, now, task>> /\ queue # <<>> /\ answer' = answer
        /\ step' = [step EXCEPT ![Head(queue)] = "thread"]
    BY <1>4 DEF StartJob, L!StartJob
  <2>2. PICK j \in Jobs : j = Head(queue) /\ step[j] = "queued"
    BY <2>1 DEF FInv, FilesInv, IInv, Typed, Queued
  <2>3. Moves(j)
    BY <1>0, <2>1, <2>2 DEF Moves, Progress, Unstarted, Stranded
  <2>. QED
    BY <2>1, <2>3
<1>. QED
  BY <1>1, <1>2, <1>3, <1>4 DEF Handling

\* A call of run_extraction at most unlinks the job's file.
LEMMA RunMoves ==
  ASSUME FInv, NEW j \in Jobs, Run(j)
  PROVE  /\ step[j] \in L!InThread /\ step'[j] \in L!InThread \union {"returned"}
         /\ step'[j] = "returned" <=> pc'[j] = "done"
         /\ \A k \in Jobs \ {j} : step'[k] = step[k] /\ pc'[k] = pc[k] /\ result'[k] = result[k]
         /\ UNCHANGED <<up, active, answer, rc, output, matched, contents, written, now, task>>
         /\ dir' \in [Names -> Jobs \union {None}]
         /\ \A n \in Names : dir'[n] = dir[n] \/ (n = NameOf[j] /\ dir'[n] = None)
         /\ pc'[j] \in {"ready", "spawn"} => pc[j] \in {"ready", "spawn"}
         /\ pc'[j] \in {"exists", "getsize", "report", "recheck", "remove"} => rc[j] = "zero"
         /\ pc'[j] = "report" => X!Target(j) # None /\ contents[X!Target(j)] # {}
         /\ pc'[j] = "done" /\ result'[j] = "url" => pc[j] = "report"
         /\ pc'[j] = "wait" => pc[j] = "spawn"
<1>0. /\ Typed /\ FilesTyped /\ Progress(j) /\ X!Caller(j) /\ step[j] \in L!InThread
      /\ UNCHANGED <<up, active, answer, written, now, task>>
      /\ step' = [step EXCEPT ![j] = Place(pc'[j], rc'[j])]
  BY DEF FInv, FilesInv, IInv, Run
<1>1. /\ step'[j] \in L!InThread \union {"returned"}
      /\ step'[j] = "returned" <=> pc'[j] = "done"
      /\ \A k \in Jobs \ {j} : step'[k] = step[k]
  BY <1>0 DEF Typed, Place, L!InThread
<1>. USE DEF Typed, FilesTyped, Progress, X!Goto, X!Finish, X!Target
<1>2. CASE X!Prepare(j) \/ X!Spawn(j) \/ X!Timeout(j)
  BY <1>0, <1>1, <1>2 DEF X!Prepare, X!Spawn, X!Timeout
<1>3. CASE X!Wait(j) \/ X!Exists(j) \/ X!Recheck(j)
  BY <1>0, <1>1, <1>3 DEF X!Wait, X!Exists, X!Recheck
<1>4. CASE X!GetSize(j) \/ X!Report(j)
  BY <1>0, <1>1, <1>4 DEF X!GetSize, X!Report
<1>5. CASE X!Remove(j)
  BY <1>0, <1>1, <1>5 DEF X!Remove
<1>. QED
  BY <1>0, <1>2, <1>3, <1>4, <1>5 DEF X!Caller

\* A child opens or writes the file of its own name.
LEMMA ChildMoves ==
  ASSUME FInv, NEW j \in Jobs, ChildWrites(j)
  PROVE  /\ X!Alive(j) /\ UNCHANGED <<listener, now, task>> /\ UNCHANGED <<pc, result, rc>>
         /\ output'[j] \in Jobs /\ NameOf[output'[j]] = NameOf[j]
         /\ output' \in [Jobs -> Jobs \union {None}] /\ dir' \in [Names -> Jobs \union {None}]
         /\ contents' \in [Jobs -> SUBSET Jobs] /\ matched' \in SUBSET Jobs
         /\ written' = [written EXCEPT ![output'[j]] = now]
         /\ \A k \in Jobs \ {j} : output'[k] = output[k] /\ (k \in matched' <=> k \in matched)
         /\ \A f \in Jobs : f # output'[j] => contents'[f] = contents[f]
         /\ \A n \in Names : dir'[n] = dir[n] \/ (n = NameOf[j] /\ dir'[n] = output'[j])
         /\ \/ /\ output[j] = None /\ matched' = matched
               /\ output'[j] = (IF X!Target(j) = None THEN j ELSE X!Target(j))
               /\ dir'[NameOf[j]] = output'[j] /\ contents'[output'[j]] = {}
            \/ /\ output[j] # None /\ output' = output /\ dir' = dir
               /\ matched' = matched \union {j}
               /\ contents'[output[j]] = contents[output[j]] \union {j}
<1>0. /\ FilesTyped /\ Linked /\ UNCHANGED <<listener, now, task>>
      /\ written' = [written EXCEPT ![output'[j]] = now]
  BY DEF FInv, FilesInv, ChildWrites
<1>. USE DEF FilesTyped, X!Target
<1>1. CASE X!ChildOpens(j)
  <2>0. PICK file : file = (IF X!Target(j) = None THEN j ELSE X!Target(j))
    OBVIOUS
  <2>1. /\ file \in Jobs /\ NameOf[file] = NameOf[j]
        /\ dir' = [dir EXCEPT ![NameOf[j]] = file]
        /\ contents' = [contents EXCEPT ![file] = {}]
        /\ output' = [output EXCEPT ![j] = file]
    <3>1. file \in Jobs /\ NameOf[file] = NameOf[j]
      BY <1>0, <2>0 DEF Linked
    <3>2. /\ dir' = [dir EXCEPT ![NameOf[j]] = file]
          /\ contents' = [contents EXCEPT ![file] = {}]
          /\ output' = [output EXCEPT ![j] = file]
      BY <1>1, <2>0, Zenon DEF X!ChildOpens
    <3>. QED
      BY <3>1, <3>2
  <2>2. X!Alive(j) /\ output[j] = None /\ UNCHANGED <<pc, result, rc, matched>>
    BY <1>1 DEF X!ChildOpens
  <2>. QED
    BY <1>0, <2>0, <2>1, <2>2
<1>2. CASE X!ChildWrites(j)
  <2>1. /\ X!Alive(j) /\ output[j] # None /\ matched' = matched \union {j}
        /\ contents' = [contents EXCEPT ![output[j]] = @ \union {j}]
        /\ UNCHANGED <<pc, result, rc, output, dir>>
    BY <1>2 DEF X!ChildWrites
  <2>2. output[j] \in Jobs /\ NameOf[output[j]] = NameOf[j]
    BY <1>0, <2>1 DEF Linked
  <2>. QED
    BY <1>0, <2>1, <2>2
<1>. QED
  BY <1>1, <1>2 DEF ChildWrites

\* The sweep unlinks the file it is deleting, and changes no other.
LEMMA SweepMoves ==
  ASSUME FInv, Sweep
  PROVE  /\ UNCHANGED <<listener, runner, contents, written, now>>
         /\ dir' \in [Names -> Jobs \union {None}]
         /\ \A n \in Names : dir'[n] = dir[n] \/ (dir'[n] = None /\ n \in victim)
<1>0. /\ FilesTyped /\ UNCHANGED <<listener, runner, contents, written, now>> /\ R!SweepStep
      /\ UNCHANGED dir \/ \E n \in Names : dir' = [dir EXCEPT ![n] = None]
  BY DEF FInv, FilesInv, Sweep
<1>1. dir' \in [Names -> Jobs \union {None}]
  BY <1>0 DEF FilesTyped
<1>2. \A n \in Names : dir'[n] # dir[n] => dir[n] # None /\ dir'[n] = None
  BY <1>0 DEF FilesTyped
<1>. DEFINE there == {n \in Names : dir[n] # None}
<1>3. \A n \in there : n \in there' \/ n \in victim
  <2>1. CASE \E n \in Names : R!Remove(n)
    BY <2>1 DEF R!Remove, R!Unlink, R!disk
  <2>2. CASE ~ \E n \in Names : R!Remove(n)
    BY <1>0, <2>2 DEF R!SweepStep, R!List, R!Stat, R!StartAgePass, R!StartSizePass,
       R!EndSizePass, R!Await, R!AgeDelete, R!SizeDelete, R!Exists, R!disk
  <2>. QED
    BY <2>1, <2>2
<1>. QED
  BY <1>0, <1>1, <1>2, <1>3
-----------------------------------------------------------------------------
(* That they are kept                                                      *)

Books == <<stage, asOf, unseen, seenMtime, doomed, victim, call>>

\* What a step that is not the sweep's may do to the file behind a URL.
LEMMA SeenStays ==
  ASSUME NEW j \in Jobs, Seen(j), UNCHANGED Books,
         Sent(j)' /\ Intact(j)' =>
            /\ Sent(j) /\ Intact(j) /\ X!Target(j)' = X!Target(j)
            /\ written'[X!Target(j)] = written[X!Target(j)]
  PROVE  Seen(j)'
<1>1. UNCHANGED <<Condemned, seenMtime>>
  BY DEF Condemned, Books
<1>. QED
  BY <1>1 DEF Seen

LEMMA SweepListedStays ==
  ASSUME SweepListed, UNCHANGED Books, asOf <= now => asOf <= now'
  PROVE  SweepListed'
<1>1. UNCHANGED <<Condemned, stage, asOf, unseen, seenMtime, doomed, victim, call>>
  BY DEF Condemned, Books
<1>. QED
  BY <1>1 DEF SweepListed

\* Nothing is answered during a sweep.
LEMMA HandlingFiles ==
  ASSUME FInv, Handling
  PROVE  FilesInv'
<1>1. UNCHANGED <<pc, result, rc, output, matched, dir, contents, written, now>>
      /\ UNCHANGED Books
  BY HandlerMoves DEF runner, files, task, Books
<1>2. PICK j \in Jobs : Moves(j)
  BY HandlerMoves
<1>3. FilesTyped' /\ Linked' /\ SweepListed'
  BY <1>1, SweepListedStays DEF FInv, FilesInv, FilesTyped, Linked, Books
<1>4. ASSUME NEW k \in Jobs PROVE Progress(k)'
  <2>1. CASE k = j
    BY <1>1, <1>2, <2>1 DEF FInv, FilesInv, Progress, Moves
  <2>2. CASE k # j
    BY <1>1, <1>2, <2>2 DEF FInv, FilesInv, Progress, Moves
  <2>. QED
    BY <2>1, <2>2
<1>5. ASSUME NEW k \in Jobs PROVE Seen(k)'
  <2>1. CASE Sent(k)' => Sent(k)
    BY <1>1, <2>1, SeenStays DEF FInv, FilesInv, Intact, X!Target
  <2>2. CASE Sent(k)' /\ ~Sent(k)
    <3>1. answer'[k] = "200" /\ answer[k] # "200" /\ k = j
      BY <1>1, <1>2, <2>2 DEF Sent, Moves
    <3>2. Respond(j)
      BY <1>2, <3>1 DEF Moves
    <3>3. stage = "waiting" /\ doomed = {} /\ Condemned = {}
      BY <3>2 DEF Respond, OnLoop, FInv, FilesInv, SweepListed, Condemned
    <3>4. Condemned' = Condemned
      BY <1>1 DEF Condemned, Books
    <3>. QED
      BY <3>3, <3>4 DEF Seen
  <2>. QED
    BY <2>1, <2>2
<1>. QED
  BY <1>3, <1>4, <1>5 DEF FilesInv

LEMMA RunFiles ==
  ASSUME FInv, NEW j \in Jobs, Run(j)
  PROVE  FilesInv'
<1>1. /\ step[j] \in L!InThread /\ step'[j] \in L!InThread \union {"returned"}
      /\ step'[j] = "returned" <=> pc'[j] = "done"
      /\ \A k \in Jobs \ {j} : step'[k] = step[k] /\ pc'[k] = pc[k] /\ result'[k] = result[k]
      /\ UNCHANGED <<up, active, answer, rc, output, matched, contents, written, now>>
      /\ UNCHANGED Books
      /\ dir' \in [Names -> Jobs \union {None}]
      /\ \A n \in Names : dir'[n] = dir[n] \/ (n = NameOf[j] /\ dir'[n] = None)
      /\ pc'[j] \in {"ready", "spawn"} => pc[j] \in {"ready", "spawn"}
      /\ pc'[j] \in {"exists", "getsize", "report", "recheck", "remove"} => rc[j] = "zero"
  BY RunMoves DEF task, Books
<1>2. FilesTyped' /\ Linked' /\ SweepListed'
  BY <1>1, SweepListedStays DEF FInv, FilesInv, FilesTyped, Linked, Books
<1>3. ASSUME NEW k \in Jobs \ {j} PROVE Progress(k)'
  BY <1>1 DEF FInv, FilesInv, Progress
<1>4. Progress(j)'
  BY <1>1 DEF FInv, FilesInv, Progress, L!InThread
<1>5. ASSUME NEW k \in Jobs PROVE Seen(k)'
  <2>1. Sent(k)' => Sent(k)
    BY <1>1 DEF FInv, FilesInv, Progress, Sent, L!InThread
  <2>2. Intact(k)' => Intact(k) /\ X!Target(k)' = X!Target(k)
    BY <1>1 DEF Intact, X!Target
  <2>. QED
    BY <1>1, <2>1, <2>2, SeenStays DEF FInv, FilesInv
<1>. QED
  BY <1>2, <1>3, <1>4, <1>5 DEF FilesInv

\* What another job's child does to the file behind a URL, it leaves it alone or
\* spoils it.
LEMMA ChildSpoils ==
  ASSUME FInv, NEW j \in Jobs, ChildWrites(j), NEW k \in Jobs, pc[k] = "done", Intact(k)'
  PROVE  /\ Intact(k) /\ X!Target(k)' = X!Target(k)
         /\ written'[X!Target(k)] = written[X!Target(k)]
<1>. DEFINE g == output'[j]
<1>1. /\ pc[j] = "wait" /\ g \in Jobs /\ NameOf[g] = NameOf[j]
      /\ written' = [written EXCEPT ![g] = now]
      /\ \A f \in Jobs : f # g => contents'[f] = contents[f]
      /\ \A n \in Names : dir'[n] = dir[n] \/ (n = NameOf[j] /\ dir'[n] = g)
      /\ dir' \in [Names -> Jobs \union {None}]
  BY ChildMoves DEF X!Alive
<1>2. \/ output[j] = None /\ dir'[NameOf[j]] = g /\ contents'[g] = {}
      \/ output' = output /\ dir' = dir /\ j \in contents'[g]
  BY ChildMoves
<1>3. /\ k # j /\ dir'[NameOf[k]] \in Jobs /\ dir'[NameOf[k]] # None
      /\ contents'[dir'[NameOf[k]]] = {k}
  BY <1>1 DEF Intact, X!Target
<1>4. dir'[NameOf[k]] # g
  BY <1>2, <1>3
<1>5. dir'[NameOf[k]] = dir[NameOf[k]]
  BY <1>1, <1>4
<1>. HIDE DEF g
<1>. QED
  BY <1>1, <1>3, <1>4, <1>5 DEF Intact, X!Target, FInv, FilesInv, FilesTyped

LEMMA ChildFiles ==
  ASSUME FInv, NEW j \in Jobs, ChildWrites(j)
  PROVE  FilesInv'
<1>1. /\ X!Alive(j) /\ UNCHANGED <<step, answer, pc, result, rc, now>>
      /\ UNCHANGED Books
      /\ output'[j] \in Jobs /\ NameOf[output'[j]] = NameOf[j]
      /\ output' \in [Jobs -> Jobs \union {None}] /\ dir' \in [Names -> Jobs \union {None}]
      /\ contents' \in [Jobs -> SUBSET Jobs] /\ matched' \in SUBSET Jobs
      /\ written' = [written EXCEPT ![output'[j]] = now]
      /\ \A k \in Jobs \ {j} : output'[k] = output[k] /\ (k \in matched' <=> k \in matched)
      /\ \A n \in Names : dir'[n] = dir[n] \/ (n = NameOf[j] /\ dir'[n] = output'[j])
  BY ChildMoves DEF listener, task, Books
<1>2. \/ /\ output[j] = None /\ output'[j] = (IF X!Target(j) = None THEN j ELSE X!Target(j))
      \/ /\ output' = output /\ dir' = dir
  BY ChildMoves
<1>3. FilesTyped' /\ SweepListed'
  BY <1>1, SweepListedStays DEF FInv, FilesInv, FilesTyped, Books
<1>4. Linked'
  <2>1. CASE output' = output /\ dir' = dir
    BY <2>1 DEF FInv, FilesInv, Linked
  <2>2. CASE output[j] = None /\ output'[j] = (IF X!Target(j) = None THEN j ELSE X!Target(j))
    <3>1. X!Target(j) # None => output[X!Target(j)] # None
      BY DEF FInv, FilesInv, FilesTyped, Linked, X!Target
    <3>2. output'[output'[j]] = output'[j]
      BY <1>1, <2>2, <3>1 DEF FInv, FilesInv, Linked, X!Target, FilesTyped
    <3>3. \A n \in Names : dir[n] # None => dir[n] # j
      BY <2>2 DEF FInv, FilesInv, Linked
    <3>4. \A n \in Names : dir'[n] # None => NameOf[dir'[n]] = n /\ output'[dir'[n]] = dir'[n]
      BY <1>1, <3>2, <3>3 DEF FInv, FilesInv, Linked, FilesTyped
    <3>5. \A k \in Jobs : output'[k] # None => NameOf[output'[k]] = NameOf[k]
      BY <1>1 DEF FInv, FilesInv, Linked
    <3>. QED
      BY <3>4, <3>5 DEF Linked
  <2>. QED
    BY <1>2, <2>1, <2>2
<1>5. ASSUME NEW k \in Jobs PROVE Progress(k)'
  BY <1>1, ChildMoves DEF FInv, FilesInv, Progress, X!Alive
<1>6. ASSUME NEW k \in Jobs PROVE Seen(k)'
  <2>1. (Sent(k)' => Sent(k)) /\ (Sent(k) => pc[k] = "done")
    BY <1>1 DEF FInv, FilesInv, Progress, Sent
  <2>. QED
    BY <1>1, <2>1, ChildSpoils, SeenStays DEF FInv, FilesInv
<1>. QED
  BY <1>3, <1>4, <1>5, <1>6 DEF FilesInv

LEMMA ExitFiles ==
  ASSUME FInv, NEW j \in Jobs, ChildExits(j)
  PROVE  FilesInv'
<1>0. /\ Typed /\ X!Alive(j)
      /\ \E status \in {"zero", "nonzero"} : rc' = [rc EXCEPT ![j] = status]
      /\ UNCHANGED <<pc, result, output, matched, dir, contents, written, now, answer>>
      /\ UNCHANGED Books
      /\ step' = IF step[j] = "running" THEN [step EXCEPT ![j] = "exited"] ELSE step
  BY DEF FInv, IInv, ChildExits, X!ChildExits, L!ChildExits, L!OrphanExits, L!Goto, task, Books
<1>1. FilesTyped' /\ Linked' /\ SweepListed'
  BY <1>0, SweepListedStays DEF FInv, FilesInv, FilesTyped, Linked, Books
<1>2. ASSUME NEW k \in Jobs PROVE Progress(k)'
  BY <1>0 DEF FInv, FilesInv, Progress, Typed, X!Alive
<1>3. ASSUME NEW k \in Jobs PROVE Seen(k)'
  BY <1>0, SeenStays DEF FInv, FilesInv, Sent, Intact, X!Target
<1>. QED
  BY <1>1, <1>2, <1>3 DEF FilesInv

\* A sweep that sees the capture behind a URL sees its last version.
LEMMA StatFiles ==
  ASSUME FInv, Sweep, NEW n \in Names, R!Stat(n)
  PROVE  FilesInv'
<1>0. FilesTyped /\ Linked /\ SweepListed
  BY DEF FInv, FilesInv
<1>1. /\ UNCHANGED <<step, answer, pc, result, rc, output, matched, contents, written, now>>
      /\ dir' = dir
  <2>1. \A m \in Names : m \notin victim
    BY <1>0 DEF R!Stat, SweepListed
  <2>2. dir' \in [Names -> Jobs \union {None}] /\ \A m \in Names : dir'[m] = dir[m]
    BY <2>1, SweepMoves
  <2>. QED
    BY <1>0, <2>2, SweepMoves DEF FilesTyped, listener, runner
<1>2. /\ n \in unseen /\ unseen' = unseen \ {n} /\ stage = "stat" /\ stage' = stage
      /\ asOf' = asOf /\ UNCHANGED <<victim, call>>
  BY DEF R!Stat, R!deletion
<1>3. \/ dir[n] = None /\ UNCHANGED <<seenMtime, doomed>>
      \/ /\ dir[n] # None /\ seenMtime' = [seenMtime EXCEPT ![n] = written[dir[n]]]
         /\ \/ /\ MaxAge > 0 /\ asOf - written[dir[n]] > MaxAge
               /\ doomed' = doomed \union {n}
            \/ doomed' = doomed
  BY DEF R!Stat, R!Expired
<1>4. dir[n] # None => dir[n] \in Jobs /\ written[dir[n]] \in Nat
  BY <1>0 DEF FilesTyped
<1>5. FilesTyped' /\ Linked'
  BY <1>0, <1>1, <1>2, <1>3, <1>4 DEF FilesTyped, Linked
<1>6. Condemned = doomed /\ Condemned' = doomed' /\ n \notin doomed
  BY <1>0, <1>2 DEF Condemned, SweepListed
<1>7. SweepListed'
  BY <1>0, <1>1, <1>2, <1>3, <1>4, <1>6 DEF FilesTyped, SweepListed
<1>8. ASSUME NEW k \in Jobs PROVE Progress(k)' /\ Seen(k)'
  <2>1. Progress(k)'
    BY <1>1 DEF FInv, FilesInv, Progress
  <2>2. /\ Sent(k)' <=> Sent(k)
        /\ Intact(k)' <=> Intact(k)
        /\ X!Target(k)' = X!Target(k) /\ Seen(k)
    BY <1>1 DEF FInv, FilesInv, Sent, Intact, X!Target
  <2>3. Sent(k)' /\ Intact(k)' /\ NameOf[k] \in doomed'
          => written[X!Target(k)] <= seenMtime'[NameOf[k]]
    <3>1. CASE NameOf[k] # n
      <4>1. seenMtime'[NameOf[k]] = seenMtime[NameOf[k]]
        BY <1>0, <1>3, <3>1 DEF FilesTyped
      <4>2. NameOf[k] \in doomed' => NameOf[k] \in doomed
        BY <1>3, <3>1
      <4>. QED
        BY <1>6, <2>2, <4>1, <4>2 DEF Seen
    <3>2. CASE NameOf[k] = n
      BY <1>0, <1>3, <1>4, <1>6, <3>2 DEF FilesTyped, X!Target
    <3>. QED
      BY <3>1, <3>2
  <2>4. written'[X!Target(k)'] = written[X!Target(k)]
    BY <1>1, <2>2
  <2>5. Seen(k)'
    BY <1>6, <2>3, <2>4 DEF Seen
  <2>. QED
    BY <2>1, <2>5
<1>. QED
  BY <1>5, <1>7, <1>8 DEF FilesInv

LEMMA SweepFiles ==
  ASSUME FInv, Sweep
  PROVE  FilesInv'
<1>0. FilesTyped /\ Linked /\ SweepListed
  BY DEF FInv, FilesInv
<1>1. /\ UNCHANGED <<step, answer, pc, result, rc, output, matched, contents, written, now>>
      /\ dir' \in [Names -> Jobs \union {None}]
      /\ \A n \in Names : dir'[n] = dir[n] \/ dir'[n] = None
  BY SweepMoves DEF listener, runner
<1>2. R!SweepStep
  BY DEF Sweep
<1>3. CASE \E n \in Names : R!Stat(n)
  BY <1>3, StatFiles
<1>4. CASE ~ \E n \in Names : R!Stat(n)
  <2>1. /\ unseen' \intersect doomed' = {} /\ unseen' \in SUBSET Names
        /\ doomed' \in SUBSET Names /\ victim' \in SUBSET Names
        /\ seenMtime' \in [Names -> Nat] /\ asOf' \in Nat /\ asOf' <= now
        /\ stage' \in {"waiting", "stopped"} => doomed' = {}
        /\ stage' = "size" => MaxTotal > 0
        /\ call' = "choose" => victim' = {}
        /\ victim' # {} => stage' \in {"age", "size"}
        /\ Condemned' \subseteq Condemned
        /\ Condemned' # {} => asOf' = asOf /\ seenMtime' = seenMtime
    <3>. USE <1>0 DEF FilesTyped, SweepListed, Condemned
    <3>1. CASE R!List
      BY <3>1 DEF R!List, R!deletion
    <3>2. CASE R!StartAgePass \/ R!StartSizePass \/ R!EndSizePass
      BY <3>2 DEF R!StartAgePass, R!StartSizePass, R!EndSizePass, R!sweep, R!snapshot, R!deletion
    <3>3. CASE R!Await
      BY <3>3 DEF R!Await, R!Forget, R!Nowhere
    <3>4. CASE \E n \in Names : R!AgeDelete(n) \/ R!SizeDelete(n)
      BY <3>4 DEF R!AgeDelete, R!SizeDelete, R!GetSize, R!snapshot
    <3>5. CASE \E n \in Names : R!Remove(n) \/ R!Exists(n)
      BY <3>5 DEF R!Remove, R!Exists, R!Settle, R!snapshot
    <3>. QED
      BY <1>2, <1>4, <3>1, <3>2, <3>3, <3>4, <3>5 DEF R!SweepStep
  <2>2. FilesTyped' /\ Linked'
    BY <1>0, <1>1, <2>1 DEF FilesTyped, Linked
  <2>3. SweepListed'
    BY <1>0, <1>1, <2>1 DEF SweepListed
  <2>4. ASSUME NEW k \in Jobs PROVE Progress(k)' /\ Seen(k)'
    <3>1. Progress(k)'
      BY <1>1 DEF FInv, FilesInv, Progress
    <3>2. /\ Sent(k)' <=> Sent(k)
          /\ Intact(k)' => Intact(k) /\ X!Target(k)' = X!Target(k)
          /\ Seen(k)
      BY <1>1 DEF FInv, FilesInv, Sent, Intact, X!Target
    <3>. QED
      BY <1>1, <2>1, <3>1, <3>2 DEF Seen
  <2>. QED
    BY <2>2, <2>3, <2>4 DEF FilesInv
<1>. QED
  BY <1>3, <1>4

LEMMA WorkerFiles ==
  ASSUME FInv, Crash \/ Restart
  PROVE  FilesInv'
<1>1. UNCHANGED <<pc, result, rc, output, matched, dir, contents, written, now>>
  BY DEF Crash, Restart, runner, files
<1>2. CASE Crash
  <2>1. /\ step' = [k \in Jobs |-> "idle"] /\ stage' = "stopped"
        /\ answer' = [k \in Jobs |-> IF step[k] = "idle" THEN answer[k] ELSE "lost"]
        /\ asOf' = 0 /\ unseen' = {} /\ doomed' = {} /\ victim' = {}
        /\ seenMtime' = [n \in Names |-> 0] /\ Condemned' = {}
    BY <1>2 DEF Crash, L!Crash, R!Stop, R!Forget, R!Nowhere, Condemned
  <2>2. FilesTyped' /\ Linked' /\ SweepListed'
    BY <1>1, <2>1 DEF FInv, FilesInv, FilesTyped, Linked, SweepListed
  <2>3. ASSUME NEW k \in Jobs PROVE Progress(k)' /\ Seen(k)'
    BY <1>1, <2>1 DEF FInv, FilesInv, Progress, Seen
  <2>. QED
    BY <2>2, <2>3 DEF FilesInv
<1>3. CASE Restart
  <2>1. /\ UNCHANGED <<step, answer>> /\ stage = "stopped" /\ stage' = "waiting"
        /\ UNCHANGED <<asOf, unseen, seenMtime, doomed, victim, call>>
    BY <1>3 DEF Restart, L!Restart, R!Start, R!sweep, R!deletion
  <2>2. Condemned = {} /\ Condemned' = {}
    BY <2>1 DEF FInv, FilesInv, SweepListed, Condemned
  <2>3. FilesTyped' /\ Linked' /\ SweepListed'
    BY <1>1, <2>1, <2>2 DEF FInv, FilesInv, FilesTyped, Linked, SweepListed
  <2>4. ASSUME NEW k \in Jobs PROVE Progress(k)' /\ Seen(k)'
    BY <1>1, <2>1, <2>2 DEF FInv, FilesInv, Progress, Seen
  <2>. QED
    BY <2>3, <2>4 DEF FilesInv
<1>. QED
  BY <1>2, <1>3

LEMMA TickFiles ==
  ASSUME FInv, Tick
  PROVE  FilesInv'
<1>1. /\ UNCHANGED <<step, answer, pc, result, rc, output, matched, dir, contents, written>>
      /\ UNCHANGED Books /\ now' = now + 1
  BY DEF Tick, R!Tick, listener, runner, files, task, Books
<1>2. FilesTyped' /\ Linked' /\ SweepListed'
  BY <1>1, SweepListedStays DEF FInv, FilesInv, FilesTyped, Linked, Books
<1>3. ASSUME NEW k \in Jobs PROVE Progress(k)' /\ Seen(k)'
  BY <1>1, SeenStays DEF FInv, FilesInv, Progress, Sent, Intact, X!Target
<1>. QED
  BY <1>2, <1>3 DEF FilesInv

LEMMA StepFiles ==
  ASSUME FInv, [Next]_vars
  PROVE  FInv'
<1>1. IInv'
  BY StepKeeps DEF FInv
<1>2. CASE UNCHANGED vars
  <2>1. UNCHANGED <<step, answer, pc, result, rc, output, matched, dir, contents, written, now>>
        /\ UNCHANGED Books
    BY <1>2 DEF vars, listener, runner, files, task, Books
  <2>2. FilesTyped' /\ Linked' /\ SweepListed'
    BY <2>1, SweepListedStays DEF FInv, FilesInv, FilesTyped, Linked, Books
  <2>3. ASSUME NEW k \in Jobs PROVE Progress(k)' /\ Seen(k)'
    BY <2>1, SeenStays DEF FInv, FilesInv, Progress, Sent, Intact, X!Target
  <2>. QED
    BY <1>1, <2>2, <2>3 DEF FInv, FilesInv
<1>. QED
  BY <1>1, <1>2, HandlingFiles, RunFiles, ChildFiles, ExitFiles, SweepFiles, WorkerFiles,
     TickFiles DEF Next, Handling, FInv

LEMMA FilesInvariance == Spec => []FInv
BY InitFiles, StepFiles, PTL DEF Spec
-----------------------------------------------------------------------------
(* The slot                                                                *)

USE DEF LimitAssumption

\* With a limit of one the counter is exact enough to keep the slot to one job.
Alone ==
    MaxConcurrentExtractions <= 1 =>
        /\ active \in Nat
        /\ \A j \in Jobs : step[j] # "idle" => up
        /\ \A j, k \in Jobs : step[j] \in L!Holding /\ step[k] \in L!Holding => j = k
        /\ \A j \in Jobs : step[j] \in L!Holding => active >= 1

LEMMA StepAlone ==
  ASSUME FInv, Alone, [Next]_vars
  PROVE  Alone'
<1>. SUFFICES ASSUME MaxConcurrentExtractions <= 1 PROVE Alone'
  BY DEF Alone
<1>0. L!Limit = 1 /\ step \in [Jobs -> L!Steps]
  BY DEF L!Limit, FInv, FilesInv, IInv, Typed
<1>. USE DEF Alone, L!Goto, L!Reply, L!Holding, L!InThread
<1>1. ASSUME NEW j \in Jobs, Receive(j) PROVE Alone'
  BY <1>0, <1>1 DEF Receive, L!Post
<1>2. ASSUME NEW j \in Jobs, Handle(j) PROVE Alone'
  <2>1. CASE L!CheckHeader(j, "ok") \/ L!Refuse(j)
    BY <1>0, <2>1 DEF L!CheckHeader, L!Refuse
  <2>2. CASE L!FailToParse(j)
    BY <1>0, <2>2 DEF L!FailToParse
  <2>3. CASE L!Admit(j)
    <3>1. active' = active + 1 /\ active = 0 /\ step' = [step EXCEPT ![j] = "queued"]
          /\ step[j] = "body" /\ up' = up
      BY <1>0, <2>3 DEF L!Admit, L!GateFull
    <3>2. \A k \in Jobs : step[k] \notin L!Holding
      BY <3>1
    <3>. QED
      BY <1>0, <3>1, <3>2
  <2>. QED
    BY <1>2, <2>1, <2>2, <2>3 DEF Handle
<1>3. ASSUME NEW j \in Jobs, Respond(j) PROVE Alone'
  <2>1. /\ step[j] = "returned" /\ step' = [step EXCEPT ![j] = "idle"]
        /\ active' = active - 1 /\ up' = up
    BY <1>3 DEF Respond, L!Respond
  <2>2. active >= 1 /\ \A k \in Jobs \ {j} : step[k] \notin L!Holding
    BY <2>1
  <2>. QED
    BY <1>0, <2>1, <2>2
<1>4. CASE StartJob
  <2>1. /\ queue # <<>> /\ step' = [step EXCEPT ![Head(queue)] = "thread"]
        /\ active' = active /\ up' = up
    BY <1>4 DEF StartJob, L!StartJob
  <2>2. PICK j \in Jobs : j = Head(queue) /\ step[j] = "queued"
    BY <2>1 DEF FInv, FilesInv, IInv, Typed, Queued
  <2>. QED
    BY <1>0, <2>1, <2>2
<1>5. ASSUME NEW j \in Jobs, Run(j) PROVE Alone'
  BY <1>0, <1>5, RunMoves
<1>6. ASSUME NEW j \in Jobs, ChildExits(j) PROVE Alone'
  BY <1>0, <1>6 DEF ChildExits, L!ChildExits, L!OrphanExits
<1>7. CASE Crash \/ Restart
  BY <1>0, <1>7 DEF Crash, L!Crash, Restart, L!Restart
<1>8. CASE (\E j \in Jobs : ChildWrites(j)) \/ Sweep \/ Tick \/ UNCHANGED vars
  BY <1>8 DEF ChildWrites, Sweep, Tick, vars, listener
<1>. QED
  BY <1>1, <1>2, <1>3, <1>4, <1>5, <1>6, <1>7, <1>8 DEF Next
-----------------------------------------------------------------------------
(* What becomes of a capture                                               *)

\* While k deletes the file of its MISS, that file is not the capture behind a URL.
Spared(j, k) ==
    /\ k \in Namesakes(j) /\ Sent(j)
    /\ step[k] \in L!InThread /\ pc[k] \in {"recheck", "remove"}
    => ~Intact(j)

CInv == /\ FInv /\ Alone
        /\ MaxConcurrentExtractions <= 1 => \A j, k \in Jobs : Spared(j, k)

\* The call before the deletion found no file, or an empty one.
LEMMA MissStep ==
  ASSUME FInv, NEW k \in Jobs, Run(k), pc'[k] \in {"recheck", "remove"}, NEW j \in Jobs,
         NameOf[j] = NameOf[k], Intact(j)'
  PROVE  pc[k] = "recheck" /\ pc'[k] = "remove" /\ Intact(j)
<1>0. Typed /\ FilesTyped /\ X!Caller(k) /\ contents' = contents
  BY RunMoves DEF FInv, FilesInv, IInv, Run
<1>1. /\ X!Target(j) = X!Target(k) /\ X!Target(j)' = X!Target(k)'
      /\ X!Target(k)' \in {X!Target(k), None}
  BY RunMoves DEF X!Target
<1>2. X!Target(k) # None /\ contents[X!Target(k)] = {j} /\ Intact(j)
  BY <1>0, <1>1 DEF Intact
<1>. USE DEF X!Goto, X!Finish
<1>3. pc'[k] \notin {"ready", "spawn", "wait", "exists", "getsize", "report", "done"}
  OBVIOUS
<1>4. CASE X!Prepare(k) \/ X!Spawn(k) \/ X!Timeout(k) \/ X!Wait(k) \/ X!Report(k)
  BY <1>0, <1>3, <1>4 DEF Typed, X!Prepare, X!Spawn, X!Timeout, X!Wait, X!Report
<1>5. CASE X!Exists(k) \/ X!GetSize(k)
  BY <1>0, <1>2, <1>3, <1>5 DEF Typed, X!Exists, X!GetSize
<1>6. CASE X!Recheck(k) \/ X!Remove(k)
  BY <1>0, <1>2, <1>3, <1>6 DEF Typed, X!Recheck, X!Remove
<1>. QED
  BY <1>0, <1>4, <1>5, <1>6 DEF X!Caller

LEMMA StepSpared ==
  ASSUME CInv, [Next]_vars, MaxConcurrentExtractions <= 1, NEW j \in Jobs, NEW k \in Jobs
  PROVE  Spared(j, k)'
<1>. SUFFICES ASSUME k # j, NameOf[k] = NameOf[j], Sent(j)', Intact(j)',
                     step'[k] \in L!InThread, pc'[k] \in {"recheck", "remove"}
              PROVE  FALSE
  BY DEF Spared, Namesakes
<1>0. FInv /\ Alone /\ Spared(j, k) /\ Progress(j) /\ Typed
  BY DEF CInv, FInv, FilesInv, IInv
<1>1. CASE Handling
  <2>1. UNCHANGED <<pc, result, dir, contents>>
    BY <1>0, <1>1, HandlerMoves DEF runner, files
  <2>2. PICK m \in Jobs : Moves(m)
    BY <1>0, <1>1, HandlerMoves
  <2>3. step[k] \in L!InThread
    BY <1>0, <2>1, <2>2 DEF Moves, L!InThread, FInv, IInv, Coupled
  <2>4. Sent(j)
    <3>. SUFFICES ASSUME ~Sent(j) PROVE FALSE
      OBVIOUS
    <3>1. step[j] = "returned"
      BY <2>1, <2>2 DEF Moves, Sent
    <3>. QED
      BY <1>0, <2>3, <3>1 DEF Alone, L!Holding
  <2>. QED
    BY <1>0, <2>1, <2>3, <2>4 DEF Spared, Namesakes, Intact, X!Target
<1>2. ASSUME NEW m \in Jobs, Run(m) PROVE FALSE
  <2>1. Sent(j)
    BY <1>0, <1>2, RunMoves DEF Progress, Sent, L!InThread
  <2>2. CASE m = k
    BY <1>0, <1>2, <2>1, <2>2, MissStep, RunMoves DEF Spared, Namesakes
  <2>3. CASE m # k
    <3>1. Intact(j) /\ step[k] \in L!InThread /\ pc[k] = pc'[k]
      BY <1>0, <1>2, <2>3, RunMoves DEF Intact, X!Target
    <3>. QED
      BY <1>0, <2>1, <3>1 DEF Spared, Namesakes
  <2>. QED
    BY <2>2, <2>3
<1>3. ASSUME NEW m \in Jobs, ChildWrites(m) PROVE FALSE
  <2>1. UNCHANGED <<step, answer, pc, result>>
    BY <1>0, <1>3, ChildMoves DEF listener
  <2>2. Sent(j) /\ pc[j] = "done"
    BY <1>0, <2>1 DEF Sent, Progress
  <2>3. Intact(j)
    BY <1>0, <1>3, <2>2, ChildSpoils
  <2>. QED
    BY <1>0, <2>1, <2>2, <2>3 DEF Spared, Namesakes
<1>4. ASSUME NEW m \in Jobs, ChildExits(m) PROVE FALSE
  <2>1. /\ UNCHANGED <<answer, pc, result, dir, contents>>
        /\ pc[m] = "wait"
        /\ step' = IF step[m] = "running" THEN [step EXCEPT ![m] = "exited"] ELSE step
    BY <1>4 DEF ChildExits, X!ChildExits, X!Alive, L!ChildExits, L!OrphanExits, L!Goto
  <2>2. step[k] \in L!InThread
    BY <1>0, <2>1 DEF Typed, L!InThread
  <2>. QED
    BY <1>0, <2>1, <2>2 DEF Spared, Namesakes, Sent, Intact, X!Target
<1>5. CASE Sweep
  <2>1. /\ UNCHANGED <<step, answer, pc, result, contents>>
        /\ Intact(j)
    BY <1>0, <1>5, SweepMoves DEF listener, runner, Intact, X!Target
  <2>. QED
    BY <1>0, <2>1 DEF Spared, Namesakes, Sent
<1>6. CASE Crash
  BY <1>6 DEF Crash, L!Crash, L!InThread
<1>7. CASE Restart \/ Tick \/ UNCHANGED vars
  <2>1. UNCHANGED <<step, answer, pc, result, dir, contents>>
    BY <1>7 DEF Restart, L!Restart, Tick, vars, listener, runner, files
  <2>. QED
    BY <1>0, <2>1 DEF Spared, Namesakes, Sent, Intact, X!Target
<1>. QED
  BY <1>1, <1>2, <1>3, <1>4, <1>5, <1>6, <1>7 DEF Next, Handling

LEMMA CaptureInvariance == Spec => []CInv
<1>1. Init => CInv
  <2>1. Init => Alone /\ \A j, k \in Jobs : Spared(j, k)
    BY DEF Init, L!Init, X!Init, Alone, Spared, L!InThread, L!Holding
  <2>. QED
    BY <2>1, InitFiles DEF CInv
<1>2. CInv /\ [Next]_vars => CInv'
  BY StepFiles, StepAlone, StepSpared DEF CInv
<1>. QED
  BY <1>1, <1>2, PTL DEF Spec

\* Whether j's URL still leads to its packets and to no others can change only by the
\* child of a namesake, by the deletion of its MISS, or by a sweep.
LEMMA CaptureStep ==
  ASSUME CInv, [Next]_vars, NEW j \in Jobs, Sent(j), Intact(j), ~Intact(j)'
  PROVE  \/ R!Aged(NameOf[j])
         \/ MaxTotal > 0 /\ stage = "size"
         \/ \E k \in Namesakes(j) :
               X!Alive(k) \/ (MaxConcurrentExtractions > 1 /\ pc[k] = "remove")
<1>. DEFINE n == NameOf[j]
            f == dir[n]
<1>0. FInv
  BY DEF CInv
<1>1. /\ step[j] = "idle" /\ pc[j] = "done"
      /\ f \in Jobs /\ NameOf[f] = n /\ f # None /\ contents[f] = {j}
      /\ ~(dir'[n] = f /\ contents'[f] = contents[f])
  BY <1>0 DEF FInv, FilesInv, FilesTyped, Linked, Progress, Sent, Intact, X!Target
<1>2. CASE Handling
  BY <1>0, <1>1, <1>2, HandlerMoves DEF files
<1>3. ASSUME NEW k \in Jobs, Run(k)
      PROVE  k \in Namesakes(j) /\ MaxConcurrentExtractions > 1 /\ pc[k] = "remove"
  <2>1. k \in Namesakes(j) /\ step[k] \in L!InThread /\ dir'[n] # dir[n]
    BY <1>0, <1>1, <1>3, RunMoves DEF Namesakes, L!InThread
  <2>2. pc[k] = "remove"
    BY <1>3, <2>1 DEF Run, X!Caller, X!Prepare, X!Spawn, X!Timeout, X!Wait, X!Exists, X!GetSize,
                      X!Report, X!Recheck, X!Remove
  <2>3. MaxConcurrentExtractions > 1
    BY <2>1, <2>2 DEF CInv, Spared
  <2>. QED
    BY <2>1, <2>2, <2>3
<1>4. ASSUME NEW k \in Jobs, ChildWrites(k) PROVE k \in Namesakes(j) /\ X!Alive(k)
  <2>1. /\ X!Alive(k) /\ NameOf[output'[k]] = NameOf[k] /\ output'[k] \in Jobs
        /\ \A g \in Jobs : g # output'[k] => contents'[g] = contents[g]
        /\ \A m \in Names : dir'[m] = dir[m] \/ m = NameOf[k]
    BY <1>0, <1>4, ChildMoves
  <2>2. k # j /\ NameOf[k] = n
    BY <1>1, <2>1 DEF X!Alive
  <2>. QED
    BY <2>1, <2>2 DEF Namesakes
<1>5. ASSUME Sweep PROVE R!Aged(n) \/ (MaxTotal > 0 /\ stage = "size")
  <2>1. contents' = contents /\ dir'[n] # dir[n] /\ n \in victim
    BY <1>0, <1>1, <1>5, SweepMoves
  <2>2. CASE stage = "size"
    BY <1>0, <2>2 DEF FInv, FilesInv, SweepListed
  <2>3. CASE stage # "size"
    <3>1. n \in Condemned /\ MaxAge > 0 /\ asOf - seenMtime[n] > MaxAge
      BY <1>0, <2>1, <2>3 DEF FInv, FilesInv, SweepListed, Condemned
    <3>2. written[f] <= seenMtime[n]
      BY <1>0, <3>1 DEF FInv, FilesInv, Seen, X!Target
    <3>3. seenMtime[n] \in Nat /\ written[f] \in Nat /\ asOf \in Nat /\ now \in Nat /\ asOf <= now
      BY <1>0, <1>1 DEF FInv, FilesInv, FilesTyped, SweepListed
    <3>4. now - written[f] > MaxAge
      BY <3>1, <3>2, <3>3
    <3>. QED
      BY <1>1, <3>1, <3>4 DEF R!Aged
  <2>. QED
    BY <2>2, <2>3
<1>6. CASE (\E k \in Jobs : ChildExits(k)) \/ Crash \/ Restart \/ Tick \/ UNCHANGED vars
  BY <1>1, <1>6 DEF ChildExits, X!ChildExits, Crash, Restart, Tick, vars, files
<1>. QED
  BY <1>2, <1>3, <1>4, <1>5, <1>6 DEF Next, Handling

\* The capture behind a URL that was sent goes for its age, for the budget, or because
\* a child writes to the file of its name, for any limits and however many alerts share
\* a name. With the shipped limit no extraction that fails or finds nothing takes an
\* earlier capture with it, in whatever order workers die and alerts are posted again.
THEOREM CapturesKept == Spec => CaptureKept
<1>1. CInv /\ [Next]_vars =>
        [\A j \in Jobs :
           Sent(j) /\ Intact(j) /\ ~Intact(j)'
             => \/ R!Aged(NameOf[j])
                \/ MaxTotal > 0 /\ stage = "size"
                \/ \E k \in Namesakes(j) :
                      X!Alive(k) \/ (MaxConcurrentExtractions > 1 /\ pc[k] = "remove")]_vars
  BY CaptureStep
<1>. QED
  BY <1>1, CaptureInvariance, PTL DEF Spec, CaptureKept
-----------------------------------------------------------------------------
(* The truth of a URL                                                      *)

DistinctNames == \A j, k \in Jobs : NameOf[j] = NameOf[k] => j = k

\* No two extractions of one name at once: no two of one name at all, or one at a
\* time, by children that do not succeed over what an earlier one left.
Exclusive == DistinctNames \/ (MaxConcurrentExtractions <= 1 /\ Creates)

\* No orphan has j's file open.
Clear(j) == \A k \in Namesakes(j) : ~Stranded(k)

\* Under the name of a job that has a slot stands nothing or what its child has
\* open, which holds its packets if it found any; it has looked at no other file.
OwnFile(j) ==
    Clear(j) /\ step[j] \in L!Holding =>
        /\ output[j] # None => /\ X!Target(j) \in {None, output[j]}
                               /\ contents[output[j]] = IF j \in matched THEN {j} ELSE {}
        /\ rc[j] = "zero" => output[j] # None \/ X!Target(j) = None
        /\ pc[j] = "report" => j \in matched
        /\ pc[j] = "done" /\ result[j] = "url" => j \in matched

OInv == FInv /\ Alone /\ \A j \in Jobs : OwnFile(j)

\* A stranded thread is not brought back.
LEMMA StrandedStays ==
  ASSUME FInv, [Next]_vars, NEW k \in Jobs, Stranded(k)
  PROVE  Stranded(k)'
<1>1. CASE Handling
  <2>1. UNCHANGED pc /\ \E j \in Jobs : Moves(j)
    BY <1>1, HandlerMoves DEF runner
  <2>. QED
    BY <2>1 DEF Moves, Stranded
<1>2. ASSUME NEW j \in Jobs, Run(j) PROVE Stranded(k)'
  BY <1>2, RunMoves DEF Stranded, L!InThread
<1>3. ASSUME NEW j \in Jobs, ChildExits(j) PROVE Stranded(k)'
  BY <1>3 DEF FInv, FilesInv, IInv, Typed, ChildExits, X!ChildExits, L!ChildExits, L!OrphanExits, L!Goto,
              Stranded
<1>4. CASE \/ \E j \in Jobs : ChildWrites(j)
           \/ Sweep \/ Crash \/ Restart \/ Tick \/ UNCHANGED vars
  BY <1>4 DEF ChildWrites, X!ChildOpens, X!ChildWrites, Sweep, Crash, L!Crash, Restart,
              L!Restart, Tick, vars, listener, runner, Stranded
<1>. QED
  BY <1>1, <1>2, <1>3, <1>4 DEF Next, Handling

\* Two jobs of one name do not hold a slot at once.
LEMMA OneOfAName ==
  ASSUME Exclusive, Alone, NEW j \in Jobs, NEW k \in Namesakes(j),
         step[j] \in L!Holding, step[k] \in L!Holding
  PROVE  FALSE
BY DEF Exclusive, DistinctNames, Alone, Namesakes

\* The steps of the child of m, as another job of a slot sees them.
LEMMA OtherChild ==
  ASSUME Exclusive, OInv, NEW j \in Jobs, step[j] \in L!Holding, Clear(j),
         NEW m \in Jobs \ {j}, ChildWrites(m)
  PROVE  /\ dir'[NameOf[j]] = dir[NameOf[j]] /\ output'[j] = output[j]
         /\ j \in matched' <=> j \in matched
         /\ output[j] # None => contents'[output[j]] = contents[output[j]]
<1>1. /\ X!Alive(m) /\ NameOf[output'[m]] = NameOf[m]
      /\ \A k \in Jobs \ {m} : output'[k] = output[k] /\ (k \in matched' <=> k \in matched)
      /\ \A f \in Jobs : f # output'[m] => contents'[f] = contents[f]
      /\ \A n \in Names : dir'[n] = dir[n] \/ n = NameOf[m]
  BY ChildMoves DEF OInv
<1>2. NameOf[m] # NameOf[j]
  <2>. SUFFICES ASSUME m \in Namesakes(j) PROVE FALSE
    BY DEF Namesakes
  <2>1. step[m] \in L!Holding
    BY <1>1, WaitingWhere DEF OInv, Clear, X!Alive, L!Holding
  <2>. QED
    BY <2>1, OneOfAName DEF OInv
<1>3. output[j] # None => output[j] \in Jobs /\ NameOf[output[j]] = NameOf[j]
  BY DEF OInv, FInv, FilesInv, FilesTyped, Linked
<1>. QED
  BY <1>1, <1>2, <1>3

LEMMA StepOwn ==
  ASSUME Exclusive, OInv, [Next]_vars, NEW j \in Jobs
  PROVE  OwnFile(j)'
<1>. SUFFICES ASSUME Clear(j)', step'[j] \in L!Holding PROVE OwnFile(j)'
  BY DEF OwnFile
<1>1. FInv /\ Alone /\ OwnFile(j) /\ Clear(j)
  BY StrandedStays DEF OInv, Clear, Namesakes
<1>2. CASE Handling
  <2>1. UNCHANGED <<pc, result, rc, output, matched, dir, contents>>
    BY <1>1, <1>2, HandlerMoves DEF runner, files
  <2>2. PICK m \in Jobs : Moves(m)
    BY <1>1, <1>2, HandlerMoves
  <2>3. CASE m = j
    <3>1. pc[j] = "ready" /\ rc[j] = "none" /\ output[j] = None
      BY <1>1, <2>2, <2>3 DEF Moves, L!Holding, L!InThread, FInv, FilesInv, IInv, Coupled, Progress
    <3>. QED
      BY <2>1, <3>1 DEF OwnFile
  <2>4. CASE m # j
    BY <1>1, <2>1, <2>2, <2>4 DEF Moves, OwnFile, X!Target
  <2>. QED
    BY <2>3, <2>4
<1>3. ASSUME NEW m \in Jobs, Run(m) PROVE OwnFile(j)'
  <2>1. /\ UNCHANGED <<rc, output, matched, contents>>
        /\ X!Target(j)' \in {X!Target(j), None} /\ step[j] \in L!Holding
    BY <1>1, <1>3, RunMoves DEF X!Target, L!Holding
  <2>2. CASE m # j
    BY <1>1, <1>3, <2>1, <2>2, RunMoves DEF OwnFile
  <2>3. CASE m = j
    <3>1. pc'[j] = "report" => X!Target(j) # None /\ contents[X!Target(j)] # {} /\ rc[j] = "zero"
      BY <1>1, <1>3, <2>3, RunMoves
    <3>2. pc'[j] = "report" => j \in matched
      BY <1>1, <2>1, <3>1 DEF OwnFile
    <3>3. pc'[j] = "done" /\ result'[j] = "url" => j \in matched
      BY <1>1, <1>3, <2>1, <2>3, RunMoves DEF OwnFile
    <3>. QED
      BY <1>1, <2>1, <3>2, <3>3 DEF OwnFile
  <2>. QED
    BY <2>2, <2>3
<1>4. ASSUME NEW m \in Jobs, ChildWrites(m) PROVE OwnFile(j)'
  <2>1. step' = step /\ UNCHANGED <<pc, result, rc>>
    BY <1>1, <1>4, ChildMoves DEF listener
  <2>2. CASE m # j
    BY <1>1, <1>4, <2>1, <2>2, OtherChild DEF OwnFile, X!Target
  <2>3. CASE m = j
    <3>1. pc[j] = "wait" /\ rc[j] = "none"
      BY <1>1, <1>4, <2>3, ChildMoves DEF X!Alive
    <3>2. CASE output[j] = None
      BY <1>1, <1>4, <2>1, <2>3, <3>1, <3>2, ChildMoves DEF OwnFile, X!Target, FInv, FilesInv, Progress
    <3>3. CASE output[j] # None
      <4>1. /\ output' = output /\ dir' = dir /\ matched' = matched \union {j}
            /\ contents'[output[j]] = contents[output[j]] \union {j}
        BY <1>1, <1>4, <2>3, <3>3, ChildMoves
      <4>2. /\ X!Target(j) \in {None, output[j]}
            /\ contents[output[j]] = IF j \in matched THEN {j} ELSE {}
        BY <1>1, <2>1, <3>3 DEF OwnFile
      <4>3. contents'[output[j]] = {j} /\ j \in matched'
        BY <4>1, <4>2
      <4>. QED
        BY <1>1, <2>1, <3>1, <4>1, <4>2, <4>3 DEF OwnFile, X!Target
    <3>. QED
      BY <3>2, <3>3
  <2>. QED
    BY <2>2, <2>3
<1>5. ASSUME NEW m \in Jobs, ChildExits(m) PROVE OwnFile(j)'
  <2>1. /\ UNCHANGED <<pc, result, output, matched, dir, contents>>
        /\ pc[m] = "wait" /\ rc[m] = "none"
        /\ \/ rc' = [rc EXCEPT ![m] = "nonzero"]
           \/ (Creates => output[m] # None) /\ rc' = [rc EXCEPT ![m] = "zero"]
        /\ step' = IF step[m] = "running" THEN [step EXCEPT ![m] = "exited"] ELSE step
    BY <1>5 DEF ChildExits, X!ChildExits, X!Alive, L!ChildExits, L!OrphanExits, L!Goto
  <2>2. rc \in [Jobs -> {"none", "zero", "nonzero"}] /\ step \in [Jobs -> L!Steps]
    BY <1>1 DEF FInv, FilesInv, IInv, Typed
  <2>3. step[j] \in L!Holding
    BY <2>1, <2>2 DEF L!Holding, L!InThread
  <2>4. CASE m # j
    BY <1>1, <2>1, <2>2, <2>3, <2>4 DEF OwnFile, X!Target
  <2>5. CASE m = j
    <3>1. output[j] = None /\ DistinctNames => X!Target(j) = None
      BY <1>1 DEF FInv, FilesInv, FilesTyped, Linked, DistinctNames, X!Target
    <3>2. rc'[j] = "zero" => output[j] # None \/ X!Target(j) = None
      BY <2>1, <2>2, <2>5, <3>1 DEF Exclusive
    <3>. QED
      BY <1>1, <2>1, <2>3, <2>5, <3>2 DEF OwnFile, X!Target
  <2>. QED
    BY <2>4, <2>5
<1>6. CASE Sweep
  <2>1. /\ UNCHANGED <<step, pc, result, rc, output, matched, contents>>
        /\ X!Target(j)' \in {X!Target(j), None}
    BY <1>1, <1>6, SweepMoves DEF listener, runner, X!Target
  <2>. QED
    BY <1>1, <2>1 DEF OwnFile
<1>7. CASE Crash
  BY <1>7 DEF Crash, L!Crash, L!Holding, L!InThread
<1>8. CASE Restart \/ Tick \/ UNCHANGED vars
  BY <1>1, <1>8 DEF Restart, L!Restart, Tick, vars, listener, runner, files, OwnFile, X!Target
<1>. QED
  BY <1>2, <1>3, <1>4, <1>5, <1>6, <1>7, <1>8 DEF Next, Handling

LEMMA OwnInvariance ==
  ASSUME Exclusive
  PROVE  Spec => []OInv
<1>1. Init => OInv
  <2>1. Init => Alone /\ \A j \in Jobs : OwnFile(j)
    BY DEF Init, L!Init, X!Init, Alone, OwnFile, L!Holding, L!InThread
  <2>. QED
    BY <2>1, InitFiles DEF OInv
<1>2. OInv /\ [Next]_vars => OInv'
  BY StepFiles, StepAlone, StepOwn DEF OInv
<1>. QED
  BY <1>1, <1>2, PTL DEF Spec

\* The answer with a URL comes when the file was measured, and is about it.
LEMMA UrlStep ==
  ASSUME OInv, [Next]_vars, NEW j \in Jobs, ~Sent(j), Sent(j)', Clear(j)
  PROVE  j \in matched /\ (Intact(j) \/ X!Target(j) = None)
<1>1. FInv /\ OwnFile(j) /\ Progress(j)
  BY DEF OInv, FInv, FilesInv
<1>2. CASE Handling
  <2>1. result' = result /\ \E m \in Jobs : Moves(m)
    BY <1>1, <1>2, HandlerMoves DEF runner
  <2>2. step[j] = "returned" /\ result[j] = "url"
    BY <2>1 DEF Moves, Sent
  <2>3. j \in matched /\ output[j] # None
    BY <1>1, <2>2 DEF OwnFile, Progress, L!Holding
  <2>. QED
    BY <1>1, <2>2, <2>3 DEF OwnFile, L!Holding, Intact
<1>3. ASSUME NEW m \in Jobs, Run(m) PROVE FALSE
  BY <1>1, <1>3, RunMoves DEF Progress, Sent, L!InThread
<1>4. CASE Crash
  BY <1>1, <1>4 DEF Crash, L!Crash, runner, Sent
<1>5. CASE \/ \E m \in Jobs : ChildWrites(m) \/ ChildExits(m)
           \/ Sweep \/ Restart \/ Tick \/ UNCHANGED vars
  <2>1. UNCHANGED <<answer, result>>
    BY <1>5 DEF ChildWrites, X!ChildOpens, X!ChildWrites, ChildExits, X!ChildExits,
       L!ChildExits, L!OrphanExits, Sweep, Restart, L!Restart, Tick, vars, listener, runner
  <2>. QED
    BY <2>1 DEF Sent
<1>. QED
  BY <1>2, <1>3, <1>4, <1>5 DEF Next, Handling

\* When a client is sent a URL, its own extraction found packets and the file
\* holds these and no others, or has been removed: with the shipped limit of one
\* extraction, however often an alert is posted again and however workers die, as
\* long as no orphan has a file of that name open. Without the limit alerts must
\* not share names.
THEOREM UrlsTrue ==
  ASSUME Exclusive
  PROVE  Spec => UrlTrueWhenSent
<1>1. OInv /\ [Next]_vars =>
        [\A j \in Jobs :
           ~Sent(j) /\ Sent(j)' /\ ~(\E k \in Namesakes(j) : Stranded(k))
             => j \in matched /\ (Intact(j) \/ X!Target(j) = None)]_vars
  BY UrlStep DEF Clear
<1>. QED
  BY <1>1, OwnInvariance, PTL DEF Spec, UrlTrueWhenSent
-----------------------------------------------------------------------------
(* The directory as Retention sees it. Below are its present, mtime and     *)
(* size, and one operation on one file is one step of its environment.     *)

Listed == {n \in Names : dir[n] # None}
Times  == [n \in Names |-> IF dir[n] = None THEN 0 ELSE written[dir[n]]]
Sizes  == [n \in Names |-> IF dir[n] = None THEN 0 ELSE Cardinality(contents[dir[n]])]

LEMMA SameFiles ==
  ASSUME FInv, UNCHANGED <<now, task>>, UNCHANGED <<Listed, Times, Sizes>>
  PROVE  UNCHANGED R!vars
<1>1. Yes' = Yes
  BY DEF Yes
<1>. QED
  BY <1>1 DEF task, Listed, Times, Sizes, R!vars, R!disk, R!sweep, R!deletion

LEMMA RemovalImplements ==
  ASSUME FInv, NEW n \in Names, dir' = [dir EXCEPT ![n] = None],
         UNCHANGED <<contents, written, now, task>>
  PROVE  [R!Next]_(R!vars)
<1>0. FilesTyped
  BY DEF FInv, FilesInv
<1>1. CASE dir[n] = None
  <2>1. dir' = dir
    BY <1>0, <1>1 DEF FilesTyped
  <2>2. UNCHANGED <<Listed, Times, Sizes>>
    BY <2>1 DEF Listed, Times, Sizes
  <2>. QED
    BY <2>2, SameFiles
<1>2. CASE dir[n] # None
  <2>1. \A m \in Names : dir'[m] = IF m = n THEN None ELSE dir[m]
    BY <1>0 DEF FilesTyped
  <2>2. n \in Listed /\ Listed' = Listed \ {n}
    BY <1>2, <2>1 DEF Listed
  <2>3. Times' = [Times EXCEPT ![n] = 0]
    <3>1. \A m \in Names : Times'[m] = IF m = n THEN 0 ELSE Times[m]
      BY <1>2, <2>1 DEF Times
    <3>2. Times' = [m \in Names |-> Times'[m]] /\ Times = [m \in Names |-> Times[m]]
      BY DEF Times
    <3>. QED
      BY <3>1, <3>2
  <2>4. Sizes' = [Sizes EXCEPT ![n] = 0]
    <3>1. \A m \in Names : Sizes'[m] = IF m = n THEN 0 ELSE Sizes[m]
      BY <1>2, <2>1 DEF Sizes
    <3>2. Sizes' = [m \in Names |-> Sizes'[m]] /\ Sizes = [m \in Names |-> Sizes[m]]
      BY DEF Sizes
    <3>. QED
      BY <3>1, <3>2
  <2>5. Yes /\ Yes' = Yes
    BY <1>0 DEF FilesTyped, Yes
  <2>6. R!RemoveMiss(n)
    BY <2>2, <2>3, <2>4, <2>5
       DEF Listed, Times, Sizes, task, R!RemoveMiss, R!ExtractionRuns, R!Unlink, R!sweep,
          R!deletion
  <2>. QED
    BY <2>6 DEF R!Next
<1>. QED
  BY <1>1, <1>2

LEMMA WriteImplements ==
  ASSUME FInv, NEW n \in Names, NEW file \in Jobs, NEW S \in SUBSET Jobs,
         dir' = [dir EXCEPT ![n] = file], \A m \in Names \ {n} : dir[m] # file,
         written' = [written EXCEPT ![file] = now], contents' = [contents EXCEPT ![file] = S],
         UNCHANGED <<now, task>>
  PROVE  [R!Next]_(R!vars)
<1>0. FilesTyped /\ file # None
  BY DEF FInv, FilesInv
<1>1. \A m \in Names : dir'[m] = IF m = n THEN file ELSE dir[m]
  BY <1>0 DEF FilesTyped
<1>2. /\ written'[file] = now /\ contents'[file] = S
      /\ \A k \in Jobs \ {file} : written'[k] = written[k] /\ contents'[k] = contents[k]
  BY <1>0 DEF FilesTyped
<1>3. \A m \in Names \ {n} : dir[m] # None => dir[m] \in Jobs \ {file}
  BY <1>0 DEF FilesTyped
<1>4. Listed' = Listed \union {n}
  BY <1>0, <1>1 DEF Listed
<1>5. Times' = [Times EXCEPT ![n] = now]
  <2>1. \A m \in Names : Times'[m] = IF m = n THEN now ELSE Times[m]
    BY <1>0, <1>1, <1>2, <1>3 DEF Times
  <2>2. Times' = [m \in Names |-> Times'[m]] /\ Times = [m \in Names |-> Times[m]]
    BY DEF Times
  <2>. QED
    BY <2>1, <2>2
<1>6. Sizes' = [Sizes EXCEPT ![n] = Cardinality(S)]
  <2>1. \A m \in Names : Sizes'[m] = IF m = n THEN Cardinality(S) ELSE Sizes[m]
    BY <1>0, <1>1, <1>2, <1>3 DEF Sizes
  <2>2. Sizes' = [m \in Names |-> Sizes'[m]] /\ Sizes = [m \in Names |-> Sizes[m]]
    BY DEF Sizes
  <2>. QED
    BY <2>1, <2>2
<1>7. Cardinality(S) \in 0 .. Cardinality(Jobs)
  BY FS_Subset, FS_CardinalityType
<1>8. Yes /\ Yes' = Yes
  BY <1>0 DEF FilesTyped, Yes
<1>9. R!Write(n)
  BY <1>4, <1>5, <1>6, <1>7, <1>8
     DEF Listed, Times, Sizes, task, R!Write, R!ExtractionRuns, R!sweep, R!deletion
<1>. QED
  BY <1>9 DEF R!Next

\* A child writes to the file of its name, or to one that is gone.
LEMMA ChildImplements ==
  ASSUME FInv, NEW j \in Jobs, ChildWrites(j)
  PROVE  [R!Next]_(R!vars)
<1>. DEFINE n == NameOf[j]
<1>0. FilesTyped /\ Linked /\ n \in Names /\ UNCHANGED <<now, task>>
  BY DEF FInv, FilesInv, ChildWrites
<1>1. CASE X!ChildOpens(j)
  <2>1. PICK file \in Jobs : file = IF X!Target(j) = None THEN j ELSE X!Target(j)
    BY <1>0 DEF FilesTyped, X!Target
  <2>2. /\ dir' = [dir EXCEPT ![n] = file] /\ contents' = [contents EXCEPT ![file] = {}]
        /\ output' = [output EXCEPT ![j] = file]
    BY <1>1, <2>1, Zenon DEF X!ChildOpens
  <2>3. written' = [written EXCEPT ![file] = now]
    <3>1. output'[j] = file /\ written' = [written EXCEPT ![output'[j]] = now]
      BY <1>0, <2>2 DEF FilesTyped, ChildWrites
    <3>. QED
      BY <3>1
  <2>4. NameOf[file] = n
    BY <1>0, <2>1 DEF Linked, X!Target
  <2>5. \A m \in Names \ {n} : dir[m] # file
    BY <1>0, <2>4 DEF Linked
  <2>6. {} \in SUBSET Jobs
    OBVIOUS
  <2>. HIDE DEF n
  <2>. QED
    BY <1>0, <2>2, <2>3, <2>5, <2>6, WriteImplements
<1>2. CASE X!ChildWrites(j)
  <2>1. PICK file \in Jobs : file = output[j]
    BY <1>0, <1>2 DEF FilesTyped, X!ChildWrites
  <2>2. /\ dir' = dir /\ output' = output
        /\ contents' = [contents EXCEPT ![file] = contents[file] \union {j}]
    BY <1>2, <2>1 DEF X!ChildWrites
  <2>3. written' = [written EXCEPT ![file] = now]
    BY <2>1, <2>2 DEF ChildWrites
  <2>4. NameOf[file] = n /\ contents[file] \union {j} \in SUBSET Jobs
    BY <1>0, <2>1 DEF Linked, FilesTyped
  <2>5. \A m \in Names \ {n} : dir[m] # file
    BY <1>0, <2>4 DEF Linked
  <2>6. CASE dir[n] = file
    <3>1. dir' = [dir EXCEPT ![n] = file]
      BY <1>0, <2>2, <2>6 DEF FilesTyped
    <3>. HIDE DEF n
    <3>. QED
      BY <1>0, <2>2, <2>3, <2>4, <2>5, <3>1, WriteImplements
  <2>7. CASE dir[n] # file
    <3>1. \A m \in Names : dir[m] # None =>
             written'[dir[m]] = written[dir[m]] /\ contents'[dir[m]] = contents[dir[m]]
      BY <1>0, <2>2, <2>3, <2>5, <2>7 DEF FilesTyped
    <3>2. UNCHANGED <<Listed, Times, Sizes>>
      <4>1. /\ \A m \in Names : Times'[m] = Times[m] /\ Sizes'[m] = Sizes[m]
            /\ Listed' = Listed
        BY <2>2, <3>1 DEF Listed, Times, Sizes
      <4>2. /\ Times' = [m \in Names |-> Times'[m]] /\ Times = [m \in Names |-> Times[m]]
            /\ Sizes' = [m \in Names |-> Sizes'[m]] /\ Sizes = [m \in Names |-> Sizes[m]]
        BY DEF Times, Sizes
      <4>. QED
        BY <4>1, <4>2
    <3>. QED
      BY <1>0, <3>2, SameFiles
  <2>. QED
    BY <2>6, <2>7
<1>. QED
  BY <1>1, <1>2 DEF ChildWrites

LEMMA StepRetains ==
  ASSUME FInv, [Next]_vars
  PROVE  [R!Next]_(R!vars)
<1>1. CASE Sweep \/ Crash \/ Restart \/ Tick
  BY <1>1 DEF Sweep, Crash, Restart, Tick, R!Next
<1>2. CASE \E j \in Jobs : ChildWrites(j)
  BY <1>2, ChildImplements
<1>3. ASSUME NEW j \in Jobs, Run(j) PROVE [R!Next]_(R!vars)
  <2>1. UNCHANGED <<contents, written, now, task>>
    BY <1>3 DEF Run, X!Caller, X!Prepare, X!Spawn, X!Timeout, X!Wait, X!Exists, X!GetSize,
                X!Report, X!Recheck, X!Remove
  <2>2. dir' = dir \/ dir' = [dir EXCEPT ![NameOf[j]] = None]
    BY <1>3 DEF Run, X!Caller, X!Prepare, X!Spawn, X!Timeout, X!Wait, X!Exists, X!GetSize,
                X!Report, X!Recheck, X!Remove
  <2>3. CASE dir' = dir
    <3>1. UNCHANGED <<Listed, Times, Sizes>>
      BY <2>1, <2>3 DEF Listed, Times, Sizes
    <3>. QED
      BY <2>1, <3>1, SameFiles
  <2>4. CASE dir' = [dir EXCEPT ![NameOf[j]] = None]
    <3>1. NameOf[j] \in Names
      OBVIOUS
    <3>. QED
      BY <2>1, <2>4, <3>1, RemovalImplements
  <2>. QED
    BY <2>2, <2>3, <2>4
<1>4. CASE Handling \/ (\E j \in Jobs : ChildExits(j)) \/ UNCHANGED vars
  <2>1. UNCHANGED <<dir, contents, written, now, task>>
    <3>1. CASE Handling
      BY <3>1, HandlerMoves DEF files
    <3>2. ASSUME NEW j \in Jobs, ChildExits(j) PROVE UNCHANGED <<dir, contents, written, now, task>>
      BY <3>2 DEF ChildExits, X!ChildExits
    <3>3. CASE UNCHANGED vars
      BY <3>3 DEF vars, files
    <3>. QED
      BY <1>4, <3>1, <3>2, <3>3
  <2>2. UNCHANGED <<Listed, Times, Sizes>>
    BY <2>1 DEF Listed, Times, Sizes
  <2>. QED
    BY <2>1, <2>2, SameFiles
<1>. QED
  BY <1>1, <1>2, <1>3, <1>4 DEF Next, Handling

\* What runs beside the sweeps keeps to what Retention lets run beside them, so
\* that its sweeps among arbitrary extractions are sweeps among the real ones.
THEOREM RetentionKept == Spec => R!Safe
<1>1. Init => R!Init
  BY DEF Init
<1>2. FInv /\ [Next]_vars => [R!Next]_(R!vars)
  BY StepRetains
<1>. QED
  BY <1>1, <1>2, FilesInvariance, PTL DEF Spec, R!Safe
=============================================================================
