-------------------------- MODULE Listener_proofs --------------------------
(***************************************************************************)
(* Proofs about Listener for any finite set of clients, any configured     *)
(* limit, any pool and any number of crashes and orphans; and about the    *)
(* stop of its worker.                                                     *)
(***************************************************************************)
EXTENDS Shutdown, FiniteSetTheorems, TLAPS

USE ClientsAssumption, LimitAssumption, PoolAssumption, OrphanAssumption

\* A dead worker runs no handler and has no queue.
DeadIdle == ~up => queue = <<>> /\ \A c \in Clients : pc[c] = "idle"
SlotsKept == Cardinality(Holders) <= Limit

\* The executor's queue holds the requests that wait for a thread, each once.
QueueExact ==
    /\ \A i, j \in 1 .. Len(queue) : queue[i] = queue[j] => i = j
    /\ \A c \in Clients :
          pc[c] = "queued" <=> \E i \in 1 .. Len(queue) : queue[i] = c

\* The inductive invariant. ActiveMatches is not inductive alone: Respond
\* needs that a request to respond to has a living worker (DeadIdle), and
\* StartJob that the head of the queue is a request that waits (QueueExact).
Kept == /\ DeadIdle
        /\ ActiveMatches
        /\ SlotsKept
        /\ QueueExact

IInv == TypeOK /\ Kept
-----------------------------------------------------------------------------
LEMMA LimitPositive == Limit \in Nat /\ Limit >= 1
  BY DEF Limit

\* Holders and Running are finite, the second a part of the first.
LEMMA FiniteParts ==
  ASSUME TypeOK
  PROVE  /\ IsFiniteSet(Holders) /\ Cardinality(Holders) \in Nat
         /\ IsFiniteSet(Running) /\ Cardinality(Running) \in Nat
         /\ Cardinality(Running) <= Cardinality(Holders)
<1>1. Holders \subseteq Clients /\ Running \subseteq Holders
  BY DEF Holders, Running, Holding, InThread
<1>2. IsFiniteSet(Holders)
  BY <1>1, FS_Subset
<1>3. IsFiniteSet(Running) /\ Cardinality(Running) <= Cardinality(Holders)
  BY <1>1, <1>2, FS_Subset
<1>. QED
  BY <1>2, <1>3, FS_CardinalityType

\* How one handler's move changes the sets that are counted.
LEMMA MoveOne ==
  ASSUME TypeOK, NEW c \in Clients, NEW s \in Steps, Goto(c, s)
  PROVE  /\ Holders' = IF s \in Holding THEN Holders \union {c} ELSE Holders \ {c}
         /\ pc' \in [Clients -> Steps]
         /\ pc'[c] = s
         /\ \A d \in Clients \ {c} : pc'[d] = pc[d]
<1>1. /\ pc' \in [Clients -> Steps]
      /\ pc'[c] = s
      /\ \A d \in Clients \ {c} : pc'[d] = pc[d]
  BY DEF Goto, TypeOK
<1>2. Holders' = IF s \in Holding THEN Holders \union {c} ELSE Holders \ {c}
  BY <1>1 DEF Holders
<1>. QED
  BY <1>1, <1>2

\* Only a living worker runs a handler.
LEMMA AliveWhenMoving ==
  ASSUME IInv, NEW c \in Clients, pc[c] # "idle"
  PROVE  up
  BY DEF IInv, Kept, DeadIdle, TypeOK
-----------------------------------------------------------------------------
(* Steps of one kind preserve Kept for the same reason.                    *)

\* A handler that moves outside the try disturbs nothing that is counted.
LEMMA OutsideKeeps ==
  ASSUME IInv, up, NEW c \in Clients, NEW s \in {"idle", "posted", "body"},
         pc[c] \in {"idle", "posted", "body"}, Goto(c, s),
         UNCHANGED <<up, active, queue>>
  PROVE  Kept'
<1>1. s \in Steps \ Holding /\ pc[c] \notin Holding /\ s \notin InThread
  BY DEF Steps, Holding, InThread
<1>2. Holders' = Holders
  BY <1>1, MoveOne DEF IInv, Holders, Holding
<1>3. \A d \in Clients : pc'[d] = "queued" <=> pc[d] = "queued"
  BY <1>1, MoveOne DEF IInv, Holding
<1>. QED
  BY <1>2, <1>3 DEF IInv, Kept, DeadIdle, ActiveMatches, SlotsKept, QueueExact

\* A job that moves on in its thread, or leaves it, keeps its slot.
LEMMA ThreadKeeps ==
  ASSUME IInv, NEW c \in Clients, NEW s \in {"running", "exited", "returned"},
         pc[c] \in InThread, Goto(c, s), UNCHANGED <<up, active, queue>>
  PROVE  Kept'
<1>0. up
  BY AliveWhenMoving DEF InThread
<1>1. /\ s \in Steps /\ s \in Holding /\ s # "queued"
      /\ pc[c] \in Holding /\ pc[c] # "queued"
  BY DEF Steps, Holding, InThread
<1>2. Holders' = Holders
  BY <1>1, MoveOne DEF IInv, Holders
<1>3. \A d \in Clients : pc'[d] = "queued" <=> pc[d] = "queued"
  BY <1>1, MoveOne DEF IInv
<1>. QED
  BY <1>0, <1>2, <1>3 DEF IInv, Kept, DeadIdle, ActiveMatches, SlotsKept, QueueExact

\* Admission adds one to the counter and one to the requests it counts, and
\* puts a request in the queue that was not there.
LEMMA AdmitKeeps ==
  ASSUME IInv, NEW c \in Clients, Admit(c)
  PROVE  Kept'
<1>1. pc[c] = "body" /\ Goto(c, "queued") /\ queue' = Append(queue, c)
      /\ up /\ UNCHANGED up /\ active < Limit /\ active' = active + 1
  BY AliveWhenMoving, LimitPositive DEF Admit, GateFull, IInv, TypeOK
<1>2. /\ "queued" \in Steps /\ "queued" \in Holding /\ "queued" \notin InThread
      /\ pc[c] \notin Holding /\ pc[c] \notin InThread
  BY <1>1 DEF Steps, Holding, InThread
<1>3. Holders' = Holders \union {c} /\ c \notin Holders
  BY <1>1, <1>2, MoveOne DEF IInv, Holders
<1>4. Cardinality(Holders') = Cardinality(Holders) + 1
  BY <1>3, FiniteParts, FS_AddElement DEF IInv
<1>5. ActiveMatches' /\ SlotsKept'
  BY <1>1, <1>4, FiniteParts, LimitPositive
     DEF IInv, Kept, ActiveMatches, SlotsKept
<1>6. QueueExact'
  <2>1. /\ Len(queue') = Len(queue) + 1
        /\ queue'[Len(queue) + 1] = c
        /\ \A i \in 1 .. Len(queue) : queue'[i] = queue[i]
    BY <1>1 DEF IInv, TypeOK
  <2>2. \A i \in 1 .. Len(queue) : queue[i] \in Clients /\ pc[queue[i]] = "queued"
    BY DEF IInv, Kept, QueueExact, TypeOK
  <2>3. \A i \in 1 .. Len(queue) : queue[i] # c
    BY <1>1, <2>2
  <2>4. \A i, j \in 1 .. Len(queue') : queue'[i] = queue'[j] => i = j
    <3>1. SUFFICES ASSUME NEW i \in 1 .. Len(queue) + 1,
                          NEW j \in 1 .. Len(queue) + 1, queue'[i] = queue'[j]
                   PROVE  i = j
      BY <2>1
    <3>2. Len(queue) \in Nat
      BY DEF IInv, TypeOK
    <3>3. CASE i \in 1 .. Len(queue) /\ j \in 1 .. Len(queue)
      BY <3>1, <3>3, <2>1 DEF IInv, Kept, QueueExact
    <3>4. CASE i = Len(queue) + 1
      BY <3>1, <3>2, <3>4, <2>1, <2>3
    <3>5. CASE j = Len(queue) + 1
      BY <3>1, <3>2, <3>5, <2>1, <2>3
    <3>. QED
      BY <3>2, <3>3, <3>4, <3>5
  <2>5. pc'[c] = "queued" /\ \A d \in Clients \ {c} : pc'[d] = pc[d]
    BY <1>1, <1>2, MoveOne DEF IInv
  <2>6. \A d \in Clients :
           pc'[d] = "queued" <=> \E i \in 1 .. Len(queue') : queue'[i] = d
    <3>1. Len(queue) \in Nat
      BY DEF IInv, TypeOK
    <3>2. Len(queue) + 1 \in 1 .. Len(queue')
      BY <2>1, <3>1
    <3>3. ASSUME NEW d \in Clients \ {c}
          PROVE  (\E i \in 1 .. Len(queue') : queue'[i] = d)
                   <=> \E i \in 1 .. Len(queue) : queue[i] = d
      BY <2>1, <3>1
    <3>4. ASSUME NEW d \in Clients \ {c}
          PROVE  pc'[d] = "queued" <=> \E i \in 1 .. Len(queue') : queue'[i] = d
      BY <2>5, <3>3 DEF IInv, Kept, QueueExact
    <3>. QED
      BY <2>1, <2>5, <3>2, <3>4
  <2>. QED
    BY <2>4, <2>6 DEF QueueExact
<1>. QED
  BY <1>1, <1>3, <1>5, <1>6 DEF IInv, Kept, DeadIdle

\* The job a thread takes is one that waits, and no other one is it.
LEMMA StartKeeps ==
  ASSUME IInv, StartJob
  PROVE  Kept'
<1>. DEFINE h == Head(queue)
<1>1. /\ queue # <<>> /\ queue \in Seq(Clients)
      /\ Goto(h, "thread") /\ queue' = Tail(queue) /\ UNCHANGED <<up, active>>
  BY DEF StartJob, IInv, TypeOK
<1>2. h \in Clients /\ h = queue[1] /\ Len(queue) \in Nat /\ Len(queue) >= 1
  BY <1>1
<1>3. pc[h] = "queued" /\ up
  BY <1>1, <1>2 DEF IInv, Kept, QueueExact, DeadIdle
<1>4. /\ "thread" \in Steps /\ "thread" \in Holding /\ "thread" \in InThread
      /\ pc[h] \in Holding /\ pc[h] \notin InThread
  BY <1>3 DEF Steps, Holding, InThread
<1>5. /\ Holders' = Holders
      /\ pc'[h] = "thread"
      /\ \A d \in Clients \ {h} : pc'[d] = pc[d]
  BY <1>1, <1>2, <1>4, MoveOne DEF IInv, Holders
<1>6. QueueExact'
  <2>1. /\ Len(queue') = Len(queue) - 1
        /\ \A i \in 1 .. Len(queue') : queue'[i] = queue[i + 1]
    BY <1>1, <1>2
  <2>2. \A i \in 1 .. Len(queue') : queue'[i] # h
    BY <1>2, <2>1 DEF IInv, Kept, QueueExact
  <2>3. \A i, j \in 1 .. Len(queue') : queue'[i] = queue'[j] => i = j
    BY <1>2, <2>1 DEF IInv, Kept, QueueExact
  <2>4. ASSUME NEW d \in Clients
        PROVE  pc'[d] = "queued" <=> \E i \in 1 .. Len(queue') : queue'[i] = d
    <3>1. CASE d = h
      BY <3>1, <1>5, <2>2
    <3>2. CASE d # h
      <4>1. pc'[d] = "queued" <=> \E i \in 1 .. Len(queue) : queue[i] = d
        BY <3>2, <1>5 DEF IInv, Kept, QueueExact
      <4>2. ASSUME NEW i \in 1 .. Len(queue), queue[i] = d
            PROVE  i - 1 \in 1 .. Len(queue') /\ queue'[i - 1] = d
        <5>1. i # 1
          BY <3>2, <4>2, <1>2
        <5>2. i - 1 \in 1 .. Len(queue')
          BY <5>1, <2>1, <1>2
        <5>. QED
          BY <5>2, <2>1, <4>2
      <4>3. ASSUME NEW i \in 1 .. Len(queue'), queue'[i] = d
            PROVE  i + 1 \in 1 .. Len(queue) /\ queue[i + 1] = d
        BY <4>3, <2>1, <1>2
      <4>. QED
        BY <4>1, <4>2, <4>3
    <3>. QED
      BY <3>1, <3>2
  <2>. QED
    BY <2>3, <2>4 DEF QueueExact
<1>. QED
  BY <1>1, <1>3, <1>5, <1>6
     DEF IInv, Kept, DeadIdle, ActiveMatches, SlotsKept

\* The answer takes one from both.
LEMMA RespondKeeps ==
  ASSUME IInv, NEW c \in Clients, Respond(c)
  PROVE  Kept'
<1>1. /\ pc[c] = "returned" /\ Goto(c, "idle") /\ up
      /\ active' = active - 1 /\ UNCHANGED <<up, queue>>
  BY AliveWhenMoving DEF Respond, Reply
<1>2. /\ "idle" \in Steps /\ "idle" \notin Holding /\ "idle" \notin InThread
      /\ pc[c] \in Holding /\ pc[c] \notin InThread
  BY <1>1 DEF Steps, Holding, InThread
<1>3. Holders' = Holders \ {c} /\ c \in Holders
  BY <1>1, <1>2, MoveOne DEF IInv, Holders
<1>4. Cardinality(Holders') = Cardinality(Holders) - 1
  BY <1>3, FiniteParts, FS_RemoveElement DEF IInv
<1>5. ActiveMatches' /\ SlotsKept'
  BY <1>1, <1>4, FiniteParts, LimitPositive
     DEF IInv, Kept, ActiveMatches, SlotsKept
<1>6. \A d \in Clients : pc'[d] = "queued" <=> pc[d] = "queued"
  BY <1>1, <1>2, MoveOne DEF IInv
<1>. QED
  BY <1>1, <1>3, <1>5, <1>6 DEF IInv, Kept, DeadIdle, QueueExact

\* The death of the worker leaves nothing that could be counted wrongly, and
\* a new worker counts nothing from 0 on.
LEMMA ProcessKeeps ==
  ASSUME \A c \in Clients : pc'[c] = "idle", queue' = <<>>, up' => active' = 0
  PROVE  Kept'
<1>1. Holders' = {}
  BY DEF Holders, Holding, InThread
<1>2. Cardinality(Holders') = 0
  BY <1>1, FS_EmptySet
<1>. QED
  BY <1>2, LimitPositive
     DEF Kept, DeadIdle, ActiveMatches, SlotsKept, QueueExact
-----------------------------------------------------------------------------
LEMMA InitInv == Init => IInv
<1>. SUFFICES ASSUME Init PROVE IInv
  OBVIOUS
<1>1. TypeOK
  BY DEF Init, TypeOK, Steps, Statuses, Holding
<1>2. Holders = {}
  BY DEF Init, Holders, Holding, InThread
<1>3. Cardinality(Holders) = 0
  BY <1>2, FS_EmptySet
<1>4. Kept
  BY <1>3, LimitPositive
     DEF Init, Kept, DeadIdle, ActiveMatches, SlotsKept, QueueExact
<1>. QED
  BY <1>1, <1>4 DEF IInv

\* Types: the one step where the type depends on the rest of the invariant is
\* Respond, whose decrement must not fall below 0.
LEMMA NextType ==
  ASSUME IInv, Next
  PROVE  TypeOK'
<1>. USE DEF Steps, Holding, InThread, Statuses
<1>. TypeOK
  BY DEF IInv
<1>1. ASSUME NEW c \in Clients, Post(c) PROVE TypeOK'
  BY <1>1 DEF Post, Goto, TypeOK
<1>2. ASSUME NEW c \in Clients,
             NEW length \in {"missing", "not an int", "too large", "ok"},
             CheckHeader(c, length)
      PROVE  TypeOK'
  BY <1>2 DEF CheckHeader, Reply, Goto, TypeOK
<1>3. ASSUME NEW c \in Clients, RejectBody(c) \/ Refuse(c) \/ Disconnect(c)
      PROVE  TypeOK'
  BY <1>3 DEF RejectBody, Refuse, Disconnect, Reply, Goto, TypeOK
<1>4. ASSUME NEW c \in Clients, FailToParse(c) PROVE TypeOK'
  BY <1>4 DEF FailToParse, Reply, Goto, TypeOK
<1>5. ASSUME NEW c \in Clients, Admit(c) PROVE TypeOK'
  <2>1. queue' \in Seq(Clients)
    BY <1>5 DEF Admit, TypeOK
  <2>. QED
    BY <1>5, <2>1 DEF Admit, Goto, TypeOK
<1>6. ASSUME NEW c \in Clients, Respond(c) PROVE TypeOK'
  <2>1. up /\ c \in Holders
    BY <1>6, AliveWhenMoving DEF Respond, Holders
  <2>2. Cardinality(Holders) # 0
    BY <2>1, FiniteParts, FS_EmptySet
  <2>3. active - 1 \in Nat
    BY <2>1, <2>2 DEF IInv, Kept, ActiveMatches, TypeOK
  <2>. QED
    BY <1>6, <2>3 DEF Respond, Reply, Goto, TypeOK
<1>7. ASSUME NEW c \in Clients,
             \/ SkipExtraction(c) \/ Spawn(c) \/ ChildExits(c)
             \/ Timeout(c) \/ Classify(c)
      PROVE  TypeOK'
  BY <1>7 DEF SkipExtraction, Spawn, ChildExits, Timeout, Classify, Return,
              Goto, TypeOK
<1>8. CASE StartJob
  <2>1. queue' \in Seq(Clients) /\ Head(queue) \in Clients
    BY <1>8 DEF StartJob, TypeOK
  <2>. QED
    BY <1>8, <2>1 DEF StartJob, Goto, TypeOK
<1>9. CASE Crash
  <2>1. up' \in BOOLEAN
    BY <1>9, Zenon DEF Crash
  <2>2. orphans' \in Nat
    BY <1>9, FiniteParts DEF Crash, TypeOK
  <2>3. answer' \in [Clients -> Statuses]
    BY <1>9 DEF Crash, TypeOK
  <2>4. queue' \in Seq(Clients) /\ active' \in Nat
    BY <1>9 DEF Crash, TypeOK
  <2>. QED
    BY <1>9, <2>1, <2>2, <2>3, <2>4 DEF Crash, TypeOK
<1>10. CASE Restart
  <2>1. up' \in BOOLEAN
    BY <1>10, Zenon DEF Restart
  <2>. QED
    BY <1>10, <2>1 DEF Restart, TypeOK
<1>11. CASE OrphanExits
  BY <1>11 DEF OrphanExits, TypeOK
<1>. QED
  BY <1>1, <1>2, <1>3, <1>4, <1>5, <1>6, <1>7, <1>8, <1>9, <1>10, <1>11 DEF Next

LEMMA NextKept ==
  ASSUME IInv, Next
  PROVE  Kept'
<1>1. ASSUME NEW c \in Clients, Post(c) PROVE Kept'
  BY <1>1, OutsideKeeps DEF Post
<1>2. ASSUME NEW c \in Clients,
             NEW length \in {"missing", "not an int", "too large", "ok"},
             CheckHeader(c, length)
      PROVE  Kept'
  BY <1>2, OutsideKeeps, AliveWhenMoving DEF CheckHeader, Reply
<1>3. ASSUME NEW c \in Clients, RejectBody(c) \/ Refuse(c) \/ Disconnect(c)
      PROVE  Kept'
  BY <1>3, OutsideKeeps, AliveWhenMoving DEF RejectBody, Refuse, Disconnect, Reply
<1>4. ASSUME NEW c \in Clients, FailToParse(c) PROVE Kept'
  <2>1. active' = active
    BY <1>4 DEF FailToParse, IInv, TypeOK
  <2>. QED
    BY <1>4, <2>1, OutsideKeeps, AliveWhenMoving DEF FailToParse, Reply
<1>5. ASSUME NEW c \in Clients,
             \/ SkipExtraction(c) \/ Spawn(c) \/ ChildExits(c)
             \/ Timeout(c) \/ Classify(c)
      PROVE  Kept'
  BY <1>5, ThreadKeeps
     DEF SkipExtraction, Spawn, ChildExits, Timeout, Classify, Return, InThread
<1>6. CASE Crash
  BY <1>6, ProcessKeeps DEF Crash
<1>7. CASE Restart
  BY <1>7, ProcessKeeps DEF Restart, IInv, Kept, DeadIdle
<1>8. CASE OrphanExits
  BY <1>8 DEF OrphanExits, IInv, Kept, DeadIdle, ActiveMatches, SlotsKept,
              QueueExact, Holders
<1>. QED
  BY <1>1, <1>2, <1>3, <1>4, <1>5, <1>6, <1>7, <1>8,
     AdmitKeeps, RespondKeeps, StartKeeps DEF Next

LEMMA NextInv == IInv /\ [Next]_vars => IInv'
<1>1. ASSUME IInv, Next PROVE IInv'
  BY <1>1, NextType, NextKept DEF IInv
<1>2. ASSUME IInv, UNCHANGED vars PROVE IInv'
  BY <1>2 DEF vars, IInv, TypeOK, Kept, DeadIdle, ActiveMatches, SlotsKept,
              QueueExact, Holders
<1>. QED
  BY <1>1, <1>2

\* The inductive invariant holds in every state of every behaviour.
THEOREM Invariance == Safe => []IInv
  BY InitInv, NextInv, PTL DEF Safe
-----------------------------------------------------------------------------
(* What the invariant gives                                                *)

\* Every variable keeps its type; the counter, for one, never falls below 0.
THEOREM TypeCorrect == Safe => []TypeOK
  BY Invariance, PTL DEF IInv

\* The gate's counter equals the number of requests inside the try: no path
\* through the handler leaks a slot or gives one back twice.
THEOREM GateExact == Safe => []ActiveMatches
<1>1. IInv => ActiveMatches
  BY DEF IInv, Kept
<1>. QED
  BY <1>1, Invariance, PTL

\* At most Limit children of a living worker run, whatever the pool.
THEOREM ChildrenCapped == Safe => []ChildrenBounded
<1>1. IInv => ChildrenBounded
  BY FiniteParts, LimitPositive
     DEF IInv, Kept, SlotsKept, ChildrenBounded
<1>. QED
  BY <1>1, Invariance, PTL

\* Only Refuse sends 429, and only when the gate is full.
LEMMA OnlyRefuse ==
  ASSUME IInv, [Next]_vars, NEW c \in Clients, answer[c] # "429", answer'[c] = "429"
  PROVE  Refuse(c)
<1>1. answer \in [Clients -> Statuses]
  BY DEF IInv, TypeOK
<1>2. ~ UNCHANGED answer
  OBVIOUS
<1>3. PICK d \in Clients :
        \/ Post(d)
        \/ \E length \in {"missing", "not an int", "too large", "ok"} :
              CheckHeader(d, length)
        \/ RejectBody(d) \/ Refuse(d) \/ FailToParse(d)
        \/ Disconnect(d) \/ Respond(d)
        \/ Crash
  BY <1>2 DEF Next, vars, Admit, StartJob, SkipExtraction, Spawn, ChildExits,
              Timeout, Classify, Restart, OrphanExits
<1>4. ~ Crash
  BY <1>1 DEF Crash
<1>5. ~ Post(d)
  BY <1>1 DEF Post
<1>6. ASSUME NEW length \in {"missing", "not an int", "too large", "ok"},
             CheckHeader(d, length)
      PROVE  FALSE
  BY <1>1, <1>6 DEF CheckHeader, Reply
<1>7. ~ RejectBody(d) /\ ~ FailToParse(d) /\ ~ Disconnect(d)
  BY <1>1 DEF RejectBody, FailToParse, Disconnect, Reply
<1>8. ~ Respond(d)
  BY <1>1 DEF Respond, Reply
<1>9. Refuse(d)
  BY <1>3, <1>4, <1>5, <1>6, <1>7, <1>8
<1>10. d = c
  BY <1>1, <1>9 DEF Refuse, Reply
<1>. QED
  BY <1>9, <1>10

\* A client is refused only when other requests fill every slot.
THEOREM RefusalsJustified == Safe => RefusedOnlyWhenFull
<1>1. ASSUME IInv, [Next]_vars, NEW c \in Clients,
             answer[c] # "429", answer'[c] = "429"
      PROVE  Holders # {} /\ Cardinality(Holders) >= MaxConcurrentExtractions
  <2>1. Refuse(c)
    BY <1>1, OnlyRefuse
  <2>2. up
    BY <1>1, <2>1, AliveWhenMoving DEF Refuse
  <2>3. Cardinality(Holders) >= Limit
    BY <1>1, <2>1, <2>2 DEF Refuse, GateFull, IInv, Kept, ActiveMatches
  <2>4. Cardinality(Holders) >= 1 /\ Cardinality(Holders) \in Nat
    BY <1>1, <2>3, FiniteParts, LimitPositive DEF IInv
  <2>5. Holders # {}
    BY <2>4, FS_EmptySet
  <2>6. Limit >= MaxConcurrentExtractions
    BY DEF Limit
  <2>. QED
    BY <2>3, <2>4, <2>5, <2>6, LimitPositive
<1>2. IInv /\ [Next]_vars
        => [\A c \in Clients :
              answer[c] # "429" /\ answer'[c] = "429"
                => Holders # {} /\ Cardinality(Holders) >= MaxConcurrentExtractions]_vars
  BY <1>1
<1>. QED
  BY <1>2, Invariance, PTL DEF Safe, RefusedOnlyWhenFull
-----------------------------------------------------------------------------
(* The listener implements the webhook's promise.                          *)

LEMMA ExchangeOf ==
  ASSUME TypeOK, NEW c \in Clients, NEW s \in Steps, NEW v \in Statuses,
         Goto(c, s), answer' = [answer EXCEPT ![c] = v]
  PROVE  Exchange' = [Exchange EXCEPT ![c] =
                        IF s = "idle" THEN v
                        ELSE IF s \in Holding THEN "admitted" ELSE "open"]
<1>1. /\ pc'[c] = s
      /\ \A d \in Clients \ {c} : pc'[d] = pc[d]
  BY MoveOne
<1>2. /\ answer'[c] = v
      /\ \A d \in Clients \ {c} : answer'[d] = answer[d]
  BY DEF TypeOK
<1>. DEFINE E(d) == IF pc[d] = "idle" THEN answer[d]
                    ELSE IF pc[d] \in Holding THEN "admitted" ELSE "open"
            w == IF s = "idle" THEN v
                 ELSE IF s \in Holding THEN "admitted" ELSE "open"
<1>3. E(c)' = w /\ \A d \in Clients \ {c} : E(d)' = E(d)
  BY <1>1, <1>2
<1>4. Exchange = [d \in Clients |-> E(d)] /\ Exchange' = [d \in Clients |-> E(d)']
  BY DEF Exchange
<1>. HIDE DEF E, w
<1>5. Exchange' = [Exchange EXCEPT ![c] = w]
  BY <1>3, <1>4
<1>. QED
  BY <1>5 DEF w

LEMMA ReplyShows ==
  ASSUME TypeOK, NEW c \in Clients, NEW v \in Statuses, Reply(c, v)
  PROVE  Exchange' = [Exchange EXCEPT ![c] = v]
<1>1. "idle" \in Steps /\ Goto(c, "idle") /\ answer' = [answer EXCEPT ![c] = v]
  BY DEF Reply, Steps
<1>. QED
  BY <1>1, ExchangeOf

LEMMA ExchangeStays ==
  ASSUME TypeOK, NEW c \in Clients, NEW s \in Steps \ {"idle"}, pc[c] # "idle",
         s \in Holding <=> pc[c] \in Holding, Goto(c, s), UNCHANGED answer
  PROVE  Exchange' = Exchange
  BY MoveOne DEF Exchange, TypeOK

LEMMA AdmittedAreHolders ==
  ASSUME TypeOK
  PROVE  Promise!Admitted = Holders
  BY DEF Promise!Admitted, Exchange, Holders, TypeOK, Statuses, Steps, Holding, InThread

\* The webhook counts with the same operator.
LEMMA SameCount == \A S : Promise!Cardinality(S) = Cardinality(S)
  BY DEF Promise!Cardinality, Cardinality

LEMMA RoomIsGate ==
  ASSUME IInv, up
  PROVE  Promise!Room <=> ~GateFull
<1>1. Promise!Admitted = Holders
  BY AdmittedAreHolders DEF IInv
<1>2. active = Cardinality(Holders) /\ active \in Nat
  BY DEF IInv, Kept, ActiveMatches, TypeOK
<1>. QED
  BY <1>1, <1>2, SameCount, LimitPositive DEF Promise!Room, GateFull

\* Every step of the listener is a step of the webhook or changes nothing a
\* client can see.
LEMMA StepImplements ==
  ASSUME IInv, [Next]_vars
  PROVE  [Promise!Next]_Exchange
<1>0. TypeOK /\ answer \in [Clients -> Statuses] /\ pc \in [Clients -> Steps]
  BY DEF IInv, TypeOK
<1>. DEFINE Seen == \A c \in Clients :
                      Exchange[c] = IF pc[c] = "idle" THEN answer[c]
                                    ELSE IF pc[c] \in Holding THEN "admitted"
                                    ELSE "open"
<1>s. Seen
  BY DEF Exchange
<1>. USE DEF Promise!Next, Promise!MoveTo
<1>1. ASSUME NEW c \in Clients, Post(c) PROVE Promise!Next
  <2>1. Exchange' = [Exchange EXCEPT ![c] = "open"]
    <3>1. /\ "posted" \in Steps /\ "none" \in Statuses /\ Goto(c, "posted")
          /\ answer' = [answer EXCEPT ![c] = "none"]
          /\ "posted" # "idle" /\ "posted" \notin Holding
      BY <1>1 DEF Post, Steps, Statuses, Holding, InThread
    <3>. QED
      BY <1>0, <3>1, ExchangeOf
  <2>2. Exchange[c] \notin {"open", "admitted"}
    BY <1>0, <1>1, <1>s DEF Post, Statuses
  <2>. QED
    BY <2>1, <2>2 DEF Promise!Post
<1>2. ASSUME NEW c \in Clients,
             NEW length \in {"missing", "not an int", "too large", "ok"},
             CheckHeader(c, length)
      PROVE  [Promise!Next]_Exchange
  <2>1. CASE length = "ok"
    BY <1>0, <1>2, <2>1, ExchangeStays DEF CheckHeader, Steps, Holding, InThread
  <2>2. CASE length # "ok"
    <3>1. PICK code \in {"400", "411", "413"} : Reply(c, code) /\ code \in Statuses
      BY <1>2, <2>2 DEF CheckHeader, Statuses
    <3>2. Exchange' = [Exchange EXCEPT ![c] = code]
      BY <1>0, <3>1, ReplyShows
    <3>3. Exchange[c] = "open"
      BY <1>0, <1>2, <1>s DEF CheckHeader, Holding, InThread
    <3>. QED
      BY <3>2, <3>3 DEF Promise!Reject
  <2>. QED
    BY <2>1, <2>2
<1>3. ASSUME NEW c \in Clients, RejectBody(c) \/ FailToParse(c) \/ Disconnect(c)
      PROVE  Promise!Next
  <2>1. PICK code \in {"400", "500", "lost"} :
           /\ Exchange' = [Exchange EXCEPT ![c] = code]
           /\ Exchange[c] = "open"
    <3>1. PICK code \in {"400", "500", "lost"} : Reply(c, code) /\ code \in Statuses
      BY <1>3 DEF RejectBody, FailToParse, Disconnect, Statuses
    <3>2. Exchange' = [Exchange EXCEPT ![c] = code]
      BY <1>0, <3>1, ReplyShows
    <3>3. Exchange[c] = "open"
      BY <1>0, <1>3, <1>s DEF RejectBody, FailToParse, Disconnect, Holding, InThread
    <3>. QED
      BY <3>2, <3>3
  <2>. QED
    BY <2>1 DEF Promise!Reject, Promise!HangUp
<1>4. ASSUME NEW c \in Clients, Refuse(c) PROVE Promise!Next
  <2>1. Exchange' = [Exchange EXCEPT ![c] = "429"]
    BY <1>0, <1>4, ReplyShows DEF Refuse, Statuses
  <2>2. Exchange[c] = "open" /\ ~Promise!Room
    BY <1>0, <1>4, <1>s, RoomIsGate, AliveWhenMoving DEF Refuse, Holding, InThread
  <2>. QED
    BY <2>1, <2>2 DEF Promise!Refuse
<1>5. ASSUME NEW c \in Clients, Admit(c) PROVE Promise!Next
  <2>1. answer' = [answer EXCEPT ![c] = answer[c]] /\ answer[c] \in Statuses
    BY <1>0, <1>5 DEF Admit
  <2>2. Exchange' = [Exchange EXCEPT ![c] = "admitted"]
    <3>1. /\ "queued" \in Steps /\ Goto(c, "queued")
          /\ "queued" # "idle" /\ "queued" \in Holding
      BY <1>5 DEF Admit, Steps, Holding
    <3>. QED
      BY <1>0, <2>1, <3>1, ExchangeOf
  <2>3. Exchange[c] = "open" /\ Promise!Room
    BY <1>0, <1>5, <1>s, RoomIsGate, AliveWhenMoving DEF Admit, Holding, InThread
  <2>. QED
    BY <2>2, <2>3 DEF Promise!Admit
<1>6. ASSUME NEW c \in Clients, Respond(c) PROVE Promise!Next
  <2>1. PICK code \in {"200", "500"} : Reply(c, code) /\ code \in Statuses
    BY <1>6 DEF Respond, Statuses
  <2>2. Exchange' = [Exchange EXCEPT ![c] = code]
    BY <1>0, <2>1, ReplyShows
  <2>3. Exchange[c] = "admitted"
    BY <1>0, <1>6, <1>s DEF Respond, Holding
  <2>. QED
    BY <2>2, <2>3 DEF Promise!Answer
<1>7. ASSUME NEW c \in Clients,
             \/ SkipExtraction(c) \/ Spawn(c) \/ ChildExits(c)
             \/ Timeout(c) \/ Classify(c)
      PROVE  Exchange' = Exchange
  BY <1>0, <1>7, ExchangeStays
     DEF SkipExtraction, Spawn, ChildExits, Timeout, Classify, Return,
         Steps, Holding, InThread
<1>8. CASE StartJob
  <2>1. queue # <<>> /\ Head(queue) = queue[1] /\ 1 \in 1 .. Len(queue)
        /\ Head(queue) \in Clients
    BY <1>0, <1>8 DEF StartJob, TypeOK
  <2>2. pc[Head(queue)] = "queued"
    BY <2>1 DEF IInv, Kept, QueueExact
  <2>. QED
    BY <1>0, <1>8, <2>1, <2>2, ExchangeStays DEF StartJob, Steps, Holding, InThread
<1>9. CASE Crash
  <2>1. \A c \in Clients : /\ pc'[c] = "idle"
                           /\ answer'[c] = IF pc[c] = "idle" THEN answer[c] ELSE "lost"
    BY <1>9 DEF Crash
  <2>2. \A c \in Clients : Exchange[c] \in {"open", "admitted"} <=> pc[c] # "idle"
    BY <1>0, <1>s DEF Steps, Statuses, Holding, InThread
  <2>3. Exchange' = [c \in Clients |->
                       IF Exchange[c] \in {"open", "admitted"} THEN "lost"
                                                               ELSE Exchange[c]]
    BY <1>s, <2>1, <2>2 DEF Exchange
  <2>. QED
    BY <2>3 DEF Promise!Die
<1>10. CASE Restart \/ OrphanExits \/ UNCHANGED vars
  BY <1>10 DEF Restart, OrphanExits, vars, Exchange
<1>. QED
  BY <1>1, <1>2, <1>3, <1>4, <1>5, <1>6, <1>7, <1>8, <1>9, <1>10 DEF Next

\* The listener keeps the webhook's promise, for any number of clients, any
\* limit and any pool: its safety part, KeepsPromise less the fairness.
THEOREM PromiseKept == Safe => Promise!Safe
<1>1. Init => Promise!Init
  BY DEF Init, Promise!Init, Exchange
<1>. QED
  BY <1>1, StepImplements, Invariance, PTL DEF Safe, Promise!Safe
-----------------------------------------------------------------------------
(* The listener that is told to stop                                       *)

\* An answer is due to who has posted, and a child runs no longer than it may.
Timely ==
    /\ elapsed \in [Clients -> Nat] /\ grace \in Int /\ owed \subseteq Clients
    /\ owed # {} => Stopping
    /\ \A c \in Clients : /\ pc[c] # "idle" => answer[c] = "none"
                          /\ elapsed[c] <= ExtractTimeout

\* Who had a slot at the stop has not waited for longer than his child has run.
InTime(c) ==
    /\ answer[c] # "lost"
    /\ pc[c] \in Holding \union {"idle"}
    /\ pc[c] \in {"queued", "thread"} => grace = 0
    /\ pc[c] = "running" => grace <= elapsed[c]
    /\ pc[c] \in {"exited", "returned"} => grace <= ExtractTimeout

StopInv == IInv /\ Timely /\ \A c \in owed : InTime(c)

LEMMA StopIsStep == StopNext => [Next]_vars
  BY DEF StopNext, Accept, Proceed, TakeJob, Expire, Stop, Leave, ComeBack, Tick, Next

\* With a thread for each slot, nobody waits for one while time passes.
LEMMA NobodyQueued ==
  ASSUME StopInv, Limit <= PoolSize, Settled, NEW c \in Clients
  PROVE  pc[c] \notin {"queued", "thread", "exited", "returned"}
<1>. SUFFICES ASSUME pc[c] = "queued" PROVE FALSE
  BY DEF Settled
<1>1. queue # <<>>
  BY DEF StopInv, IInv, Kept, QueueExact, TypeOK
<1>2. IsFiniteSet(Holders) /\ Cardinality(Holders) \in Nat /\ Cardinality(Holders) <= Limit
  BY FiniteParts DEF StopInv, IInv, Kept, SlotsKept
<1>3. Busy \subseteq Holders /\ c \in Holders \ Busy
  BY DEF Busy, Holders, Holding, InThread
<1>4. /\ IsFiniteSet(Busy) /\ Cardinality(Busy) \in Nat
      /\ Cardinality(Busy) <= Cardinality(Holders)
      /\ Cardinality(Busy) = Cardinality(Holders) => Busy = Holders
  BY <1>2, <1>3, FS_Subset, FS_CardinalityType
<1>. QED
  BY <1>1, <1>2, <1>3, <1>4, LimitPositive DEF Settled

LEMMA StopStep ==
  ASSUME StopInv, [StopNext]_stopVars, Limit <= PoolSize, ExtractTimeout < GracefulTimeout
  PROVE  StopInv'
<1>. USE TimeoutsAssumption
<1>0. /\ TypeOK /\ Timely /\ \A c \in owed : InTime(c)
      /\ pc \in [Clients -> Steps] /\ answer \in [Clients -> Statuses]
  BY DEF StopInv, IInv, TypeOK
<1>1. IInv'
  BY StopIsStep, NextInv DEF StopInv, stopVars
<1>. USE DEF Timely, InTime, Goto, Reply, KeepTime, Stopping
<1>2. ASSUME NEW c \in Clients, Accept(c) PROVE StopInv'
  BY <1>0, <1>1, <1>2 DEF Accept, Post, StopInv
<1>3. ASSUME NEW c \in Clients,
             CheckHeader(c, "ok") \/ Refuse(c) \/ FailToParse(c) \/ Admit(c), KeepTime
      PROVE  StopInv'
  <2>1. PICK s \in {"idle", "body", "queued"} :
           /\ pc[c] \in {"posted", "body"} /\ pc' = [pc EXCEPT ![c] = s]
           /\ s # "idle" => answer' = answer
           /\ s = "idle" => \E status \in {"429", "500"} : answer' = [answer EXCEPT ![c] = status]
    BY <1>3 DEF CheckHeader, Refuse, FailToParse, Admit
  <2>2. c \notin owed
    BY <1>0, <2>1 DEF Holding, InThread
  <2>. QED
    BY <1>0, <1>1, <1>3, <2>1, <2>2 DEF StopInv, Holding, InThread
<1>4. ASSUME NEW c \in Clients, Respond(c), KeepTime PROVE StopInv'
  BY <1>0, <1>1, <1>4 DEF Respond, StopInv
<1>5. ASSUME NEW c \in Clients, SkipExtraction(c) \/ Spawn(c), KeepTime PROVE StopInv'
  <2>1. PICK s \in {"returned", "running"} :
           pc[c] = "thread" /\ pc' = [pc EXCEPT ![c] = s] /\ answer' = answer
    BY <1>5 DEF SkipExtraction, Spawn, Return
  <2>2. Timely'
    BY <1>0, <1>5, <2>1
  <2>3. \A d \in owed : InTime(d)'
    BY <1>0, <1>5, <2>1 DEF Holding, InThread
  <2>. QED
    BY <1>1, <1>5, <2>2, <2>3 DEF StopInv
<1>6. ASSUME NEW c \in Clients, ChildExits(c) \/ Classify(c) \/ Expire(c), KeepTime
      PROVE StopInv'
  <2>1. PICK s \in {"exited", "returned"} :
           pc[c] \in {"running", "exited"} /\ pc' = [pc EXCEPT ![c] = s] /\ answer' = answer
    BY <1>6 DEF ChildExits, Classify, Expire, Timeout, Return
  <2>. QED
    BY <1>0, <1>1, <1>6, <2>1 DEF StopInv, Holding, InThread
<1>7. CASE TakeJob
  <2>1. queue # <<>> /\ Head(queue) = queue[1] /\ 1 \in 1 .. Len(queue)
        /\ Head(queue) \in Clients
    BY <1>0, <1>7 DEF TakeJob, StartJob, TypeOK
  <2>2. pc[Head(queue)] = "queued"
    BY <2>1 DEF StopInv, IInv, Kept, QueueExact
  <2>3. PICK c \in Clients :
           pc[c] = "queued" /\ pc' = [pc EXCEPT ![c] = "thread"] /\ answer' = answer
    BY <1>7, <2>1, <2>2 DEF TakeJob, StartJob
  <2>. QED
    BY <1>0, <1>1, <1>7, <2>3 DEF StopInv, TakeJob, Holding, InThread
<1>8. CASE Stop
  BY <1>0, <1>1, <1>8 DEF Stop, vars, Holders, Holding, InThread, StopInv
<1>9. CASE Leave
  <2>1. /\ pc' = [c \in Clients |-> "idle"]
        /\ answer' = [c \in Clients |-> IF pc[c] = "idle" THEN answer[c] ELSE "lost"]
    BY <1>9 DEF Leave, Crash
  <2>2. \A c \in owed : pc[c] = "idle"
    BY <1>0, <1>9 DEF Leave, Holding, InThread
  <2>. QED
    BY <1>0, <1>1, <1>9, <2>1, <2>2 DEF Leave, StopInv
<1>10. CASE ComeBack
  BY <1>0, <1>1, <1>10 DEF ComeBack, Restart, StopInv
<1>11. CASE Tick
  <2>1. \A c \in Clients : pc[c] \notin {"queued", "thread", "exited", "returned"}
    BY <1>11, NobodyQueued DEF Tick
  <2>2. \A c \in Clients : pc[c] = "running" => elapsed[c] < ExtractTimeout
    BY <1>0, <1>11 DEF Tick, Settled, Due
  <2>. QED
    BY <1>0, <1>1, <1>11, <2>1, <2>2 DEF Tick, vars, StopInv
<1>12. CASE (OrphanExits /\ KeepTime) \/ UNCHANGED stopVars
  BY <1>0, <1>1, <1>12 DEF OrphanExits, stopVars, vars, StopInv
<1>. QED
  BY <1>2, <1>3, <1>4, <1>5, <1>6, <1>7, <1>8, <1>9, <1>10, <1>11, <1>12
     DEF StopNext, Proceed, Expire

\* A worker that is told to stop answers whoever has a slot before it goes, for any
\* clients and limit, if each slot has a thread and gunicorn waits for longer than an
\* extraction may take. With what is shipped it waits for a tenth of that.
THEOREM StopsKindly ==
  ASSUME Limit <= PoolSize, ExtractTimeout < GracefulTimeout
  PROVE  StopSpec => []StoppedKindly
<1>1. StopInit => StopInv
  BY InitInv, TimeoutsAssumption DEF StopInit, StopInv, Timely, Init
<1>2. StopInv /\ [StopNext]_stopVars => StopInv'
  BY StopStep
<1>3. StopInv => StoppedKindly
  BY DEF StopInv, InTime, StoppedKindly
<1>. QED
  BY <1>1, <1>2, <1>3, PTL DEF StopSpec
=============================================================================
