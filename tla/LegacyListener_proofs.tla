------------------------ MODULE LegacyListener_proofs ------------------------
(***************************************************************************)
(* Proofs about the v1 listener for any finite set of clients and any      *)
(* configured limit.                                                       *)
(***************************************************************************)
EXTENDS LegacyListener, FiniteSetTheorems, TLAPS

USE ClientsAssumption, LimitAssumption

\* TypeOK alone is not inductive: Release would overflow and Acquire underflow
\* but for what SlotsExact says of the semaphore.
IInv == TypeOK /\ SlotsExact
-----------------------------------------------------------------------------
LEMMA LimitPositive == Limit \in Nat /\ Limit >= 1
  BY DEF Limit

LEMMA HoldersFinite == IsFiniteSet(Holders) /\ Cardinality(Holders) \in Nat
<1>1. Holders \subseteq Clients
  BY DEF Holders
<1>. QED
  BY <1>1, FS_Subset, FS_CardinalityType

\* How one thread's move changes the set of those that hold a slot.
LEMMA MoveOne ==
  ASSUME TypeOK, NEW c \in Clients, NEW s \in Steps, Goto(c, s)
  PROVE  /\ Holders' = IF s \in Extracting THEN Holders \union {c} ELSE Holders \ {c}
         /\ pc' \in [Clients -> Steps]
         /\ pc'[c] = s
         /\ \A d \in Clients \ {c} : pc'[d] = pc[d]
<1>1. /\ pc' \in [Clients -> Steps]
      /\ pc'[c] = s
      /\ \A d \in Clients \ {c} : pc'[d] = pc[d]
  BY DEF Goto, TypeOK
<1>2. Holders' = IF s \in Extracting THEN Holders \union {c} ELSE Holders \ {c}
  BY <1>1 DEF Holders
<1>. QED
  BY <1>1, <1>2

\* A move that neither takes a slot nor gives one back.
LEMMA MoveKeeps ==
  ASSUME IInv, NEW c \in Clients, NEW s \in Steps,
         s \in Extracting <=> pc[c] \in Extracting, Goto(c, s), UNCHANGED sem
  PROVE  pc' \in [Clients -> Steps] /\ SlotsExact'
<1>1. Holders' = Holders
  BY MoveOne DEF IInv, Holders
<1>. QED
  BY <1>1, MoveOne DEF IInv, SlotsExact

LEMMA ReplyKeeps ==
  ASSUME IInv, NEW c \in Clients, pc[c] \notin Extracting,
         NEW status \in Statuses, Reply(c, status)
  PROVE  IInv'
<1>1. pc' \in [Clients -> Steps] /\ SlotsExact'
  BY MoveKeeps DEF Reply, Steps, Extracting
<1>. QED
  BY <1>1 DEF IInv, TypeOK, Reply

LEMMA ReturnKeeps ==
  ASSUME IInv, NEW c \in Clients, pc[c] \in Extracting,
         NEW what \in {"text", "raised"}, Return(c, what)
  PROVE  IInv'
<1>1. pc' \in [Clients -> Steps] /\ SlotsExact'
  BY MoveKeeps DEF Return, Steps, Extracting
<1>. QED
  BY <1>1 DEF IInv, TypeOK, Return

\* A move with nothing but its step to it.
LEMMA GoKeeps ==
  ASSUME IInv, NEW c \in Clients, NEW s \in Steps,
         s \in Extracting <=> pc[c] \in Extracting, Goto(c, s),
         UNCHANGED <<sem, outcome, answer>>
  PROVE  IInv'
<1>1. pc' \in [Clients -> Steps] /\ SlotsExact'
  BY MoveKeeps
<1>. QED
  BY <1>1 DEF IInv, TypeOK

LEMMA AcquireKeeps ==
  ASSUME IInv, NEW c \in Clients, Acquire(c), Available
  PROVE  IInv'
<1>1. /\ pc[c] = "parsed" /\ "extracting" \in Steps /\ "extracting" \in Extracting
      /\ "parsed" \notin Extracting /\ Goto(c, "extracting")
      /\ sem > 0 /\ sem \in Nat /\ sem' = sem - 1 /\ UNCHANGED <<outcome, answer>>
  BY DEF Acquire, Available, Steps, Extracting, IInv, TypeOK
<1>2. Holders' = Holders \union {c} /\ c \notin Holders
  BY <1>1, MoveOne DEF IInv, Holders
<1>3. Cardinality(Holders') = Cardinality(Holders) + 1
  BY <1>2, HoldersFinite, FS_AddElement
<1>4. sem' = Limit - Cardinality(Holders')
  BY <1>1, <1>3, HoldersFinite, LimitPositive DEF IInv, SlotsExact
<1>5. pc' \in [Clients -> Steps] /\ sem' \in Nat
  BY <1>1, MoveOne DEF IInv
<1>. QED
  BY <1>1, <1>4, <1>5 DEF IInv, TypeOK, SlotsExact

LEMMA ReleaseKeeps ==
  ASSUME IInv, NEW c \in Clients, Release(c)
  PROVE  IInv'
<1>1. /\ pc[c] = "returned" /\ "returned" \in Extracting
      /\ "released" \in Steps /\ "released" \notin Extracting /\ Goto(c, "released")
      /\ sem \in Nat /\ sem' = sem + 1 /\ UNCHANGED <<outcome, answer>>
  BY DEF Release, Steps, Extracting, IInv, TypeOK
<1>2. Holders' = Holders \ {c} /\ c \in Holders
  BY <1>1, MoveOne DEF IInv, Holders
<1>3. Cardinality(Holders') = Cardinality(Holders) - 1
  BY <1>2, HoldersFinite, FS_RemoveElement
<1>4. sem' = Limit - Cardinality(Holders')
  BY <1>1, <1>3, HoldersFinite, LimitPositive DEF IInv, SlotsExact
<1>5. pc' \in [Clients -> Steps] /\ sem' \in Nat
  BY <1>1, MoveOne DEF IInv
<1>. QED
  BY <1>1, <1>4, <1>5 DEF IInv, TypeOK, SlotsExact

LEMMA Invariance == Safe => []IInv
<1>1. Init => IInv
  <2>. SUFFICES ASSUME Init PROVE IInv
    OBVIOUS
  <2>1. Holders = {}
    BY DEF Init, Holders, Extracting
  <2>2. Cardinality(Holders) = 0
    BY <2>1, FS_EmptySet
  <2>. QED
    BY <2>2, LimitPositive DEF Init, IInv, TypeOK, SlotsExact, Steps, Statuses
<1>2. ASSUME IInv, [Next]_vars PROVE IInv'
  <2>1. ASSUME NEW c \in Clients, Accept(c) PROVE IInv'
    <3>1. pc' \in [Clients -> Steps] /\ SlotsExact'
      BY <1>2, <2>1, MoveKeeps DEF Accept, Steps, Extracting
    <3>. QED
      BY <1>2, <2>1, <3>1 DEF IInv, TypeOK, Accept, Statuses
  <2>2. ASSUME NEW c \in Clients, CheckHeaders(c) \/ ReadBody(c) PROVE IInv'
    <3>1. CASE \E status \in Statuses : Reply(c, status)
      BY <1>2, <2>2, <3>1, ReplyKeeps DEF CheckHeaders, ReadBody, Extracting
    <3>2. CASE /\ Goto(c, "body") \/ Goto(c, "parsed")
               /\ UNCHANGED <<sem, outcome, answer>>
      BY <1>2, <2>2, <3>2, GoKeeps DEF CheckHeaders, ReadBody, Steps, Extracting
    <3>. QED
      BY <2>2, <3>1, <3>2 DEF CheckHeaders, ReadBody, Statuses, Rejections
  <2>3. ASSUME NEW c \in Clients, Acquire(c) PROVE IInv'
    <3>1. CASE ~Available
      BY <1>2, <2>3, <3>1, ReplyKeeps DEF Acquire, Statuses, Extracting
    <3>. QED
      BY <1>2, <2>3, <3>1, AcquireKeeps
  <2>4. ASSUME NEW c \in Clients, Skip(c) \/ Timeout(c) \/ Classify(c) PROVE IInv'
    BY <1>2, <2>4, ReturnKeeps DEF Skip, Timeout, Classify, Extracting
  <2>5. ASSUME NEW c \in Clients, Spawn(c) \/ ChildExits(c) PROVE IInv'
    <3>1. CASE Return(c, "raised") /\ Spawn(c)
      BY <1>2, <3>1, ReturnKeeps DEF Spawn, Extracting
    <3>2. CASE /\ Goto(c, "running") \/ Goto(c, "exited")
               /\ UNCHANGED <<sem, outcome, answer>>
      BY <1>2, <2>5, <3>2, GoKeeps DEF Spawn, ChildExits, Steps, Extracting
    <3>. QED
      BY <2>5, <3>1, <3>2 DEF Spawn, ChildExits
  <2>6. ASSUME NEW c \in Clients, Release(c) PROVE IInv'
    BY <1>2, <2>6, ReleaseKeeps
  <2>7. ASSUME NEW c \in Clients, Respond(c) PROVE IInv'
    <3>1. PICK status \in Statuses : pc[c] \notin Extracting /\ Reply(c, status)
      BY <2>7 DEF Respond, Status, Statuses, Rejections, Extracting
    <3>. QED
      BY <1>2, <3>1, ReplyKeeps
  <2>8. CASE UNCHANGED vars
    <3>1. Holders' = Holders
      BY <2>8 DEF vars, Holders
    <3>. QED
      BY <1>2, <2>8, <3>1 DEF IInv, TypeOK, SlotsExact, vars
  <2>. QED
    BY <1>2, <2>1, <2>2, <2>3, <2>4, <2>5, <2>6, <2>7, <2>8 DEF Next, Thread
<1>. QED
  BY <1>1, <1>2, PTL DEF Safe
-----------------------------------------------------------------------------
\* Every variable keeps its type.
THEOREM TypeCorrect == Spec => []TypeOK
  BY Invariance, PTL DEF IInv, Spec

\* The semaphore always has exactly the slots no extraction holds.
THEOREM SemaphoreExact == Spec => []SlotsExact
  BY Invariance, PTL DEF IInv, Spec
-----------------------------------------------------------------------------
(* The webhook's promise                                                   *)

LEMMA ExchangeOf ==
  ASSUME TypeOK, NEW c \in Clients, NEW v,
         \A d \in Clients \ {c} : Exchange'[d] = Exchange[d], Exchange'[c] = v
  PROVE  Exchange' = [Exchange EXCEPT ![c] = v]
<1>. DEFINE w == [Exchange EXCEPT ![c] = v]
<1>1. Exchange' = [d \in Clients |-> Exchange'[d]]
  BY DEF Exchange
<1>2. w = [d \in Clients |-> IF d = c THEN v ELSE Exchange[d]]
  BY DEF Exchange
<1>. QED
  BY <1>1, <1>2

\* Where an exchange stands is a matter of its own thread.
LEMMA OthersStay ==
  ASSUME TypeOK, NEW c \in Clients,
         \A d \in Clients \ {c} :
            pc'[d] = pc[d] /\ answer'[d] = answer[d] /\ outcome'[d] = outcome[d]
  PROVE  \A d \in Clients \ {c} : Exchange'[d] = Exchange[d]
  BY DEF Exchange, Status

LEMMA ReplyShows ==
  ASSUME TypeOK, NEW c \in Clients, NEW v \in Statuses, Reply(c, v)
  PROVE  Exchange' = [Exchange EXCEPT ![c] = v]
<1>1. /\ pc'[c] = "idle" /\ answer'[c] = v
      /\ \A d \in Clients \ {c} :
            pc'[d] = pc[d] /\ answer'[d] = answer[d] /\ outcome'[d] = outcome[d]
  BY DEF Reply, Goto, TypeOK
<1>2. Exchange'[c] = v
  BY <1>1 DEF Exchange
<1>. QED
  BY <1>1, <1>2, OthersStay, ExchangeOf

\* The same of a move to s without an answer.
LEMMA MoveShows ==
  ASSUME TypeOK, NEW c \in Clients, NEW s \in Steps \ {"idle", "released"}, Goto(c, s),
         \A d \in Clients \ {c} : answer'[d] = answer[d] /\ outcome'[d] = outcome[d]
  PROVE  Exchange' = [Exchange EXCEPT ![c] = IF s \in Extracting THEN "admitted" ELSE "open"]
<1>1. pc'[c] = s /\ \A d \in Clients \ {c} : pc'[d] = pc[d]
  BY MoveOne
<1>2. Exchange'[c] = IF s \in Extracting THEN "admitted" ELSE "open"
  BY <1>1 DEF Exchange
<1>. QED
  BY <1>1, <1>2, OthersStay, ExchangeOf

LEMMA RoomIsAvailable ==
  ASSUME IInv
  PROVE  Promise!Room <=> Available
<1>1. Promise!Admitted = Holders
  BY DEF Promise!Admitted, Exchange, Holders, IInv, TypeOK, Status, Statuses, Rejections,
         Steps, Extracting
<1>2. \A S : Promise!Cardinality(S) = Cardinality(S)
  BY DEF Promise!Cardinality, Cardinality
<1>. QED
  BY <1>1, <1>2, HoldersFinite, LimitPositive
     DEF Promise!Room, Available, IInv, SlotsExact

LEMMA StepImplements ==
  ASSUME IInv, [Next]_vars
  PROVE  [Promise!Next]_Exchange
<1>0. TypeOK
  BY DEF IInv
<1>1. \A c \in Clients :
         Exchange[c] = IF pc[c] = "idle" THEN answer[c]
                       ELSE IF pc[c] = "released" THEN Status(c)
                       ELSE IF pc[c] \in Extracting THEN "admitted" ELSE "open"
  BY DEF Exchange
<1>2. \A c \in Clients : [Exchange EXCEPT ![c] = Exchange[c]] = Exchange
  BY DEF Exchange
<1>. USE DEF Promise!Next, Promise!MoveTo
<1>3. ASSUME NEW c \in Clients, Accept(c) PROVE Promise!Next
  <2>1. Exchange' = [Exchange EXCEPT ![c] = "open"]
    BY <1>0, <1>3, MoveShows DEF Accept, Steps, Extracting, TypeOK
  <2>2. Exchange[c] \notin {"open", "admitted"}
    BY <1>0, <1>1, <1>3 DEF Accept, TypeOK, Statuses, Rejections
  <2>. QED
    BY <2>1, <2>2 DEF Promise!Post
<1>4. ASSUME NEW c \in Clients, CheckHeaders(c) \/ ReadBody(c)
      PROVE  [Promise!Next]_Exchange
  <2>1. Exchange[c] = "open"
    BY <1>1, <1>4 DEF CheckHeaders, ReadBody, Extracting
  <2>2. CASE \E status \in Rejections \union {"lost"} : Reply(c, status)
    <3>1. PICK status \in Rejections \union {"lost"} : Reply(c, status)
      BY <2>2
    <3>2. Exchange' = [Exchange EXCEPT ![c] = status]
      BY <1>0, <3>1, ReplyShows DEF Statuses
    <3>. QED
      BY <2>1, <3>2 DEF Promise!Reject, Promise!HangUp
  <2>3. CASE /\ Goto(c, "body") \/ Goto(c, "parsed")
             /\ UNCHANGED <<sem, outcome, answer>>
    <3>1. Exchange' = [Exchange EXCEPT ![c] = "open"]
      BY <1>0, <2>3, MoveShows DEF Steps, Extracting
    <3>. QED
      BY <1>2, <2>1, <3>1
  <2>. QED
    BY <1>4, <2>2, <2>3 DEF CheckHeaders, ReadBody, Rejections
<1>5. ASSUME NEW c \in Clients, Acquire(c) PROVE Promise!Next
  <2>1. Exchange[c] = "open"
    BY <1>1, <1>5 DEF Acquire, Extracting
  <2>2. CASE Available
    <3>1. Exchange' = [Exchange EXCEPT ![c] = "admitted"]
      BY <1>0, <1>5, <2>2, MoveShows DEF Acquire, Steps, Extracting
    <3>. QED
      BY <2>1, <2>2, <3>1, RoomIsAvailable DEF Promise!Admit
  <2>3. CASE ~Available
    <3>1. Exchange' = [Exchange EXCEPT ![c] = "429"]
      BY <1>0, <1>5, <2>3, ReplyShows DEF Acquire, Statuses
    <3>. QED
      BY <2>1, <2>3, <3>1, RoomIsAvailable DEF Promise!Refuse
  <2>. QED
    BY <2>2, <2>3
<1>6. ASSUME NEW c \in Clients,
             Skip(c) \/ Spawn(c) \/ ChildExits(c) \/ Timeout(c) \/ Classify(c)
      PROVE  Exchange' = Exchange
  <2>1. /\ pc[c] \in Extracting /\ Exchange[c] = "admitted"
        /\ \E s \in {"running", "exited", "returned"} : Goto(c, s)
        /\ \A d \in Clients \ {c} : answer'[d] = answer[d] /\ outcome'[d] = outcome[d]
    BY <1>0, <1>1, <1>6 DEF Skip, Spawn, ChildExits, Timeout, Classify, Return, Extracting,
                            TypeOK
  <2>2. Exchange' = [Exchange EXCEPT ![c] = "admitted"]
    BY <1>0, <2>1, MoveShows DEF Steps, Extracting
  <2>. QED
    BY <1>2, <2>1, <2>2
<1>7. ASSUME NEW c \in Clients, Release(c) PROVE Promise!Next
  <2>1. /\ pc'[c] = "released" /\ outcome' = outcome /\ answer' = answer
        /\ \A d \in Clients \ {c} : pc'[d] = pc[d]
    BY <1>0, <1>7 DEF Release, Goto, TypeOK
  <2>2. Exchange'[c] = Status(c)
    BY <2>1 DEF Exchange, Status
  <2>3. Exchange' = [Exchange EXCEPT ![c] = Status(c)]
    BY <1>0, <2>1, <2>2, OthersStay, ExchangeOf
  <2>4. Exchange[c] = "admitted" /\ Status(c) \in {"200", "500"}
    BY <1>1, <1>7 DEF Release, Extracting, Status
  <2>. QED
    BY <2>3, <2>4 DEF Promise!Answer
<1>8. ASSUME NEW c \in Clients, Respond(c) PROVE Exchange' = Exchange
  <2>1. Exchange' = [Exchange EXCEPT ![c] = Status(c)]
    <3>1. PICK status \in Statuses : status = Status(c) /\ Reply(c, status)
      BY <1>8 DEF Respond, Status, Statuses, Rejections
    <3>. QED
      BY <1>0, <3>1, ReplyShows
  <2>2. Exchange[c] = Status(c)
    BY <1>1, <1>8 DEF Respond
  <2>. QED
    BY <1>2, <2>1, <2>2
<1>9. CASE UNCHANGED vars
  BY <1>9 DEF vars, Exchange, Status
<1>. QED
  BY <1>3, <1>4, <1>5, <1>6, <1>7, <1>8, <1>9 DEF Next, Thread

\* The v1 listener keeps the webhook's promise, for any number of clients and
\* any limit: its safety part, KeepsPromise less the fairness.
THEOREM PromiseKept == Safe => Promise!Safe
<1>1. Init => Promise!Init
  BY DEF Init, Promise!Init, Exchange
<1>. QED
  BY <1>1, StepImplements, Invariance, PTL DEF Safe, Promise!Safe
=============================================================================
