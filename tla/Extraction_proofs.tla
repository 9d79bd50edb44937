------------------------- MODULE Extraction_proofs -------------------------
(***************************************************************************)
(* Proofs about Extraction for any number of alerts at once, with or       *)
(* without retention, when no two of them share a file name.               *)
(***************************************************************************)
EXTENDS Extraction, TLAPS

USE JobsAssumption, NameAssumption, FlagAssumption

\* No two alerts of one second have ids that sanitize to the same text.
DistinctNames == \A i, j \in Jobs : NameOf[i] = NameOf[j] => i = j

\* A job's file is its own.
Own(j) ==
    /\ Target(j) \in {None, j}
    /\ output[j] \in {None, j}
    /\ Target(j) = j => output[j] = j
    /\ contents[j] = IF j \in matched THEN {j} ELSE {}
    /\ j \in matched => output[j] = j

\* What run_extraction knows at each of its calls.
Knows(j) ==
    /\ pc[j] \in {"ready", "spawn"} => rc[j] = "none" /\ output[j] = None
    /\ pc[j] # "done" => result[j] = "none"
    /\ pc[j] \in {"exists", "getsize", "report", "recheck", "remove"}
         => rc[j] = "zero" /\ j \notin garbled
    /\ pc[j] \in {"wait", "exists", "getsize", "report"} /\ ~pruning
         => Target(j) = output[j]
    /\ pc[j] \in {"getsize", "report"} => output[j] = j
    /\ pc[j] = "report" => j \in matched
    /\ pc[j] \in {"recheck", "remove"} /\ j \in matched => pruning /\ Target(j) = None

\* The verdict on one job, and that nothing can make it wrong later.
Verdict(j) ==
    /\ result[j] = "url" =>
          /\ rc[j] = "zero" /\ j \in matched \ garbled
          /\ ~pruning => Target(j) = output[j]
    /\ result[j] = "failed" =>
          /\ rc[j] = "zero" /\ Target(j) # None => NameOf[j] \in Stuck /\ j \notin matched
          /\ rc[j] = "zero" /\ j \in matched => pruning
    /\ result[j] = "raised" /\ rc[j] # "none" => pruning \/ j \in garbled

Local(j) == Own(j) /\ Knows(j) /\ Verdict(j)

IInv == TypeOK /\ \A j \in Jobs : Local(j)

\* All that Local(j) speaks of.
SameFor(j) ==
    /\ pc'[j] = pc[j] /\ result'[j] = result[j] /\ rc'[j] = rc[j]
    /\ output'[j] = output[j] /\ contents'[j] = contents[j]
    /\ j \in matched' <=> j \in matched
    /\ j \in garbled' <=> j \in garbled
    /\ Target(j)' = Target(j)
    /\ UNCHANGED pruning
-----------------------------------------------------------------------------
LEMMA Frame ==
  ASSUME NEW j \in Jobs, Local(j), SameFor(j)
  PROVE  Local(j)'
  BY DEF Local, Own, Knows, Verdict, SameFor

\* A step of one job leaves every other job's part of the state alone.
LEMMA Others ==
  ASSUME DistinctNames, IInv, NEW j \in Jobs, Caller(j) \/ Child(j),
         NEW k \in Jobs, k # j
  PROVE  SameFor(k)
<1>1. NameOf[k] # NameOf[j] /\ NameOf[k] \in Names /\ NameOf[j] \in Names
  BY DEF DistinctNames
<1>2. /\ pc \in [Jobs -> Calls] /\ rc \in [Jobs -> {"none", "zero", "nonzero"}]
      /\ result \in [Jobs -> Texts \union {"none", "raised"}]
      /\ output \in [Jobs -> Jobs \union {None}]
      /\ dir \in [Names -> Jobs \union {None}]
      /\ contents \in [Jobs -> SUBSET Jobs]
  BY DEF IInv, TypeOK
<1>3. Target(j) \in {None, j} /\ output[j] \in {None, j}
  BY DEF IInv, Local, Own
<1>4. CASE Prepare(j) \/ Spawn(j) \/ Timeout(j) \/ Wait(j) \/ Exists(j)
           \/ GetSize(j) \/ Report(j) \/ Recheck(j)
  <2>1. /\ pc'[k] = pc[k] /\ result'[k] = result[k]
        /\ UNCHANGED <<rc, output, matched, garbled, dir, contents, pruning>>
    BY <1>2, <1>4 DEF Prepare, Spawn, Timeout, Wait, Exists, GetSize, Report,
                      Recheck, Goto, Finish
  <2>. QED
    BY <2>1 DEF SameFor, Target
<1>5. CASE Remove(j)
  BY <1>1, <1>2, <1>5 DEF Remove, Finish, SameFor, Target
<1>6. CASE ChildOpens(j)
  BY <1>1, <1>2, <1>3, <1>6 DEF ChildOpens, SameFor, Target
<1>7. CASE ChildWrites(j)
  BY <1>1, <1>2, <1>3, <1>7 DEF ChildWrites, SameFor, Target
<1>8. CASE ChildExits(j)
  BY <1>1, <1>2, <1>8 DEF ChildExits, SameFor, Target
<1>. QED
  BY <1>4, <1>5, <1>6, <1>7, <1>8 DEF Caller, Child

LEMMA NextType ==
  ASSUME TypeOK, [Next]_vars
  PROVE  TypeOK'
<1>. USE DEF Calls, Texts
<1>1. ASSUME NEW j \in Jobs, Caller(j) PROVE TypeOK'
  <2>1. CASE Remove(j)
    BY <2>1 DEF Remove, Finish, TypeOK
  <2>2. CASE Prepare(j) \/ Spawn(j) \/ Timeout(j)
    <3>1. \/ Goto(j, "spawn") \/ Goto(j, "wait")
          \/ \E text \in {"raised", "no bpf", "timeout"} : Finish(j, text)
      BY <2>2 DEF Prepare, Spawn, Timeout
    <3>2. UNCHANGED <<rc, output, matched, garbled, dir, contents, pruning>>
      BY <2>2 DEF Prepare, Spawn, Timeout
    <3>3. ASSUME NEW call \in {"spawn", "wait"}, Goto(j, call) PROVE TypeOK'
      BY <3>2, <3>3 DEF Goto, TypeOK
    <3>4. ASSUME NEW text \in {"raised", "no bpf", "timeout"}, Finish(j, text)
          PROVE  TypeOK'
      BY <3>2, <3>4 DEF Finish, TypeOK
    <3>. QED
      BY <3>1, <3>3, <3>4
  <2>3. CASE Wait(j) \/ Exists(j) \/ Report(j) \/ Recheck(j)
    BY <2>3 DEF Wait, Exists, Report, Recheck, Finish, Goto, TypeOK
  <2>4. CASE GetSize(j)
    BY <2>4 DEF GetSize, Finish, Goto, TypeOK
  <2>. QED
    BY <1>1, <2>1, <2>2, <2>3, <2>4 DEF Caller
<1>2. ASSUME NEW j \in Jobs, ChildOpens(j) PROVE TypeOK'
  <2>. DEFINE file == IF Target(j) = None THEN j ELSE Target(j)
  <2>1. file \in Jobs /\ NameOf[j] \in Names
    BY DEF TypeOK, Target
  <2>2. /\ dir' = [dir EXCEPT ![NameOf[j]] = file]
        /\ contents' = [contents EXCEPT ![file] = {}]
        /\ output' = [output EXCEPT ![j] = file]
        /\ UNCHANGED <<pc, result, rc, matched, garbled, pruning>>
    BY <1>2 DEF ChildOpens
  <2>. HIDE DEF file
  <2>. QED
    BY <2>1, <2>2 DEF TypeOK
<1>3. ASSUME NEW j \in Jobs, ChildWrites(j) \/ ChildExits(j) PROVE TypeOK'
  <2>1. CASE ChildWrites(j)
    <3>1. output[j] \in Jobs
      BY <2>1 DEF ChildWrites, TypeOK
    <3>2. contents' \in [Jobs -> SUBSET Jobs]
      BY <2>1, <3>1 DEF ChildWrites, TypeOK
    <3>. QED
      BY <2>1, <3>2 DEF ChildWrites, TypeOK
  <2>2. CASE ChildExits(j)
    BY <2>2 DEF ChildExits, TypeOK
  <2>. QED
    BY <1>3, <2>1, <2>2
<1>4. ASSUME NEW n \in Names, Prune(n) PROVE TypeOK'
  BY <1>4 DEF Prune, TypeOK
<1>5. CASE UNCHANGED vars
  BY <1>5 DEF vars, TypeOK
<1>. QED
  BY <1>1, <1>2, <1>3, <1>4, <1>5 DEF Next, Child, AllDone

\* A step of a job's thread.
LEMMA CallerKeeps ==
  ASSUME IInv, NEW j \in Jobs, Caller(j)
  PROVE  Local(j)'
<1>. USE DEF Goto, Finish, Local, Own, Knows, Verdict, Target
<1>1. /\ pc \in [Jobs -> Calls] /\ Local(j)
      /\ result \in [Jobs -> Texts \union {"none", "raised"}]
      /\ dir \in [Names -> Jobs \union {None}] /\ NameOf[j] \in Names
  BY DEF IInv, TypeOK
<1>2. CASE Prepare(j)
  BY <1>1, <1>2 DEF Prepare
<1>3. CASE Spawn(j)
  BY <1>1, <1>3 DEF Spawn
<1>4. CASE Timeout(j)
  BY <1>1, <1>4 DEF Timeout
<1>5. CASE Wait(j)
  BY <1>1, <1>5 DEF Wait
<1>6. CASE Exists(j)
  BY <1>1, <1>6 DEF Exists
<1>7. CASE GetSize(j)
  <2>1. CASE Target(j) = None
    BY <1>1, <1>7, <2>1 DEF GetSize
  <2>2. CASE Target(j) = j
    <3>1. contents[Target(j)] # {} <=> j \in matched
      BY <1>1, <2>2
    <3>2. Target(j) # None
      BY <2>2
    <3>3. CASE j \in matched
      <4>1. pc' = [pc EXCEPT ![j] = "report"] /\ UNCHANGED result
        BY <1>7, <3>1, <3>2, <3>3 DEF GetSize
      <4>. QED
        BY <1>1, <1>7, <2>2, <3>3, <4>1 DEF GetSize
    <3>4. CASE j \notin matched
      <4>1. pc' = [pc EXCEPT ![j] = "recheck"] /\ UNCHANGED result
        BY <1>7, <3>1, <3>2, <3>4 DEF GetSize
      <4>. QED
        BY <1>1, <1>7, <2>2, <3>4, <4>1 DEF GetSize
    <3>. QED
      BY <3>3, <3>4
  <2>. QED
    BY <1>1, <2>1, <2>2
<1>8. CASE Report(j)
  BY <1>1, <1>8 DEF Report
<1>9. CASE Recheck(j)
  BY <1>1, <1>9 DEF Recheck
<1>10. CASE Remove(j)
  BY <1>1, <1>10 DEF Remove
<1>. QED
  BY <1>2, <1>3, <1>4, <1>5, <1>6, <1>7, <1>8, <1>9, <1>10 DEF Caller

\* A step of a job's child.
LEMMA ChildKeeps ==
  ASSUME IInv, NEW j \in Jobs, Child(j)
  PROVE  Local(j)'
<1>. USE DEF Alive, Local, Own, Knows, Verdict, Target
<1>1. /\ pc \in [Jobs -> Calls] /\ Local(j) /\ matched \in SUBSET Jobs
      /\ rc \in [Jobs -> {"none", "zero", "nonzero"}]
      /\ output \in [Jobs -> Jobs \union {None}]
      /\ contents \in [Jobs -> SUBSET Jobs]
      /\ dir \in [Names -> Jobs \union {None}] /\ NameOf[j] \in Names
  BY DEF IInv, TypeOK
<1>2. CASE ChildOpens(j)
  BY <1>1, <1>2 DEF ChildOpens
<1>3. CASE ChildWrites(j)
  BY <1>1, <1>3 DEF ChildWrites
<1>4. CASE ChildExits(j)
  BY <1>1, <1>4 DEF ChildExits
<1>. QED
  BY <1>2, <1>3, <1>4 DEF Child

\* Retention excuses what it disturbs.
LEMMA PruneKeeps ==
  ASSUME IInv, NEW n \in Names, Prune(n), NEW j \in Jobs
  PROVE  Local(j)'
<1>1. pruning /\ Local(j) /\ UNCHANGED <<pc, result, rc, output, matched, garbled, contents, pruning>>
  BY DEF IInv, Prune
<1>2. Target(j)' = Target(j) \/ Target(j)' = None
  BY DEF IInv, TypeOK, Prune, Target
<1>. QED
  BY <1>1, <1>2 DEF Local, Own, Knows, Verdict

LEMMA NextInv == DistinctNames /\ IInv /\ [Next]_vars => IInv'
<1>. SUFFICES ASSUME DistinctNames, IInv, [Next]_vars, NEW k \in Jobs
              PROVE  Local(k)'
  BY NextType DEF IInv
<1>0. Local(k)
  BY DEF IInv
<1>1. ASSUME NEW j \in Jobs, Caller(j) \/ Child(j) PROVE Local(k)'
  <2>1. CASE k = j
    BY <1>1, <2>1, CallerKeeps, ChildKeeps
  <2>2. CASE k # j
    BY <1>0, <1>1, <2>2, Others, Frame
  <2>. QED
    BY <2>1, <2>2
<1>2. ASSUME NEW n \in Names, Prune(n) PROVE Local(k)'
  BY <1>2, PruneKeeps
<1>3. CASE UNCHANGED vars
  BY <1>0, <1>3, Frame DEF vars, SameFor, Target
<1>. QED
  BY <1>1, <1>2, <1>3 DEF Next, AllDone

LEMMA InitInv == Init => IInv
<1>. SUFFICES ASSUME Init PROVE IInv
  OBVIOUS
<1>1. TypeOK
  BY DEF Init, TypeOK, Calls, Texts
<1>2. ASSUME NEW j \in Jobs PROVE Local(j)
  BY DEF Init, Local, Own, Knows, Verdict, Target
<1>. QED
  BY <1>1, <1>2 DEF IInv

LEMMA Invariance ==
  ASSUME DistinctNames
  PROVE  Safe => []IInv
<1>1. IInv /\ [Next]_vars => IInv'
  BY NextInv
<1>. QED
  BY <1>1, InitInv, PTL DEF Safe
-----------------------------------------------------------------------------
\* Every variable keeps its type, whatever names the alerts share.
THEOREM TypeCorrect == Safe => []TypeOK
<1>1. Init => TypeOK
  BY DEF Init, TypeOK, Calls, Texts
<1>. QED
  BY <1>1, NextType, PTL DEF Safe

\* What run_extraction returns says what its child did, for any number of
\* extractions at once and with retention at work: a URL names the job's own
\* packets alone, "failed" leaves no file of a success, unless an empty one that
\* could not be removed, and only retention or what the child printed makes it
\* raise after the child has exited.
THEOREM VerdictCorrect ==
  ASSUME DistinctNames
  PROVE  Safe => []VerdictRight
<1>1. IInv => VerdictRight
  BY DEF IInv, Local, Own, Verdict, VerdictRight
<1>. QED
  BY <1>1, Invariance, PTL
=============================================================================
