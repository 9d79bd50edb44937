----------------------------- MODULE Extraction -----------------------------
(***************************************************************************)
(* run_extraction of src/sycope_recorder/extraction.py, run by several     *)
(* threads at once over one output directory, with the npcapextract child  *)
(* each of them waits for and the retention sweep that may unlink a file   *)
(* between any two of their system calls.                                  *)
(*                                                                         *)
(* A step is one system call of run_extraction or of a child. The output   *)
(* directory maps names to files; a file is called after the job whose     *)
(* child created it, and holds the packets of the jobs in contents[file].  *)
(* npcapextract is taken to be one process: a timeout kills all of it.     *)
(***************************************************************************)
EXTENDS Naturals, FiniteSets

CONSTANTS
    Jobs,     \* admitted alerts, each extracted once
    Names,    \* output file names
    NameOf,   \* NameOf[j]: build_filename(alert_time, alert_id) of job j
    Slots,    \* how many jobs the gate of the listener lets in at once
    Creates,  \* whether a child that succeeds has created its output file
    Stuck,    \* names whose file os.remove may fail to remove
    None      \* no file

ASSUME JobsAssumption  == IsFiniteSet(Jobs) /\ None \notin Jobs
ASSUME NameAssumption  == NameOf \in [Jobs -> Names]
ASSUME SlotsAssumption == Slots \in Nat \ {0}
ASSUME FlagAssumption  == Creates \in BOOLEAN /\ Stuck \subseteq Names

VARIABLES
    pc,        \* pc[j]: the next call of run_extraction for j
    result,    \* result[j]: the text it returned, or "raised"
    rc,        \* rc[j]: exit status of j's child once it has one
    output,    \* output[j]: the file j's child has open or had open
    matched,   \* jobs whose child found packets
    garbled,   \* jobs whose child printed what cannot be decoded as text
    dir,       \* dir[n]: the file called n in settings.output_dir
    contents,  \* contents[f]: whose packets file f holds, {} if it is empty
    pruning    \* whether a retention limit is configured

vars == <<pc, result, rc, output, matched, garbled, dir, contents, pruning>>

Texts == {"url", "no bpf", "timeout", "failed"}
Calls == {"ready", "spawn", "wait", "exists", "getsize", "report",
          "recheck", "remove", "done"}

InProgress == {j \in Jobs : pc[j] \notin {"ready", "done"}}

\* The file under j's own name.
Target(j) == dir[NameOf[j]]

Init ==
    /\ pc = [j \in Jobs |-> "ready"]
    /\ result = [j \in Jobs |-> "none"]
    /\ rc = [j \in Jobs |-> "none"]
    /\ output = [j \in Jobs |-> None]
    /\ matched = {} /\ garbled = {}
    /\ dir = [n \in Names |-> None]
    /\ contents = [j \in Jobs |-> {}]
    /\ pruning \in BOOLEAN
-----------------------------------------------------------------------------
(* run_extraction                                                          *)

Goto(j, call) == pc' = [pc EXCEPT ![j] = call] /\ UNCHANGED result

Finish(j, text) ==
    /\ pc' = [pc EXCEPT ![j] = "done"]
    /\ result' = [result EXCEPT ![j] = text]

\* The time of the alert may be out of datetime's range, the filter empty, the
\* directory impossible to make; otherwise the command line is built.
Prepare(j) ==
    /\ pc[j] = "ready"
    /\ Cardinality(InProgress) < Slots
    /\ \/ Finish(j, "raised")
       \/ Finish(j, "no bpf")
       \/ Goto(j, "spawn")
    /\ UNCHANGED <<rc, output, matched, garbled, dir, contents, pruning>>

\* subprocess.run raises when there is no npcapextract to run.
Spawn(j) ==
    /\ pc[j] = "spawn"
    /\ Goto(j, "wait") \/ Finish(j, "raised")
    /\ UNCHANGED <<rc, output, matched, garbled, dir, contents, pruning>>

\* Mistake: subprocess.run without its timeout.
TimeoutNever(j) == FALSE

\* The timeout kills the child; what it wrote so far stays.
Timeout(j) ==
    /\ pc[j] = "wait"
    /\ rc[j] = "none"
    /\ Finish(j, "timeout")
    /\ UNCHANGED <<rc, output, matched, garbled, dir, contents, pruning>>

\* Mistake: the status is not looked at.
WaitUnchecked(j) ==
    /\ pc[j] = "wait"
    /\ rc[j] # "none"
    /\ Goto(j, "exists")
    /\ UNCHANGED <<rc, output, matched, garbled, dir, contents, pruning>>

\* Mistake: the status is returned in place of the text.
WaitReturningStatus(j) ==
    /\ pc[j] = "wait"
    /\ rc[j] # "none"
    /\ IF rc[j] = "zero" THEN Goto(j, "exists") ELSE Finish(j, rc[j])
    /\ UNCHANGED <<rc, output, matched, garbled, dir, contents, pruning>>

\* Mistake: a nonzero status, too, is followed by the deletion of the file.
WaitCleaningUp(j) ==
    /\ pc[j] = "wait"
    /\ rc[j] # "none"
    /\ Goto(j, IF rc[j] = "zero" THEN "exists" ELSE "recheck")
    /\ UNCHANGED <<rc, output, matched, garbled, dir, contents, pruning>>

\* subprocess.run returns, and a nonzero status settles it; or it raises over
\* the output, which text=True has it decode.
Wait(j) ==
    /\ pc[j] = "wait"
    /\ rc[j] # "none"
    /\ \/ j \in garbled /\ Finish(j, "raised")
       \/ j \notin garbled /\ rc[j] = "zero" /\ Goto(j, "exists")
       \/ j \notin garbled /\ rc[j] = "nonzero" /\ Finish(j, "failed")
    /\ UNCHANGED <<rc, output, matched, garbled, dir, contents, pruning>>

Exists(j) ==
    /\ pc[j] = "exists"
    /\ Goto(j, IF Target(j) # None THEN "getsize" ELSE "recheck")
    /\ UNCHANGED <<rc, output, matched, garbled, dir, contents, pruning>>

\* Mistake: any file will do, also an empty one.
GetSizeIgnored(j) ==
    /\ pc[j] = "getsize"
    /\ IF Target(j) = None THEN Finish(j, "raised") ELSE Goto(j, "report")
    /\ UNCHANGED <<rc, output, matched, garbled, dir, contents, pruning>>

GetSize(j) ==
    /\ pc[j] = "getsize"
    /\ IF Target(j) = None
       THEN Finish(j, "raised")
       ELSE Goto(j, IF contents[Target(j)] # {} THEN "report" ELSE "recheck")
    /\ UNCHANGED <<rc, output, matched, garbled, dir, contents, pruning>>

\* The size is asked for again, to be logged, before the URL is returned.
Report(j) ==
    /\ pc[j] = "report"
    /\ Finish(j, IF Target(j) = None THEN "raised" ELSE "url")
    /\ UNCHANGED <<rc, output, matched, garbled, dir, contents, pruning>>

\* Mistake: the extraction of a MISS is tried again.
RecheckRetrying(j) ==
    /\ pc[j] = "recheck"
    /\ Goto(j, "spawn")
    /\ UNCHANGED <<rc, output, matched, garbled, dir, contents, pruning>>

\* A child that succeeded without output, or with an empty one: the MISS.
Recheck(j) ==
    /\ pc[j] = "recheck"
    /\ IF Target(j) # None THEN Goto(j, "remove") ELSE Finish(j, "failed")
    /\ UNCHANGED <<rc, output, matched, garbled, dir, contents, pruning>>

\* An OSError is no error, whether the file is gone already or is still there.
Remove(j) ==
    /\ pc[j] = "remove"
    /\ \/ dir' = [dir EXCEPT ![NameOf[j]] = None]
       \/ NameOf[j] \in Stuck /\ UNCHANGED dir
    /\ Finish(j, "failed")
    /\ UNCHANGED <<rc, output, matched, garbled, contents, pruning>>
-----------------------------------------------------------------------------
(* The npcapextract child of job j, and retention                          *)

Alive(j) == pc[j] = "wait" /\ rc[j] = "none"

\* -o: create the file, or truncate the one of that name.
ChildOpens(j) ==
    /\ Alive(j)
    /\ output[j] = None
    /\ LET file == IF Target(j) = None THEN j ELSE Target(j)
       IN  /\ dir' = [dir EXCEPT ![NameOf[j]] = file]
           /\ contents' = [contents EXCEPT ![file] = {}]
           /\ output' = [output EXCEPT ![j] = file]
    /\ UNCHANGED <<pc, result, rc, matched, garbled, pruning>>

ChildWrites(j) ==
    /\ Alive(j)
    /\ output[j] # None
    /\ matched' = matched \union {j}
    /\ contents' = [contents EXCEPT ![output[j]] = @ \union {j}]
    /\ UNCHANGED <<pc, result, rc, output, garbled, dir, pruning>>

ChildExits(j) ==
    /\ Alive(j)
    /\ \/ rc' = [rc EXCEPT ![j] = "nonzero"]
       \/ (Creates => output[j] # None) /\ rc' = [rc EXCEPT ![j] = "zero"]
    /\ garbled' \in {garbled, garbled \union {j}}
    /\ UNCHANGED <<pc, result, output, matched, dir, contents, pruning>>

\* A sweep deletes a file, for its age or for the size of the directory.
Prune(n) ==
    /\ pruning
    /\ dir[n] # None
    /\ dir' = [dir EXCEPT ![n] = None]
    /\ UNCHANGED <<pc, result, rc, output, matched, garbled, contents, pruning>>
-----------------------------------------------------------------------------
Caller(j) == \/ Prepare(j) \/ Spawn(j) \/ Timeout(j) \/ Wait(j) \/ Exists(j)
             \/ GetSize(j) \/ Report(j) \/ Recheck(j) \/ Remove(j)

Child(j) == ChildOpens(j) \/ ChildWrites(j) \/ ChildExits(j)

\* All alerts are dealt with.
AllDone == (\A j \in Jobs : pc[j] = "done") /\ UNCHANGED vars

Next == \/ \E j \in Jobs : Caller(j) \/ Child(j)
        \/ \E n \in Names : Prune(n)
        \/ AllDone

Safe == Init /\ [][Next]_vars

\* A thread that can go on does; waiting for a child ends by its timeout.
\* Nothing is assumed of the child or of retention.
Spec == Safe /\ \A j \in Jobs : WF_vars(Caller(j))
-----------------------------------------------------------------------------
(* Properties                                                              *)

\* Every variable keeps to its type.
TypeOK ==
    /\ pc \in [Jobs -> Calls]
    /\ result \in [Jobs -> Texts \union {"none", "raised"}]
    /\ rc \in [Jobs -> {"none", "zero", "nonzero"}]
    /\ output \in [Jobs -> Jobs \union {None}]
    /\ matched \in SUBSET Jobs /\ garbled \in SUBSET Jobs
    /\ dir \in [Names -> Jobs \union {None}]
    /\ contents \in [Jobs -> SUBSET Jobs]
    /\ pruning \in BOOLEAN

\* run_extraction's contract: what it returns once its child has exited says
\* what the child did. A URL means the child succeeded and found packets, and
\* the file holds them and no others; "failed" means that it did not succeed
\* or found nothing, and then a success leaves no file behind, unless one that
\* is empty and cannot be removed. Retention can make a success look like a
\* failure or raise, never the reverse; else only what the child printed raises
\* once it has exited.
VerdictRight ==
    \A j \in Jobs :
        /\ result[j] = "url" =>
              /\ rc[j] = "zero" /\ j \in matched \ garbled
              /\ contents[output[j]] = {j}
              /\ ~pruning => Target(j) = output[j]
        /\ result[j] = "failed" =>
              /\ rc[j] = "zero" /\ Target(j) # None
                    => NameOf[j] \in Stuck /\ contents[Target(j)] = {}
              /\ rc[j] = "zero" /\ j \in matched => pruning
        /\ result[j] = "raised" /\ rc[j] # "none" => pruning \/ j \in garbled

\* Every alert that is let in is dealt with, also when its child hangs.
Finishes == \A j \in Jobs : pc[j] # "ready" ~> pc[j] = "done"
=============================================================================
