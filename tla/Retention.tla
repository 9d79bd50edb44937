----------------------------- MODULE Retention -----------------------------
(***************************************************************************)
(* The retention task of src/sycope_recorder/retention.py: retention_loop, *)
(* and the sweep it runs at every interval, which lists and stats the      *)
(* .pcap files of the output directory, deletes the aged ones, and then    *)
(* the oldest of the rest until they fit the size budget.                  *)
(*                                                                         *)
(* A step is one system call of the sweep; what it only computes from its  *)
(* snapshot is part of the call before or after. A deletion takes up to    *)
(* three: getsize, remove, exists. Meanwhile the threads of extraction.py  *)
(* create, rewrite and remove files; the sweep blocks the event loop, not  *)
(* them.                                                                   *)
(***************************************************************************)
EXTENDS Integers, FiniteSets, Functions

CONSTANTS
    Files,      \* names of .pcap files the directory may hold
    Stuck,      \* those among them that os.remove may fail to remove
    MaxAge,     \* max_age_seconds, 0 for no limit
    MaxTotal,   \* max_total_bytes, 0 for no limit
    Horizon,    \* BOUND on the clock
    MaxSize     \* BOUND on the size of a file

ASSUME FilesAssumption == IsFiniteSet(Files) /\ Stuck \subseteq Files
ASSUME LimitAssumption == MaxAge \in Nat /\ MaxTotal \in Nat
ASSUME BoundAssumption == Horizon \in Nat /\ MaxSize \in Nat

VARIABLES
    busy,      \* whether extractions run while a sweep is on its way
    now,       \* time.time(), in units of the model
    present,   \* the files of the directory
    mtime,     \* st_mtime of each, 0 for a file that is absent
    size,      \* st_size of each, 0 for a file that is absent
    stage,     \* where retention_loop stands
    asOf,      \* the now argument of the current sweep
    unseen,    \* names listed and not yet looked at
    seenMtime, \* the snapshot: what stat said of the files in doomed and kept
    seenSize,
    doomed,    \* entries of the age pass yet to be deleted
    kept,      \* its survivors, less those the size pass has dealt with
    total,     \* bytes the size pass believes to be left
    victim,    \* the file that is being deleted, {} between two deletions
    call,      \* the call its deletion has come to, "choose" between two
    freed      \* what _delete has to return for it

disk     == <<present, mtime, size>>
snapshot == <<seenMtime, seenSize>>
deletion == <<victim, call, freed>>
sweep    == <<asOf, unseen, seenMtime, seenSize, doomed, kept, total, deletion>>
vars     == <<busy, now, disk, stage, sweep>>

Stages == {"waiting", "stat", "age", "size", "swept", "stopped"}

Calls == {"choose", "remove", "exists"}

Nowhere == [f \in Files |-> 0]

Init ==
    /\ busy \in BOOLEAN
    /\ now = 0
    /\ present = {} /\ mtime = Nowhere /\ size = Nowhere
    /\ stage = "waiting"
    /\ asOf = 0 /\ unseen = {} /\ seenMtime = Nowhere /\ seenSize = Nowhere
    /\ doomed = {} /\ kept = {} /\ total = 0
    /\ victim = {} /\ call = "choose" /\ freed = 0
-----------------------------------------------------------------------------
(* sweep_once                                                              *)

\* os.listdir. An unreadable directory counts as an empty one, and such a
\* sweep does nothing: it is no step.
List ==
    /\ stage = "waiting"
    /\ stage' = "stat"
    /\ asOf' = now
    /\ unseen' = present
    /\ UNCHANGED <<busy, now, disk, seenMtime, seenSize, doomed, kept, total, deletion>>

\* Mistake: the age is off by one.
ExpiredLate(t) == MaxAge > 0 /\ asOf - t > MaxAge + 1

\* Mistake: the limit is not strict.
ExpiredEarly(t) == MaxAge > 0 /\ asOf - t >= MaxAge

\* Older than the limit, strictly, when the sweep began.
Expired(t) == MaxAge > 0 /\ asOf - t > MaxAge

\* os.stat of the next name, and to which pass that leaves the file. A name
\* that has vanished is left out.
Stat(f) ==
    /\ stage = "stat"
    /\ f \in unseen
    /\ unseen' = unseen \ {f}
    /\ IF f \notin present
       THEN UNCHANGED <<seenMtime, seenSize, doomed, kept>>
       ELSE /\ seenMtime' = [seenMtime EXCEPT ![f] = mtime[f]]
            /\ seenSize' = [seenSize EXCEPT ![f] = size[f]]
            /\ IF Expired(mtime[f])
               THEN doomed' = doomed \union {f} /\ UNCHANGED kept
               ELSE kept' = kept \union {f} /\ UNCHANGED doomed
    /\ UNCHANGED <<busy, now, disk, stage, asOf, total, deletion>>

StartAgePass ==
    /\ stage = "stat"
    /\ unseen = {}
    /\ stage' = "age"
    /\ UNCHANGED <<busy, now, disk, sweep>>

\* The file f is gone from the directory, as os.remove leaves it.
Unlink(f) ==
    /\ present' = present \ {f}
    /\ mtime' = [mtime EXCEPT ![f] = 0]
    /\ size' = [size EXCEPT ![f] = 0]

\* _delete(f), its first call: a file that has vanished frees nothing.
GetSize(f) ==
    /\ call = "choose"
    /\ victim' = {f}
    /\ IF f \in present THEN call' = "remove" /\ freed' = size[f]
                        ELSE call' = "exists" /\ freed' = 0

\* Mistake: what was freed is subtracted from a sum of what was listed.
SettleFreed(f, gone) ==
    /\ victim' = {} /\ call' = "choose" /\ freed' = 0
    /\ total' = IF stage = "size" /\ gone THEN total - freed ELSE total

\* Mistake: what was freed is subtracted beside what was listed.
SettleTwice(f, gone) ==
    /\ victim' = {} /\ call' = "choose" /\ freed' = 0
    /\ total' = IF stage = "size" /\ gone THEN total - seenSize[f] - freed ELSE total

\* What the pass makes of a deletion: the size pass subtracts what it listed.
Settle(f, gone) ==
    /\ victim' = {} /\ call' = "choose" /\ freed' = 0
    /\ total' = IF stage = "size" /\ gone THEN total - seenSize[f] ELSE total

\* _delete(f), its second call. Bytes freed settle it; else it is asked whether
\* the file is gone. An OSError leaves the disk as it is and frees nothing.
Remove(f) ==
    /\ call = "remove"
    /\ f \in victim
    /\ \/ /\ f \in present
          /\ Unlink(f)
          /\ IF freed > 0 THEN Settle(f, TRUE)
                          ELSE call' = "exists" /\ UNCHANGED <<victim, freed, total>>
       \/ /\ f \notin present \/ f \in Stuck
          /\ call' = "exists" /\ freed' = 0
          /\ UNCHANGED <<disk, victim, total>>
    /\ UNCHANGED <<busy, now, stage, asOf, unseen, snapshot, doomed, kept>>

Exists(f) ==
    /\ call = "exists"
    /\ f \in victim
    /\ Settle(f, f \notin present)
    /\ UNCHANGED <<busy, now, disk, stage, asOf, unseen, snapshot, doomed, kept>>

AgeDelete(f) ==
    /\ stage = "age"
    /\ f \in doomed
    /\ doomed' = doomed \ {f}
    /\ GetSize(f)
    /\ UNCHANGED <<busy, now, disk, stage, asOf, unseen, snapshot, kept, total>>

StartSizePass ==
    /\ stage = "age" /\ call = "choose"
    /\ doomed = {}
    /\ stage' = IF MaxTotal > 0 THEN "size" ELSE "swept"
    /\ total' = SumFunctionOnSet(seenSize, kept)
    /\ UNCHANGED <<busy, now, disk, asOf, unseen, snapshot, doomed, kept, deletion>>

\* Mistake: the newest survivor goes.
SizeDeleteNewest(f) ==
    /\ stage = "size"
    /\ total > MaxTotal
    /\ f \in kept
    /\ \A g \in kept : seenMtime[f] >= seenMtime[g]
    /\ kept' = kept \ {f}
    /\ GetSize(f)
    /\ UNCHANGED <<busy, now, disk, stage, asOf, unseen, snapshot, doomed, total>>

\* The oldest survivor goes; of several, the order of listdir decides.
SizeDelete(f) ==
    /\ stage = "size"
    /\ total > MaxTotal
    /\ f \in kept
    /\ \A g \in kept : seenMtime[f] <= seenMtime[g]
    /\ kept' = kept \ {f}
    /\ GetSize(f)
    /\ UNCHANGED <<busy, now, disk, stage, asOf, unseen, snapshot, doomed, total>>

\* Mistake: one deletion is taken to be enough.
EndSizePassEarly ==
    /\ stage = "size" /\ call = "choose"
    /\ stage' = "swept"
    /\ UNCHANGED <<busy, now, disk, sweep>>

EndSizePass ==
    /\ stage = "size" /\ call = "choose"
    /\ total <= MaxTotal \/ kept = {}
    /\ stage' = "swept"
    /\ UNCHANGED <<busy, now, disk, sweep>>
-----------------------------------------------------------------------------
(* retention_loop                                                          *)

Forget ==
    /\ asOf' = 0 /\ unseen' = {} /\ doomed' = {} /\ kept' = {} /\ total' = 0
    /\ seenMtime' = Nowhere /\ seenSize' = Nowhere
    /\ victim' = {} /\ call' = "choose" /\ freed' = 0

\* The sweep returns; the loop waits for its interval or for shutdown.
Await ==
    /\ stage = "swept"
    /\ stage' = "waiting"
    /\ Forget
    /\ UNCHANGED <<busy, now, disk>>

\* The lifespan of api.py sets the event and cancels the task, which it can
\* only do while the task awaits; a worker that is killed leaves its sweep
\* where it is.
Stop ==
    /\ stage # "stopped"
    /\ stage' = "stopped"
    /\ Forget
    /\ UNCHANGED <<busy, now, disk>>

\* A new worker starts a new task, which sweeps at once.
Start ==
    /\ stage = "stopped"
    /\ stage' = "waiting"
    /\ UNCHANGED <<busy, now, disk, sweep>>

SweepStep ==
    \/ List \/ StartAgePass \/ StartSizePass \/ EndSizePass \/ Await
    \/ \E f \in Files : \/ Stat(f) \/ AgeDelete(f) \/ SizeDelete(f)
                       \/ Remove(f) \/ Exists(f)
-----------------------------------------------------------------------------
(* The clock and the extractions                                           *)

Tick ==
    /\ now < Horizon
    /\ now' = now + 1
    /\ UNCHANGED <<busy, disk, stage, sweep>>

ExtractionRuns == busy \/ stage \in {"waiting", "stopped"}

\* npcapextract creates or rewrites a file.
Write(f) ==
    /\ ExtractionRuns
    /\ present' = present \union {f}
    /\ mtime' = [mtime EXCEPT ![f] = now]
    /\ \E bytes \in 0 .. MaxSize : size' = [size EXCEPT ![f] = bytes]
    /\ UNCHANGED <<busy, now, stage, sweep>>

\* run_extraction removes the file of a MISS.
RemoveMiss(f) ==
    /\ ExtractionRuns
    /\ f \in present
    /\ Unlink(f)
    /\ UNCHANGED <<busy, now, stage, sweep>>

Next == \/ SweepStep \/ Stop \/ Start
        \/ Tick
        \/ \E f \in Files : Write(f) \/ RemoveMiss(f)

Safe == Init /\ [][Next]_vars

\* While the worker lives the sweep goes on, and the interval ends.
Spec == Safe /\ WF_vars(SweepStep)
-----------------------------------------------------------------------------
(* Properties                                                              *)

\* Every variable keeps to its type.
TypeOK ==
    /\ busy \in BOOLEAN
    /\ now \in Nat
    /\ present \in SUBSET Files
    /\ mtime \in [Files -> Nat] /\ size \in [Files -> Nat]
    /\ stage \in Stages
    /\ asOf \in Nat
    /\ unseen \in SUBSET Files
    /\ seenMtime \in [Files -> Nat] /\ seenSize \in [Files -> Nat]
    /\ doomed \in SUBSET Files /\ kept \in SUBSET Files
    /\ total \in Nat
    /\ victim \in SUBSET Files /\ call \in Calls /\ freed \in Nat

\* The sweep, and not an extraction, removes f in this step.
Swept(f) == /\ f \in present /\ f \notin present'
            /\ call = "remove" /\ f \in victim /\ call' # "remove"

Aged(f) == MaxAge > 0 /\ now - mtime[f] > MaxAge
OnDisk  == SumFunctionOnSet(size, present)

\* sweep_once's docstring: a file goes for being old, or for being part of an
\* oversized backlog, whose oldest go first. When the sweep has the directory
\* to itself it removes a file only if that file is aged, or if the budget is
\* exceeded at that moment and no file that could go instead is older.
PolicyRespected ==
    [][\A f \in Files :
         ~busy /\ Swept(f) => \/ Aged(f)
                     \/ /\ MaxTotal > 0 /\ OnDisk > MaxTotal
                        /\ \A g \in present \ Stuck :
                              Aged(g) \/ mtime[f] <= mtime[g]]_vars

\* After such a sweep no file is left that was aged when it began.
AgedPurged ==
    ~busy /\ stage = "swept" /\ MaxAge > 0
      => \A f \in present \ Stuck : asOf - mtime[f] <= MaxAge

\* README: the total size budget for extracted PCAPs. After such a sweep the
\* files keep to it, unless nothing is left that could be removed.
BudgetMet ==
    ~busy /\ stage = "swept" /\ MaxTotal > 0
      => OnDisk <= MaxTotal \/ present \subseteq Stuck

\* retention.py on the age pass: "delete anything older than max_age_seconds".
\* With extractions about, too, a younger file goes in it only if it is a new one
\* under the name of an aged one, written between the stat and the deletion.
AgedOnly ==
    [][\A f \in Files :
         stage = "age" /\ Swept(f) => Aged(f) \/ mtime[f] > seenMtime[f]]_vars

\* The size pass keeps its books by one measure, the listed sizes, whatever
\* extractions do to the files meanwhile: what it believes to be left is what
\* it still has on its list, and what it has tried to delete and found there
\* still, each file counted once. Without extractions these are files that
\* could not be removed; with them, also files written anew before the look.
AccountSound ==
    stage = "size" =>
        \E spared \in SUBSET (Files \ (kept \union victim)) :
            /\ total = SumFunctionOnSet(seenSize, kept \union victim \union spared)
            /\ ~busy => spared \subseteq Stuck

\* An aged file does not stay: it is removed or rewritten, unless the worker
\* stops first. No sequence of extractions keeps the sweep from it.
AgedGoes ==
    \A f \in Files \ Stuck :
        f \in present /\ Aged(f)
          ~> f \notin present \/ ~Aged(f) \/ stage = "stopped"
=============================================================================
