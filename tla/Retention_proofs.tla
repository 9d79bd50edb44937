-------------------------- MODULE Retention_proofs --------------------------
(***************************************************************************)
(* Proofs about the retention sweep for any files, limits and clock.       *)
(***************************************************************************)
EXTENDS Retention, FiniteSetTheorems, WellFoundedInduction, TLAPS
-----------------------------------------------------------------------------
(* What a sum over a set comes to. SumFunctionOnSet removes the elements   *)
(* one by one, whichever CHOOSE gives; here they may be removed in any     *)
(* order. Where a proof is by induction it takes a least counterexample.   *)

One(s) == CHOOSE x \in s : TRUE

\* The function by which Folds defines a sum adds up f over every subset.
AddsUp(f, D, g) ==
    g = [s \in D |-> IF s = {} THEN 0 ELSE f[One(s)] + g[s \ {One(s)}]]

Sums(f, S) == CHOOSE g : AddsUp(f, SUBSET S, g)

LEMMA SumUnfolds ==
  ASSUME NEW f, NEW S
  PROVE  SumFunctionOnSet(f, S) = Sums(f, S)[S]
BY DEF SumFunctionOnSet, FoldFunctionOnSet, MapThenFoldSet, Sums, AddsUp, One

LEMMA MinNat ==
  ASSUME NEW S \in SUBSET Nat, S # {}
  PROVE  \E m \in S : \A x \in S : m <= x
<1>1. PICK m \in S : \A x \in S : ~ (<<x, m>> \in OpToRel(<, Nat))
  BY NatLessThanWellFounded, WFMin
<1>2. \A x \in S : x < m => <<x, m>> \in OpToRel(<, Nat)
  <2>1. ASSUME NEW x \in S, x < m PROVE <<x, m>> \in {ss \in Nat \X Nat : ss[1] < ss[2]}
    BY <2>1
  <2>2. {ss \in Nat \X Nat : ss[1] < ss[2]} = OpToRel(<, Nat)
    BY Zenon DEF OpToRel
  <2>. QED
    BY <2>1, <2>2
<1>3. \A x \in S : ~ (x < m)
  BY <1>1, <1>2
<1>. QED
  BY <1>3

Upto(S, n) == {t \in SUBSET S : Cardinality(t) <= n}

LEMMA OneIn ==
  ASSUME NEW s, s # {}
  PROVE  One(s) \in s
BY DEF One

LEMMA SumsExist ==
  ASSUME NEW f, NEW S, IsFiniteSet(S)
  PROVE  \E g : AddsUp(f, SUBSET S, g)
<1>1. \A t \in SUBSET S : IsFiniteSet(t) /\ Cardinality(t) \in Nat
  BY FS_Subset, FS_CardinalityType
<1>. DEFINE Bad == {n \in Nat : ~ \E g : AddsUp(f, Upto(S, n), g)}
<1>2. Bad = {}
  <2>. SUFFICES ASSUME Bad # {} PROVE FALSE
    OBVIOUS
  <2>1. PICK n \in Bad : \A m \in Bad : n <= m
    <3>. HIDE DEF Bad
    <3>1. Bad \in SUBSET Nat
      BY DEF Bad
    <3>. QED
      BY <3>1, MinNat
  <2>2. CASE n = 0
    <3>. DEFINE g == [s \in Upto(S, 0) |-> 0]
    <3>1. \A s \in Upto(S, 0) : s = {}
      BY <1>1, FS_EmptySet DEF Upto
    <3>2. AddsUp(f, Upto(S, 0), g)
      BY <3>1 DEF AddsUp
    <3>. QED
      BY <2>2, <3>2
  <2>3. CASE n # 0
    <3>1. n - 1 \in Nat /\ n - 1 \notin Bad /\ n \in Nat
      BY <2>1, <2>3
    <3>2. PICK h : AddsUp(f, Upto(S, n - 1), h)
      BY <3>1
    <3>. DEFINE g == [s \in Upto(S, n) |-> IF s = {} THEN 0 ELSE f[One(s)] + h[s \ {One(s)}]]
    <3>3. ASSUME NEW s \in Upto(S, n), s # {}
          PROVE  h[s \ {One(s)}] = g[s \ {One(s)}]
      <4>. DEFINE r == s \ {One(s)}
      <4>1. One(s) \in s /\ s \in SUBSET S
        BY <3>3, OneIn DEF Upto
      <4>2. Cardinality(r) = Cardinality(s) - 1
        BY <4>1, <1>1, FS_RemoveElement
      <4>3. r \in Upto(S, n - 1) /\ r \in Upto(S, n)
        BY <4>1, <4>2, <3>1, <1>1 DEF Upto
      <4>4. h[r] = IF r = {} THEN 0 ELSE f[One(r)] + h[r \ {One(r)}]
        BY <3>2, <4>3, Zenon DEF AddsUp
      <4>. QED
        BY <4>3, <4>4
    <3>4. AddsUp(f, Upto(S, n), g)
      BY <3>3, Zenon DEF AddsUp
    <3>. QED
      BY <3>4, <2>1
  <2>. QED
    BY <2>2, <2>3
<1>3. Upto(S, Cardinality(S)) = SUBSET S
  BY FS_Subset DEF Upto
<1>4. Cardinality(S) \in Nat
  BY FS_CardinalityType
<1>5. \E g : AddsUp(f, Upto(S, Cardinality(S)), g)
  BY <1>2, <1>4
<1>. QED
  BY <1>3, <1>5, Zenon

\* A sum over a subset is found in the sums of the whole.
LEMMA SumsUnfold ==
  ASSUME NEW f, NEW S, IsFiniteSet(S), NEW s \in SUBSET S
  PROVE  Sums(f, S)[s] = IF s = {} THEN 0 ELSE f[One(s)] + Sums(f, S)[s \ {One(s)}]
<1>1. AddsUp(f, SUBSET S, Sums(f, S))
  BY SumsExist, Zenon DEF Sums
<1>. QED
  BY <1>1, Zenon DEF AddsUp

LEMMA SmallestSet ==
  ASSUME NEW S, IsFiniteSet(S), NEW B \in SUBSET SUBSET S, B # {}
  PROVE  \E t \in B : \A u \in B : ~ (u \subseteq t /\ u # t)
<1>1. IsWellFoundedOn(StrictSubsetOrdering(S), SUBSET S)
  BY FS_StrictSubsetOrderingWellFounded, FS_FiniteSubsetsOfFinite
<1>2. PICK t \in B : \A u \in B : ~ (<<u, t>> \in StrictSubsetOrdering(S))
  BY <1>1, WFMin
<1>. QED
  BY <1>2 DEF StrictSubsetOrdering

LEMMA SumsAgree ==
  ASSUME NEW f, NEW S, IsFiniteSet(S), NEW T \in SUBSET S
  PROVE  \A t \in SUBSET T : Sums(f, T)[t] = Sums(f, S)[t]
<1>0. IsFiniteSet(T)
  BY FS_Subset
<1>. DEFINE Bad == {t \in SUBSET T : Sums(f, T)[t] # Sums(f, S)[t]}
<1>1. ASSUME Bad # {} PROVE FALSE
  <2>1. PICK t \in Bad : \A u \in Bad : ~ (u \subseteq t /\ u # t)
    <3>. HIDE DEF Bad
    <3>1. Bad \in SUBSET SUBSET T
      BY DEF Bad
    <3>. QED
      BY <1>0, <1>1, <3>1, SmallestSet
  <2>2. t # {} => t \ {One(t)} \notin Bad
    BY <2>1, OneIn
  <2>3. t # {} => Sums(f, T)[t \ {One(t)}] = Sums(f, S)[t \ {One(t)}]
    BY <2>2
  <2>4. Sums(f, T)[t] = IF t = {} THEN 0 ELSE f[One(t)] + Sums(f, T)[t \ {One(t)}]
    BY <1>0, SumsUnfold
  <2>5. Sums(f, S)[t] = IF t = {} THEN 0 ELSE f[One(t)] + Sums(f, S)[t \ {One(t)}]
    <3>1. t \in SUBSET S
      OBVIOUS
    <3>. QED
      BY <3>1, SumsUnfold
  <2>. QED
    BY <2>3, <2>4, <2>5
<1>. QED
  BY <1>1

LEMMA SumIs ==
  ASSUME NEW f, NEW S, IsFiniteSet(S), NEW T \in SUBSET S
  PROVE  SumFunctionOnSet(f, T) = Sums(f, S)[T]
BY SumUnfolds, SumsAgree

\* A sum is the sum of any of its terms and of the rest.
LEMMA SumRemove ==
  ASSUME NEW S, IsFiniteSet(S), NEW f \in [S -> Nat], NEW T \in SUBSET S
  PROVE  /\ SumFunctionOnSet(f, T) \in Nat
         /\ \A x \in T : SumFunctionOnSet(f, T) = f[x] + SumFunctionOnSet(f, T \ {x})
<1>. DEFINE g == Sums(f, S)
            Adds(t) == g[t] \in Nat /\ \A x \in t : g[t] = f[x] + g[t \ {x}]
            Bad == {t \in SUBSET S : ~Adds(t)}
<1>1. \A t \in SUBSET S : g[t] = IF t = {} THEN 0 ELSE f[One(t)] + g[t \ {One(t)}]
  BY SumsUnfold
<1>. HIDE DEF g
<1>2. ASSUME Bad # {} PROVE FALSE
  <2>1. PICK t \in Bad : \A u \in Bad : ~ (u \subseteq t /\ u # t)
    <3>. HIDE DEF Bad
    <3>1. Bad \in SUBSET SUBSET S
      BY DEF Bad
    <3>. QED
      BY <1>2, <3>1, SmallestSet
  <2>. DEFINE c == One(t)
  <2>2. CASE t = {}
    BY <1>1, <2>1, <2>2
  <2>3. CASE t # {}
    <3>1. c \in t /\ t \in SUBSET S
      BY <2>3, OneIn
    <3>. HIDE DEF c
    <3>2. \A x \in t : Adds(t \ {x})
      BY <2>1, <3>1
    <3>3. g[t] = f[c] + g[t \ {c}] /\ g[t \ {c}] \in Nat /\ f[c] \in Nat
      BY <1>1, <2>3, <3>1, <3>2 DEF c
    <3>4. ASSUME NEW x \in t, x # c PROVE g[t] = f[x] + g[t \ {x}]
      <4>1. x \in t \ {c} /\ c \in t \ {x} /\ f[x] \in Nat
        BY <3>1, <3>4
      <4>2. g[t \ {c}] = f[x] + g[(t \ {c}) \ {x}]
        BY <3>1, <3>2, <4>1
      <4>3. g[t \ {x}] = f[c] + g[(t \ {x}) \ {c}] /\ g[t \ {x}] \in Nat
        BY <3>2, <4>1
      <4>4. g[(t \ {c}) \ {x}] = g[(t \ {x}) \ {c}]
        <5>1. (t \ {c}) \ {x} = (t \ {x}) \ {c}
          OBVIOUS
        <5>. QED
          BY <5>1, Zenon
      <4>5. g[(t \ {x}) \ {c}] \in Nat
        BY <2>1, <3>1
      <4>. HIDE DEF Adds, Bad
      <4>. QED
        BY <3>3, <4>1, <4>2, <4>3, <4>4, <4>5
    <3>5. \A x \in t : g[t] = f[x] + g[t \ {x}]
      BY <3>3, <3>4
    <3>6. g[t] \in Nat
      BY <3>3
    <3>7. Adds(t) /\ ~Adds(t)
      BY <2>1, <3>5, <3>6
    <3>. QED
      BY <3>7, Zenon
  <2>. QED
    BY <2>2, <2>3
<1>3. Adds(T)
  BY <1>2
<1>4. \A t \in SUBSET S : SumFunctionOnSet(f, t) = g[t]
  BY SumIs DEF g
<1>. QED
  BY <1>3, <1>4

\* A sum depends on the terms it adds.
LEMMA SumSame ==
  ASSUME NEW S, IsFiniteSet(S), NEW f, NEW h, NEW T \in SUBSET S,
         \A x \in T : f[x] = h[x]
  PROVE  SumFunctionOnSet(f, T) = SumFunctionOnSet(h, T)
<1>0. IsFiniteSet(T)
  BY FS_Subset
<1>. DEFINE Bad == {t \in SUBSET T : Sums(f, T)[t] # Sums(h, T)[t]}
<1>1. ASSUME Bad # {} PROVE FALSE
  <2>1. PICK t \in Bad : \A u \in Bad : ~ (u \subseteq t /\ u # t)
    <3>. HIDE DEF Bad
    <3>1. Bad \in SUBSET SUBSET T
      BY DEF Bad
    <3>. QED
      BY <1>0, <1>1, <3>1, SmallestSet
  <2>2. t # {} => t \ {One(t)} \notin Bad /\ f[One(t)] = h[One(t)]
    BY <2>1, OneIn
  <2>3. t # {} => Sums(f, T)[t \ {One(t)}] = Sums(h, T)[t \ {One(t)}]
    BY <2>2
  <2>4. /\ Sums(f, T)[t] = IF t = {} THEN 0 ELSE f[One(t)] + Sums(f, T)[t \ {One(t)}]
        /\ Sums(h, T)[t] = IF t = {} THEN 0 ELSE h[One(t)] + Sums(h, T)[t \ {One(t)}]
    BY <1>0, SumsUnfold
  <2>. QED
    BY <2>2, <2>3, <2>4
<1>2. Sums(f, T)[T] = Sums(h, T)[T]
  BY <1>1
<1>. QED
  BY <1>2, SumUnfolds

LEMMA SumMonotone ==
  ASSUME NEW S, IsFiniteSet(S), NEW f \in [S -> Nat], NEW T \in SUBSET S, NEW U \in SUBSET T
  PROVE  SumFunctionOnSet(f, U) <= SumFunctionOnSet(f, T)
<1>. DEFINE sum(t) == SumFunctionOnSet(f, t)
            Bad == {t \in SUBSET S : U \subseteq t /\ ~(sum(U) <= sum(t))}
<1>1. ASSUME Bad # {} PROVE FALSE
  <2>1. PICK t \in Bad : \A u \in Bad : ~ (u \subseteq t /\ u # t)
    <3>. HIDE DEF Bad
    <3>1. Bad \in SUBSET SUBSET S
      BY DEF Bad
    <3>. QED
      BY <1>1, <3>1, SmallestSet
  <2>2. sum(U) \in Nat /\ sum(t) \in Nat
    BY SumRemove
  <2>3. PICK x \in t \ U : TRUE
    BY <2>1, <2>2
  <2>4. sum(t) = f[x] + sum(t \ {x}) /\ f[x] \in Nat /\ sum(t \ {x}) \in Nat
    BY <2>3, SumRemove
  <2>5. sum(U) <= sum(t \ {x})
    BY <2>1, <2>3
  <2>6. ~(sum(U) <= sum(t))
    BY <2>1
  <2>. HIDE DEF sum
  <2>. QED
    BY <2>2, <2>4, <2>5, <2>6
<1>. QED
  BY <1>1
-----------------------------------------------------------------------------
(* The invariant                                                           *)

USE FilesAssumption, LimitAssumption, BoundAssumption
    DEF FilesAssumption, LimitAssumption, BoundAssumption

Sweeping == stage \in {"stat", "age", "size", "swept"}

\* What the size pass counts is all there is: no file stays uncounted for being
\* both aged and impossible to remove.
AllCounted == Stuck = {} \/ MaxAge = 0

\* Each stage is done with the lists of those before it, a file is on the list
\* its age puts it on, and a deletion is of one file, which is on none any more.
Passes ==
    /\ asOf <= now
    /\ ~Sweeping => unseen = {} /\ doomed = {} /\ kept = {}
    /\ stage \in {"age", "size", "swept"} => unseen = {}
    /\ stage \in {"size", "swept"} => doomed = {}
    /\ stage = "size" => MaxTotal > 0
    /\ doomed \intersect kept = {} /\ unseen \intersect (doomed \union kept) = {}
    /\ \A f \in doomed : Expired(seenMtime[f])
    /\ \A f \in kept : ~Expired(seenMtime[f])
    /\ IF call = "choose" THEN victim = {}
                          ELSE stage \in {"age", "size"} /\ \E f \in Files : victim = {f}
    /\ victim \intersect (unseen \union doomed \union kept) = {}

\* A file that is being deleted is one that its pass may delete.
Chosen ==
    \A f \in victim :
        /\ stage = "age" => Expired(seenMtime[f])
        /\ stage = "size" => total > MaxTotal /\ \A g \in kept : seenMtime[f] <= seenMtime[g]

Listed == unseen \union doomed \union kept

\* While nothing else touches the directory the snapshot is true of it, and a
\* file is on some list until the sweep has tried to remove it.
Undisturbed ==
    ~busy /\ Sweeping =>
        /\ Listed \subseteq present
        /\ \A f \in doomed \union kept : seenMtime[f] = mtime[f] /\ seenSize[f] = size[f]
        /\ present \ Stuck \subseteq Listed \union victim
        /\ stage \in {"stat", "age"} /\ AllCounted => present \subseteq Listed \union victim

\* So is what the deletion in progress has learnt of its file.
Attended ==
    ~busy =>
        \A f \in victim :
            /\ IF f \in present THEN seenMtime[f] = mtime[f] /\ seenSize[f] = size[f]
                                ELSE call = "exists" /\ seenSize[f] = 0
            /\ IF call = "remove" THEN freed = size[f] ELSE f \in present => f \in Stuck

\* Then the account is no more than what the directory holds, and exact if
\* nothing stays uncounted.
Balanced ==
    ~busy /\ stage = "size" =>
        total <= OnDisk /\ (AllCounted => total = OnDisk)

IInv == /\ TypeOK /\ Passes /\ Chosen /\ Undisturbed /\ Attended /\ AccountSound /\ Balanced
        /\ AllCounted => BudgetMet
-----------------------------------------------------------------------------
LEMMA Removed ==
  ASSUME NEW f \in [Files -> Nat], NEW T \in SUBSET Files, NEW x \in T
  PROVE  /\ SumFunctionOnSet(f, T) = f[x] + SumFunctionOnSet(f, T \ {x})
         /\ SumFunctionOnSet(f, T) \in Nat /\ SumFunctionOnSet(f, T \ {x}) \in Nat
         /\ f[x] \in Nat
BY SumRemove

\* What a removal leaves is what was there, less one file.
LEMMA UnlinkLeaves ==
  ASSUME TypeOK, NEW f \in Files, Unlink(f)
  PROVE  /\ present' = present \ {f} /\ present' \in SUBSET Files
         /\ mtime' \in [Files -> Nat] /\ size' \in [Files -> Nat]
         /\ \A g \in Files : g # f => mtime'[g] = mtime[g] /\ size'[g] = size[g]
BY DEF Unlink, TypeOK

\* What the directory holds after it.
LEMMA UnlinkFrees ==
  ASSUME TypeOK, NEW f \in present, Unlink(f)
  PROVE  OnDisk \in Nat /\ OnDisk' \in Nat /\ OnDisk' = OnDisk - size[f]
<1>1. f \in Files /\ present \in SUBSET Files /\ size \in [Files -> Nat]
  BY DEF TypeOK
<1>2. OnDisk = size[f] + SumFunctionOnSet(size, present \ {f}) /\ OnDisk \in Nat
      /\ SumFunctionOnSet(size, present \ {f}) \in Nat /\ size[f] \in Nat
  BY <1>1, Removed DEF OnDisk
<1>3. present' = present \ {f} /\ \A g \in present \ {f} : size'[g] = size[g]
  BY <1>1, UnlinkLeaves
<1>4. SumFunctionOnSet(size', present \ {f}) = SumFunctionOnSet(size, present \ {f})
  BY <1>1, <1>3, SumSame
<1>. QED
  BY <1>2, <1>3, <1>4 DEF OnDisk

\* A deletion that is settled takes its file out of the account, or leaves it
\* there among those that are spared.
LEMMA SettleBooks ==
  ASSUME IInv, NEW f \in Files, victim = {f}, NEW gone \in BOOLEAN, Settle(f, gone),
         UNCHANGED <<busy, stage, seenSize, kept>>,
         ~busy /\ ~gone => f \in Stuck
  PROVE  total' \in Nat /\ AccountSound'
<1>1. victim' = {} /\ f \notin kept /\ kept \in SUBSET Files /\ seenSize \in [Files -> Nat]
      /\ total \in Nat
  BY DEF IInv, TypeOK, Passes, Settle
<1>2. CASE stage # "size"
  BY <1>1, <1>2 DEF AccountSound, Settle
<1>3. CASE stage = "size"
  <2>1. PICK spared \in SUBSET (Files \ (kept \union {f})) :
          /\ total = SumFunctionOnSet(seenSize, kept \union {f} \union spared)
          /\ ~busy => spared \subseteq Stuck
    BY <1>3 DEF IInv, AccountSound
  <2>2. CASE gone
    <3>1. (kept \union {f} \union spared) \ {f} = kept \union spared
      BY <1>1
    <3>2. /\ total = seenSize[f] + SumFunctionOnSet(seenSize, kept \union spared)
          /\ SumFunctionOnSet(seenSize, kept \union spared) \in Nat /\ seenSize[f] \in Nat
      <4>1. kept \union {f} \union spared \in SUBSET Files /\ f \in kept \union {f} \union spared
        BY <1>1
      <4>. QED
        BY <1>1, <2>1, <3>1, <4>1, Removed
    <3>3. total' = SumFunctionOnSet(seenSize, kept \union spared)
      <4>1. total' = total - seenSize[f]
        BY <1>3, <2>2 DEF Settle
      <4>. QED
        BY <3>2, <4>1
    <3>4. kept' \union victim' \union spared = kept \union spared
          /\ spared \in SUBSET (Files \ (kept' \union victim'))
      BY <1>1
    <3>. QED
      BY <2>1, <3>2, <3>3, <3>4 DEF AccountSound
  <2>3. CASE ~gone
    <3>1. total' = total
      BY <2>3 DEF Settle
    <3>. DEFINE more == spared \union {f}
    <3>2. kept' \union victim' \union more = kept \union {f} \union spared
          /\ more \in SUBSET (Files \ (kept' \union victim'))
          /\ (~busy => more \subseteq Stuck)
      BY <1>1, <2>1, <2>3
    <3>. QED
      BY <1>1, <2>1, <3>1, <3>2 DEF AccountSound
  <2>. QED
    BY <2>2, <2>3
<1>. QED
  BY <1>2, <1>3

LEMMA InitOK == Init => IInv
<1>1. Init => Nowhere \in [Files -> Nat]
  BY DEF Nowhere
<1>. QED
  BY <1>1 DEF Init, IInv, TypeOK, Passes, Chosen, Undisturbed, Attended, AccountSound, Balanced,
              BudgetMet, Sweeping, Stages, Calls, Listed

LEMMA ListOK ==
  ASSUME IInv, List
  PROVE  IInv'
<1>1. stage = "waiting" /\ stage' = "stat" /\ asOf' = now /\ unseen' = present
      /\ UNCHANGED <<busy, now, present, mtime, size, seenMtime, seenSize, doomed, kept, total,
                     victim, call, freed>>
  BY DEF List, disk, deletion
<1>2. victim = {} /\ call = "choose" /\ doomed = {} /\ kept = {}
  BY <1>1 DEF IInv, Passes, Sweeping
<1>. QED
  BY <1>1, <1>2 DEF IInv, TypeOK, Passes, Chosen, Undisturbed, Attended, AccountSound, Balanced,
                    BudgetMet, Sweeping, Stages, Listed

LEMMA StatOK ==
  ASSUME IInv, NEW f \in Files, Stat(f)
  PROVE  IInv'
<1>1. TypeOK'
  BY DEF IInv, TypeOK, Stat, disk, deletion
<1>2. stage' = "stat" /\ stage = "stat"
      /\ UNCHANGED <<busy, now, present, mtime, size, asOf, total, victim, call, freed>>
  BY DEF Stat, disk, deletion
<1>3. victim = {} /\ call = "choose"
  BY <1>2 DEF IInv, Passes
<1>4. Chosen' /\ Attended'
  BY <1>2, <1>3 DEF Chosen, Attended
<1>5. CASE f \notin present
  BY <1>1, <1>2, <1>3, <1>4, <1>5 DEF IInv, TypeOK, Passes, Undisturbed, AccountSound, Balanced,
                          BudgetMet, Sweeping, Stat, Expired, Listed
<1>6. CASE f \in present
  <2>1. /\ seenMtime'[f] = mtime[f] /\ seenSize'[f] = size[f]
        /\ \A g \in Files : g # f => seenMtime'[g] = seenMtime[g] /\ seenSize'[g] = seenSize[g]
    BY <1>6 DEF IInv, TypeOK, Stat
  <2>2. \/ Expired(mtime[f]) /\ doomed' = doomed \union {f} /\ kept' = kept
        \/ ~Expired(mtime[f]) /\ kept' = kept \union {f} /\ doomed' = doomed
    BY <1>6 DEF Stat
  <2>3. \A t : Expired(t)' <=> Expired(t)
    BY <1>2 DEF Expired
  <2>4. unseen' = unseen \ {f} /\ f \in unseen
    BY DEF Stat
  <2>5. Passes'
    BY <1>2, <1>3, <2>1, <2>2, <2>3, <2>4 DEF IInv, TypeOK, Passes, Sweeping
  <2>6. Undisturbed'
    BY <1>2, <1>6, <2>1, <2>2, <2>4 DEF IInv, TypeOK, Undisturbed, Sweeping, Listed
  <2>. QED
    BY <1>1, <1>2, <1>4, <2>5, <2>6 DEF IInv, AccountSound, Balanced, BudgetMet
<1>. QED
  BY <1>5, <1>6

LEMMA StartAgePassOK ==
  ASSUME IInv, StartAgePass
  PROVE  IInv'
<1>1. stage = "stat" /\ unseen = {} /\ stage' = "age"
      /\ UNCHANGED <<busy, now, present, mtime, size, asOf, unseen, seenMtime, seenSize, doomed,
                     kept, total, victim, call, freed>>
  BY DEF StartAgePass, disk, sweep, deletion
<1>2. victim = {} /\ call = "choose"
  BY <1>1 DEF IInv, Passes
<1>. QED
  BY <1>1, <1>2 DEF IInv, TypeOK, Passes, Chosen, Undisturbed, Attended, AccountSound, Balanced,
              BudgetMet, Sweeping, Stages, Expired, Listed

LEMMA AgeDeleteOK ==
  ASSUME IInv, NEW f \in Files, AgeDelete(f)
  PROVE  IInv'
<1>1. /\ stage = "age" /\ f \in doomed /\ doomed' = doomed \ {f}
      /\ UNCHANGED <<busy, now, present, mtime, size, stage, asOf, unseen, seenMtime, seenSize,
                     kept, total>>
      /\ call = "choose" /\ victim = {} /\ victim' = {f} /\ call' \in {"remove", "exists"}
      /\ IF f \in present THEN call' = "remove" /\ freed' = size[f]
                          ELSE call' = "exists" /\ freed' = 0
  BY DEF AgeDelete, GetSize, disk, snapshot, IInv, Passes
<1>2. TypeOK'
  BY <1>1 DEF IInv, TypeOK, Calls
<1>3. Passes'
  BY <1>1 DEF IInv, TypeOK, Passes, Sweeping, Expired
<1>4. Chosen'
  BY <1>1 DEF IInv, Passes, Chosen, Expired
<1>5. Undisturbed'
  BY <1>1 DEF IInv, TypeOK, Undisturbed, Sweeping, AllCounted, Listed
<1>6. Attended'
  BY <1>1 DEF IInv, Undisturbed, Attended, Sweeping, Listed
<1>. QED
  BY <1>1, <1>2, <1>3, <1>4, <1>5, <1>6 DEF IInv, AccountSound, Balanced, BudgetMet

\* The size pass begins with an exact account.
LEMMA StartSizePassOK ==
  ASSUME IInv, StartSizePass
  PROVE  IInv'
<1>1. /\ stage = "age" /\ doomed = {} /\ stage' = (IF MaxTotal > 0 THEN "size" ELSE "swept")
      /\ total' = SumFunctionOnSet(seenSize, kept)
      /\ UNCHANGED <<busy, now, present, mtime, size, asOf, unseen, seenMtime, seenSize,
                     doomed, kept, victim, call, freed>>
      /\ call = "choose" /\ victim = {}
  BY DEF StartSizePass, disk, snapshot, deletion, IInv, Passes
<1>2. total' \in Nat
  BY <1>1, SumRemove DEF IInv, TypeOK
<1>3. TypeOK' /\ Passes' /\ Undisturbed' /\ Chosen' /\ Attended'
  BY <1>1, <1>2 DEF IInv, TypeOK, Passes, Undisturbed, Chosen, Attended, Sweeping, Stages,
                    Expired, Listed
<1>4. AccountSound'
  <2>1. kept' \union victim' \union {} = kept
    BY <1>1
  <2>. QED
    BY <1>1, <2>1 DEF AccountSound
<1>5. ASSUME ~busy PROVE total' <= OnDisk /\ (AllCounted => total' = OnDisk)
  <2>1. kept \subseteq present /\ \A f \in kept : seenSize[f] = size[f]
    BY <1>1, <1>5 DEF IInv, Undisturbed, Sweeping, Listed
  <2>2. total' = SumFunctionOnSet(size, kept)
    BY <1>1, <2>1, SumSame DEF IInv, TypeOK
  <2>3. SumFunctionOnSet(size, kept) <= OnDisk
    BY <2>1, SumMonotone DEF IInv, TypeOK, OnDisk
  <2>4. AllCounted => kept = present
    BY <1>1, <1>5, <2>1 DEF IInv, Passes, Undisturbed, Sweeping, Listed
  <2>. QED
    BY <2>2, <2>3, <2>4 DEF OnDisk
<1>6. Balanced'
  BY <1>1, <1>5 DEF Balanced, OnDisk, AllCounted
<1>. QED
  BY <1>1, <1>3, <1>4, <1>6 DEF IInv, BudgetMet, AllCounted

LEMMA SizeDeleteOK ==
  ASSUME IInv, NEW f \in Files, SizeDelete(f)
  PROVE  IInv'
<1>1. /\ stage = "size" /\ f \in kept /\ kept' = kept \ {f} /\ total > MaxTotal
      /\ \A g \in kept : seenMtime[f] <= seenMtime[g]
      /\ UNCHANGED <<busy, now, present, mtime, size, stage, asOf, unseen, seenMtime, seenSize,
                     doomed, total>>
      /\ call = "choose" /\ victim = {} /\ victim' = {f} /\ call' \in {"remove", "exists"}
      /\ IF f \in present THEN call' = "remove" /\ freed' = size[f]
                          ELSE call' = "exists" /\ freed' = 0
  BY DEF SizeDelete, GetSize, disk, snapshot, IInv, Passes
<1>2. TypeOK'
  BY <1>1 DEF IInv, TypeOK, Calls
<1>3. Passes'
  BY <1>1 DEF IInv, TypeOK, Passes, Sweeping, Expired
<1>4. Chosen'
  BY <1>1 DEF Chosen
<1>5. Undisturbed'
  BY <1>1 DEF IInv, TypeOK, Undisturbed, Sweeping, Listed
<1>6. Attended'
  BY <1>1 DEF IInv, Undisturbed, Attended, Sweeping, Listed
<1>7. AccountSound'
  <2>1. kept' \union victim' = kept \union victim
    BY <1>1
  <2>. QED
    BY <1>1, <2>1 DEF IInv, AccountSound
<1>. QED
  BY <1>1, <1>2, <1>3, <1>4, <1>5, <1>6, <1>7 DEF IInv, Balanced, OnDisk, BudgetMet, AllCounted

\* A file is removed: bytes freed settle its deletion.
LEMMA UnlinkOK ==
  ASSUME IInv, NEW f \in Files, f \in present, Remove(f), Unlink(f),
         IF freed > 0 THEN Settle(f, TRUE)
                      ELSE call' = "exists" /\ UNCHANGED <<victim, freed, total>>
  PROVE  IInv'
<1>1. /\ call = "remove" /\ victim = {f} /\ stage \in {"age", "size"}
      /\ UNCHANGED <<busy, now, stage, asOf, unseen, seenMtime, seenSize, doomed, kept>>
  BY DEF Remove, snapshot, IInv, Passes
<1>2. /\ present' = present \ {f} /\ present' \in SUBSET Files
      /\ mtime' \in [Files -> Nat] /\ size' \in [Files -> Nat]
      /\ \A g \in Files : g # f => mtime'[g] = mtime[g] /\ size'[g] = size[g]
  BY UnlinkLeaves DEF IInv
<1>3. \/ freed > 0 /\ victim' = {} /\ call' = "choose" /\ freed' = 0
      \/ freed = 0 /\ victim' = {f} /\ call' = "exists" /\ freed' = 0 /\ total' = total
  BY <1>1 DEF Settle, IInv, TypeOK
<1>4. total' \in Nat /\ AccountSound'
  <2>1. CASE freed > 0
    BY <1>1, <2>1, SettleBooks
  <2>2. CASE ~(freed > 0)
    BY <1>1, <2>2 DEF IInv, TypeOK, AccountSound
  <2>. QED
    BY <2>1, <2>2
<1>5. TypeOK'
  BY <1>1, <1>2, <1>3, <1>4 DEF IInv, TypeOK, Calls
<1>6. Passes'
  BY <1>1, <1>3 DEF IInv, TypeOK, Passes, Sweeping, Expired
<1>7. Chosen'
  BY <1>1, <1>3 DEF IInv, Chosen, Expired
<1>8. Undisturbed'
  BY <1>1, <1>2, <1>3 DEF IInv, TypeOK, Passes, Undisturbed, Sweeping, AllCounted, Listed
<1>9. ~busy => seenSize[f] = size[f] /\ freed = size[f]
  BY <1>1 DEF IInv, Attended
<1>10. Attended'
  BY <1>1, <1>2, <1>3, <1>9 DEF Attended
<1>11. Balanced'
  <2>. SUFFICES ASSUME ~busy, stage = "size"
                PROVE  total' <= OnDisk' /\ (AllCounted => total' = OnDisk')
    BY <1>1 DEF Balanced, AllCounted
  <2>1. OnDisk \in Nat /\ OnDisk' \in Nat /\ OnDisk' = OnDisk - size[f]
    BY UnlinkFrees DEF IInv
  <2>2. total <= OnDisk /\ (AllCounted => total = OnDisk) /\ total \in Nat
    BY DEF IInv, TypeOK, Balanced
  <2>3. total' = total - size[f]
    <3>1. CASE freed > 0
      BY <1>9, <3>1 DEF Settle
    <3>2. CASE ~(freed > 0)
      BY <1>3, <1>9, <2>2, <3>2
    <3>. QED
      BY <3>1, <3>2
  <2>4. size[f] \in Nat
    BY DEF IInv, TypeOK
  <2>. QED
    BY <2>1, <2>2, <2>3, <2>4
<1>. QED
  BY <1>1, <1>4, <1>5, <1>6, <1>7, <1>8, <1>10, <1>11 DEF IInv, BudgetMet

\* Or it is not: it may not be possible, or an extraction was first.
LEMMA RefusedOK ==
  ASSUME IInv, NEW f \in Files, Remove(f), f \notin present \/ f \in Stuck,
         call' = "exists", freed' = 0, UNCHANGED <<disk, victim, total>>
  PROVE  IInv'
<1>1. /\ call = "remove" /\ victim = {f} /\ stage \in {"age", "size"}
      /\ UNCHANGED <<busy, now, present, mtime, size, stage, asOf, unseen, seenMtime, seenSize,
                     doomed, kept, total, victim>>
  BY DEF Remove, snapshot, disk, IInv, Passes
<1>2. TypeOK' /\ Passes' /\ Chosen'
  BY <1>1 DEF IInv, TypeOK, Passes, Chosen, Sweeping, Expired, Calls
<1>3. Undisturbed'
  BY <1>1 DEF IInv, Undisturbed, Sweeping, AllCounted, Listed
<1>4. Attended'
  BY <1>1 DEF IInv, Attended
<1>. QED
  BY <1>1, <1>2, <1>3, <1>4 DEF IInv, AccountSound, Balanced, OnDisk, BudgetMet, AllCounted

LEMMA RemoveOK ==
  ASSUME IInv, NEW f \in Files, Remove(f)
  PROVE  IInv'
<1>1. \/ f \in present /\ Unlink(f)
         /\ IF freed > 0 THEN Settle(f, TRUE)
                         ELSE call' = "exists" /\ UNCHANGED <<victim, freed, total>>
      \/ (f \notin present \/ f \in Stuck) /\ call' = "exists" /\ freed' = 0
         /\ UNCHANGED <<disk, victim, total>>
  BY DEF Remove
<1>. QED
  BY <1>1, UnlinkOK, RefusedOK

LEMMA ExistsOK ==
  ASSUME IInv, NEW f \in Files, Exists(f)
  PROVE  IInv'
<1>1. /\ call = "exists" /\ victim = {f} /\ stage \in {"age", "size"}
      /\ victim' = {} /\ call' = "choose" /\ freed' = 0
      /\ UNCHANGED <<busy, now, present, mtime, size, stage, asOf, unseen, seenMtime, seenSize,
                     doomed, kept>>
  BY DEF Exists, Settle, snapshot, disk, IInv, Passes
<1>2. ~busy => IF f \in present THEN f \in Stuck ELSE seenSize[f] = 0
  BY <1>1 DEF IInv, Attended
<1>3. total' \in Nat /\ AccountSound'
  <2>1. (f \notin present) \in BOOLEAN /\ Settle(f, f \notin present)
    BY DEF Exists
  <2>. QED
    BY <1>1, <1>2, <2>1, SettleBooks
<1>4. TypeOK' /\ Passes' /\ Chosen' /\ Attended'
  BY <1>1, <1>3 DEF IInv, TypeOK, Passes, Chosen, Attended, Sweeping, Expired, Calls
<1>5. Undisturbed'
  <2>1. ~busy /\ stage = "age" /\ AllCounted => f \notin present
    BY <1>1, <1>2 DEF IInv, Chosen, AllCounted, Expired
  <2>. QED
    BY <1>1, <1>2, <2>1 DEF IInv, Undisturbed, Sweeping, AllCounted, Listed
<1>6. Balanced'
  <2>1. ~busy /\ stage = "size" => total' = total
    BY <1>2 DEF Exists, Settle, IInv, TypeOK
  <2>. QED
    BY <1>1, <2>1 DEF IInv, Balanced, OnDisk, AllCounted
<1>. QED
  BY <1>1, <1>3, <1>4, <1>5, <1>6 DEF IInv, BudgetMet

LEMMA EndSizePassOK ==
  ASSUME IInv, EndSizePass
  PROVE  IInv'
<1>1. /\ stage = "size" /\ stage' = "swept"
      /\ total <= MaxTotal \/ kept = {}
      /\ UNCHANGED <<busy, now, present, mtime, size, asOf, unseen, seenMtime, seenSize,
                     doomed, kept, total, victim, call, freed>>
      /\ call = "choose" /\ victim = {}
  BY DEF EndSizePass, disk, sweep, deletion, IInv, Passes
<1>2. TypeOK' /\ Passes' /\ Chosen' /\ Undisturbed' /\ Attended' /\ AccountSound' /\ Balanced'
  BY <1>1 DEF IInv, TypeOK, Passes, Chosen, Undisturbed, Attended, AccountSound, Balanced,
              Sweeping, Stages, Expired, Listed
<1>3. ASSUME ~busy, AllCounted PROVE OnDisk <= MaxTotal \/ present \subseteq Stuck
  <2>1. CASE total <= MaxTotal
    BY <1>1, <1>3, <2>1 DEF IInv, Balanced
  <2>2. CASE kept = {}
    BY <1>1, <1>3, <2>2 DEF IInv, Passes, Undisturbed, Sweeping, Listed
  <2>. QED
    BY <1>1, <2>1, <2>2
<1>. QED
  BY <1>1, <1>2, <1>3 DEF IInv, BudgetMet, OnDisk, AllCounted

LEMMA LoopOK ==
  ASSUME IInv, Await \/ Stop \/ Start
  PROVE  IInv'
<1>1. Nowhere \in [Files -> Nat]
  BY DEF Nowhere
<1>2. Await \/ Stop => IInv'
  BY <1>1 DEF IInv, TypeOK, Passes, Chosen, Undisturbed, Attended, AccountSound, Balanced,
              BudgetMet, Sweeping, Stages, Calls, Await, Stop, Forget, disk
<1>3. Start => IInv'
  BY DEF IInv, TypeOK, Passes, Chosen, Undisturbed, Attended, AccountSound, Balanced,
              BudgetMet, Sweeping, Stages, Start, disk, sweep, deletion
<1>. QED
  BY <1>2, <1>3

LEMMA TickOK ==
  ASSUME IInv, Tick
  PROVE  IInv'
<1>1. now' = now + 1
      /\ UNCHANGED <<busy, present, mtime, size, stage, asOf, unseen, seenMtime, seenSize,
                     doomed, kept, total, victim, call, freed>>
  BY DEF Tick, disk, sweep, deletion
<1>2. TypeOK' /\ Passes' /\ Chosen' /\ Undisturbed' /\ Attended'
  BY <1>1 DEF IInv, TypeOK, Passes, Chosen, Undisturbed, Attended, Sweeping, Expired,
              AllCounted, Listed
<1>. QED
  BY <1>1, <1>2 DEF IInv, AccountSound, Balanced, BudgetMet, OnDisk, AllCounted

\* An extraction disturbs the directory, and nothing that is said of a busy one.
LEMMA ExtractionOK ==
  ASSUME IInv, NEW f \in Files, Write(f) \/ RemoveMiss(f)
  PROVE  IInv'
<1>1. busy \/ ~Sweeping
  BY DEF Write, RemoveMiss, ExtractionRuns, Sweeping
<1>2. UNCHANGED <<busy, now, stage, asOf, unseen, seenMtime, seenSize, doomed, kept, total,
                  victim, call, freed>>
  BY DEF Write, RemoveMiss, sweep, deletion
<1>3. TypeOK'
  <2>1. mtime' \in [Files -> Nat] /\ size' \in [Files -> Nat] /\ present' \in SUBSET Files
    BY DEF IInv, TypeOK, Write, RemoveMiss, Unlink
  <2>. QED
    BY <1>2, <2>1 DEF IInv, TypeOK
<1>4. Attended'
  BY <1>1, <1>2 DEF IInv, Passes, Attended, Sweeping
<1>. QED
  BY <1>1, <1>2, <1>3, <1>4 DEF IInv, Passes, Chosen, Undisturbed, AccountSound, Balanced,
                                BudgetMet, Sweeping, Expired

LEMMA StepOK ==
  ASSUME IInv, [Next]_vars
  PROVE  IInv'
<1>1. CASE UNCHANGED vars
  <2>1. UNCHANGED <<busy, now, present, mtime, size, stage, asOf, unseen, seenMtime, seenSize,
                    doomed, kept, total, victim, call, freed>>
    BY <1>1 DEF vars, disk, sweep, deletion
  <2>2. TypeOK' /\ Passes' /\ Chosen' /\ Undisturbed' /\ Attended'
    BY <2>1 DEF IInv, TypeOK, Passes, Chosen, Undisturbed, Attended, Sweeping, Expired,
                AllCounted, Listed
  <2>. QED
    BY <2>1, <2>2 DEF IInv, AccountSound, Balanced, BudgetMet, OnDisk, AllCounted
<1>. QED
  BY <1>1, ListOK, StatOK, StartAgePassOK, AgeDeleteOK, StartSizePassOK, SizeDeleteOK, RemoveOK,
     ExistsOK, EndSizePassOK, LoopOK, TickOK, ExtractionOK DEF Next, SweepStep

LEMMA Invariance == Safe => []IInv
BY InitOK, StepOK, PTL DEF Safe
-----------------------------------------------------------------------------
(* What follows                                                            *)

\* Every variable keeps to its type; that the size pass never subtracts more
\* than it has counted is part of it.
THEOREM TypeCorrect == Spec => []TypeOK
<1>1. IInv => TypeOK
  BY DEF IInv
<1>. QED
  BY <1>1, Invariance, PTL DEF Spec

\* What the size pass believes to be left is what it still has on its list and
\* files it found there still after trying to delete them, each counted once by
\* its listed size; without extractions these are files that may be impossible
\* to remove. For any files, sizes and interference.
THEOREM AccountKept == Spec => []AccountSound
<1>1. IInv => AccountSound
  BY DEF IInv
<1>. QED
  BY <1>1, Invariance, PTL DEF Spec

\* After a sweep that had the directory to itself no removable file is left that
\* was aged when it began, however many files there are.
THEOREM AgedFilesGone == Spec => []AgedPurged
<1>1. IInv => AgedPurged
  BY DEF IInv, TypeOK, Passes, Undisturbed, Sweeping, AgedPurged, Expired, Listed
<1>. QED
  BY <1>1, Invariance, PTL DEF Spec

\* After such a sweep the directory keeps to its budget or holds nothing that can
\* be removed, if every file can be removed or none is ever too old.
THEOREM BudgetKept ==
  ASSUME AllCounted
  PROVE  Spec => []BudgetMet
<1>1. IInv => BudgetMet
  BY DEF IInv
<1>. QED
  BY <1>1, Invariance, PTL DEF Spec

\* When the sweep has the directory to itself, it removes a file only if that
\* file is aged, or if the budget is exceeded at that moment and no other file
\* that could go instead is older.
THEOREM PolicyKept == Spec => PolicyRespected
<1>. DEFINE Policy == \A f \in Files :
              ~busy /\ Swept(f) => \/ Aged(f)
                          \/ /\ MaxTotal > 0 /\ OnDisk > MaxTotal
                             /\ \A g \in present \ Stuck :
                                   Aged(g) \/ mtime[f] <= mtime[g]
<1>1. ASSUME IInv, [Next]_vars PROVE Policy
  <2>. SUFFICES ASSUME NEW f \in Files, ~busy, Swept(f)
                PROVE  \/ Aged(f)
                       \/ /\ MaxTotal > 0 /\ OnDisk > MaxTotal
                          /\ \A g \in present \ Stuck : Aged(g) \/ mtime[f] <= mtime[g]
    OBVIOUS
  <2>1. f \in present /\ f \in victim /\ call = "remove" /\ call' # "remove"
        /\ stage \in {"age", "size"} /\ f \in Files
    BY <1>1 DEF Swept, IInv, Passes
  <2>2. seenMtime[f] = mtime[f]
    BY <1>1, <2>1 DEF IInv, Attended
  <2>3. CASE stage = "age"
    BY <1>1, <2>1, <2>2, <2>3 DEF IInv, TypeOK, Passes, Chosen, Expired, Aged
  <2>4. CASE stage = "size"
    <3>1. MaxTotal > 0 /\ unseen = {} /\ doomed = {} /\ victim = {f}
      BY <1>1, <2>1, <2>4 DEF IInv, Passes
    <3>2. total > MaxTotal /\ \A g \in kept : seenMtime[f] <= seenMtime[g]
      BY <1>1, <2>1, <2>4 DEF IInv, Chosen
    <3>3. OnDisk \in Nat
      BY <1>1, SumRemove DEF IInv, TypeOK, OnDisk
    <3>4. OnDisk > MaxTotal
      BY <1>1, <2>4, <3>2, <3>3 DEF IInv, TypeOK, Balanced
    <3>5. \A g \in present \ Stuck : mtime[f] <= mtime[g]
      <4>1. \A g \in kept : seenMtime[g] = mtime[g]
        BY <1>1, <2>4 DEF IInv, Undisturbed, Sweeping
      <4>2. present \ Stuck \subseteq kept \union {f}
        BY <1>1, <2>4, <3>1 DEF IInv, Undisturbed, Sweeping, Listed
      <4>3. mtime[f] \in Nat
        BY <1>1 DEF IInv, TypeOK
      <4>. QED
        BY <2>2, <3>2, <4>1, <4>2, <4>3
    <3>. QED
      BY <3>1, <3>4, <3>5
  <2>. QED
    BY <2>1, <2>3, <2>4
<1>2. IInv /\ [Next]_vars => [Policy]_vars
  BY <1>1
<1>. QED
  BY <1>2, Invariance, PTL DEF Spec, Safe, PolicyRespected
\* The age pass removes only what is aged, or was rewritten since it was measured,
\* whatever extractions do: a file is condemned by its age when the sweep began.
THEOREM AgePassKept == Spec => AgedOnly
<1>. DEFINE Only == \A f \in Files :
              stage = "age" /\ Swept(f) => Aged(f) \/ mtime[f] > seenMtime[f]
<1>1. ASSUME IInv, [Next]_vars PROVE Only
  <2>. SUFFICES ASSUME NEW f \in Files, stage = "age", Swept(f), mtime[f] <= seenMtime[f]
                PROVE  Aged(f)
    BY <1>1 DEF IInv, TypeOK
  <2>1. f \in victim /\ Expired(seenMtime[f])
    BY <1>1 DEF Swept, IInv, Chosen
  <2>. QED
    BY <1>1, <2>1 DEF IInv, TypeOK, Passes, Expired, Aged
<1>2. IInv /\ [Next]_vars => [Only]_vars
  BY <1>1
<1>. QED
  BY <1>2, Invariance, PTL DEF Spec, Safe, AgedOnly
=============================================================================
