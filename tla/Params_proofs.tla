---------------------------- MODULE Params_proofs ----------------------------
(***************************************************************************)
(* Proofs about the parameters of an extraction, for any clamp, any time   *)
(* and whatever may be configured or asked for.                            *)
(***************************************************************************)
EXTENDS LegacyParams, TLAPS

USE ClampAssumption, NumbersAssumption, GivenAssumption
    DEF ClampAssumption, NumbersAssumption, GivenAssumption

\* All that is resolved is resolved from what was loaded.
IInv ==
    /\ env \in Environments
    /\ settings = Nothing \/ settings = Load(env)
    /\ Resolved => query \in Queries /\ params = ResolveParams(query, Load(env))

\* The settings keep configured windows, and lift an unknown filter to "full".
LEMMA LoadTyped ==
  ASSUME NEW e \in Environments
  PROVE  /\ Load(e).filter = KnownFilter(e.filter)
         /\ Load(e).before = e.before /\ Load(e).after = e.after
         /\ Load(e).filter \in Modes
         /\ e.before \in Defaults /\ e.after \in Defaults
  BY DEF Environments, Load, KnownFilter, Modes

\* The last of the values given for a key is one of them.
LEMMA LastGiven ==
  ASSUME NEW S, NEW values \in BoundedSeq(S, MaxGiven), values # <<>>
  PROVE  /\ Len(values) \in DOMAIN values /\ Last(values) = values[Len(values)]
         /\ Last(values) \in S
<1>1. PICK n \in 0 .. MaxGiven : values \in [1 .. n -> S]
  BY DEF BoundedSeq, SeqOf
<1>2. n # 0
  BY <1>1
<1>3. values \in Seq(S) /\ Len(values) = n /\ DOMAIN values = 1 .. n
  BY <1>1
<1>. QED
  BY <1>1, <1>2, <1>3 DEF Last

LEMMA GivenDomain ==
  ASSUME NEW S, NEW values \in BoundedSeq(S, MaxGiven)
  PROVE  /\ \A i \in DOMAIN values : values[i] \in S
         /\ DOMAIN values \subseteq Nat
         /\ values = <<>> <=> DOMAIN values = {}
<1>1. PICK n \in 0 .. MaxGiven : values \in [1 .. n -> S]
  BY DEF BoundedSeq, SeqOf
<1>2. values \in Seq(S) /\ Len(values) = n /\ DOMAIN values = 1 .. n
  BY <1>1
<1>. QED
  BY <1>1, <1>2

LEMMA NumberIsInt ==
  ASSUME NEW raw \in RawInts, raw.kind = "number"
  PROVE  raw.value \in Int
<1>1. raw # Blank /\ raw # Text
  BY DEF Blank, Text
<1>2. raw \in [kind : {"number"}, value : Numbers]
  BY <1>1 DEF RawInts
<1>. QED
  BY <1>2

LEMMA Invariance == Spec => []IInv
<1>1. Init => IInv
  BY DEF Init, IInv, Resolved
<1>2. ASSUME IInv, [Next]_vars PROVE IInv'
  <2>1. CASE GetSettings
    BY <1>2, <2>1 DEF IInv, GetSettings, Resolved
  <2>2. CASE Resolve
    <3>1. settings = Load(env)
      BY <1>2, <2>2 DEF IInv, Resolve
    <3>. QED
      BY <1>2, <2>2, <3>1 DEF IInv, Resolve, Resolved
  <2>3. CASE UNCHANGED vars
    BY <1>2, <2>3 DEF IInv, vars, Resolved
  <2>. QED
    BY <1>2, <2>1, <2>2, <2>3 DEF Next
<1>. QED
  BY <1>1, <1>2, PTL DEF Spec
-----------------------------------------------------------------------------
\* Every request is given a known mode: its own, or the configured one.
THEOREM ModeCorrect == Spec => []ModeKnown
<1>1. IInv => ModeKnown
  <2>. SUFFICES ASSUME IInv, Resolved PROVE ModeKnown
    BY DEF ModeKnown
  <2>. DEFINE vs == query.filter
              asked == Range(vs)
              default == KnownFilter(env.filter)
  <2>1. vs \in BoundedSeq(RawModes, MaxGiven) /\ default \in Modes
    BY DEF IInv, Queries, KnownFilter, Modes
  <2>2. params.mode = LET m == LastOr(vs, default) IN IF m \in Modes THEN m ELSE default
    <3>1. params.mode = ResolveMode(query, Load(env))
      BY DEF IInv, ResolveParams
    <3>2. Load(env).filter = default /\ KnownFilter(default) = default
      BY <2>1, LoadTyped DEF IInv, KnownFilter
    <3>. QED
      BY <3>1, <3>2 DEF ResolveMode
  <2>3. CASE vs = <<>>
    <3>1. asked = {} /\ LastOr(vs, default) = default
      BY <2>1, <2>3, GivenDomain DEF Range, LastOr
    <3>. QED
      BY <2>1, <2>2, <3>1 DEF ModeKnown
  <2>4. CASE vs # <<>>
    <3>1. Last(vs) \in asked
      BY <2>1, <2>4, LastGiven DEF Range
    <3>2. "" \notin Modes
      BY DEF Modes
    <3>3. params.mode = IF Last(vs) \in Modes THEN Last(vs) ELSE default
      BY <2>1, <2>2, <2>4, <3>2 DEF LastOr
    <3>. QED
      BY <2>1, <3>1, <3>3 DEF ModeKnown
  <2>. QED
    BY <2>3, <2>4
<1>. QED
  BY <1>1, Invariance, PTL

\* With configured windows in range, the window of every request holds its alert
\* and is within the clamp.
THEOREM WindowCorrect ==
  ASSUME Defaults \subseteq 0 .. ClampMax
  PROVE  Spec => []WindowSane
<1>1. ASSUME NEW values \in BoundedSeq(RawInts, MaxGiven), NEW default \in Defaults
      PROVE  ResolveInt(values, default) \in 0 .. ClampMax
  <2>1. CASE values # <<>> /\ Last(values).kind = "number"
    <3>1. Last(values).value \in Int
      BY <2>1, LastGiven, NumberIsInt
    <3>. QED
      BY <2>1, <3>1 DEF ResolveInt, Clamp
  <2>2. CASE ~(values # <<>> /\ Last(values).kind = "number")
    BY <2>2 DEF ResolveInt
  <2>. QED
    BY <2>1, <2>2
<1>2. IInv => WindowSane
  <2>. SUFFICES ASSUME IInv, Resolved PROVE WindowSane
    BY DEF WindowSane
  <2>1. /\ query.before \in BoundedSeq(RawInts, MaxGiven) /\ Load(env).before \in Defaults
        /\ query.after \in BoundedSeq(RawInts, MaxGiven) /\ Load(env).after \in Defaults
    BY LoadTyped DEF IInv, Queries
  <2>2. /\ params.before = ResolveInt(query.before, Load(env).before)
        /\ params.after = ResolveInt(query.after, Load(env).after)
    BY DEF IInv, ResolveParams
  <2>3. params.before \in 0 .. ClampMax /\ params.after \in 0 .. ClampMax
    BY <1>1, <2>1, <2>2
  <2>. QED
    BY <2>3 DEF WindowSane, ComputeWindow
<1>. QED
  BY <1>2, Invariance, PTL

\* What v1 takes for a key is what v2 takes, if all values given for it agree.
LEMMA FirstIsLast ==
  ASSUME NEW S, NEW values \in BoundedSeq(S, MaxGiven), NEW blank, NEW default,
         \A i, j \in DOMAIN values : values[i] = values[j]
  PROVE  FirstGiven(values, blank, default) =
           IF values = <<>> \/ Last(values) = blank THEN default ELSE Last(values)
<1>. DEFINE given == {i \in DOMAIN values : values[i] # blank}
<1>1. CASE given = {}
  BY <1>1, GivenDomain, LastGiven DEF FirstGiven
<1>2. CASE given # {}
  <2>1. values # <<>> /\ Last(values) # blank
    BY <1>2, GivenDomain, LastGiven
  <2>2. \A i \in given : values[i] = Last(values)
    BY <2>1, LastGiven
  <2>3. \E i \in given : \A j \in given : i <= j
    <3>0. \A i \in DOMAIN values : values[i] = Last(values)
      BY <2>1, LastGiven
    <3>1. DOMAIN values \subseteq Nat /\ given = DOMAIN values
      BY <2>1, <3>0, GivenDomain
    <3>2. PICK n \in 0 .. MaxGiven : values \in [1 .. n -> S]
      BY DEF BoundedSeq, SeqOf
    <3>. QED
      BY <1>2, <3>1, <3>2
  <2>4. FirstGiven(values, blank, default)
          = values[CHOOSE i \in given : \A j \in given : i <= j]
    BY <1>2 DEF FirstGiven
  <2>5. (CHOOSE i \in given : \A j \in given : i <= j) \in given
    BY <2>3
  <2>. QED
    BY <2>1, <2>2, <2>4, <2>5
<1>. QED
  BY <1>1, <1>2

\* With configured windows in range, v2 extracts by the mode and the window of v1
\* whenever the query does not contradict itself.
THEOREM KeepsV1 ==
  ASSUME Defaults \subseteq 0 .. ClampMax
  PROVE  Spec => []ParamsAsV1
<1>1. ASSUME NEW values \in BoundedSeq(RawInts, MaxGiven), NEW default \in Defaults,
             \A i, j \in DOMAIN values : values[i] = values[j]
      PROVE  ResolveInt(values, default) = Window(values, default)
  <2>. DEFINE raw == FirstGiven(values, Blank, Blank)
  <2>1. raw = IF values = <<>> \/ Last(values) = Blank THEN Blank ELSE Last(values)
    BY <1>1, FirstIsLast
  <2>2. Blank.kind # "number"
    BY DEF Blank
  <2>3. CASE values # <<>> /\ Last(values).kind = "number"
    <3>1. Last(values).value \in Int /\ raw = Last(values)
      BY <2>1, <2>3, LastGiven, NumberIsInt
    <3>. HIDE DEF raw
    <3>2. Window(values, default) = LET n == Last(values).value
                                    IN  IF n < 0 THEN 0 ELSE IF n > ClampMax THEN ClampMax ELSE n
      BY <2>3, <3>1 DEF Window, raw
    <3>. QED
      BY <2>3, <3>1, <3>2 DEF ResolveInt, Clamp
  <2>4. CASE ~(values # <<>> /\ Last(values).kind = "number")
    <3>1. raw.kind # "number"
      BY <2>1, <2>2, <2>4
    <3>. HIDE DEF raw
    <3>2. Window(values, default) = default
      BY <3>1 DEF Window, raw
    <3>. QED
      BY <2>4, <3>2 DEF ResolveInt
  <2>. QED
    BY <2>3, <2>4
<1>2. IInv => ParamsAsV1
  <2>. SUFFICES ASSUME IInv, Resolved, Unambiguous(query)
                PROVE  params = ParseUrlParams(query, env)
    BY DEF ParamsAsV1
  <2>1. /\ query.filter \in BoundedSeq(RawModes, MaxGiven)
        /\ query.before \in BoundedSeq(RawInts, MaxGiven)
        /\ query.after \in BoundedSeq(RawInts, MaxGiven)
        /\ env \in Environments
    BY DEF IInv, Queries
  <2>2. /\ \A i, j \in DOMAIN query.filter : query.filter[i] = query.filter[j]
        /\ \A i, j \in DOMAIN query.before : query.before[i] = query.before[j]
        /\ \A i, j \in DOMAIN query.after : query.after[i] = query.after[j]
    BY DEF Unambiguous
  <2>3. ResolveMode(query, Load(env)) = ModeUsed(FilterMode(query, env))
    <3>. DEFINE last == Last(query.filter)
    <3>1. FirstGiven(query.filter, "", env.filter) = LastOr(query.filter, env.filter)
      <4>. DEFINE vs == query.filter
      <4>1. vs \in BoundedSeq(RawModes, MaxGiven) /\ \A i, j \in DOMAIN vs : vs[i] = vs[j]
        BY <2>1, <2>2
      <4>. HIDE DEF vs
      <4>2. FirstGiven(vs, "", env.filter) = LastOr(vs, env.filter)
        BY <4>1, FirstIsLast, Zenon DEF LastOr
      <4>. QED
        BY <4>2 DEF vs
    <3>2. Load(env).filter = KnownFilter(env.filter)
      BY <2>1, LoadTyped
    <3>3. "" \notin Modes /\ "full" \in Modes
      BY DEF Modes
    <3>. QED
      BY <3>1, <3>2, <3>3 DEF ResolveMode, LastOr, KnownFilter, ModeUsed, FilterMode
  <2>4. /\ ResolveInt(query.before, Load(env).before) = Window(query.before, env.before)
        /\ ResolveInt(query.after, Load(env).after) = Window(query.after, env.after)
    <3>1. /\ Load(env).before = env.before /\ env.before \in Defaults
          /\ Load(env).after = env.after /\ env.after \in Defaults
      BY <2>1, LoadTyped
    <3>2. ResolveInt(query.before, env.before) = Window(query.before, env.before)
      BY <1>1, <2>1, <2>2, <3>1, Zenon
    <3>3. ResolveInt(query.after, env.after) = Window(query.after, env.after)
      BY <1>1, <2>1, <2>2, <3>1, Zenon
    <3>. QED
      BY <3>1, <3>2, <3>3
  <2>. QED
    BY <2>3, <2>4 DEF IInv, ResolveParams, ParseUrlParams
<1>. QED
  BY <1>2, Invariance, PTL
=============================================================================
