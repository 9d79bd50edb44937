---------------------------- MODULE Alert_proofs ----------------------------
(***************************************************************************)
(* Proofs about the reading of an alert: for any number of aliases, any    *)
(* numerals and time strings, hosts and ports, and ids of any length; and  *)
(* that v1 read it the same way, but for what the two read apart.          *)
(***************************************************************************)
EXTENDS LegacyAlert, FiniteSetTheorems, WellFoundedInduction, TLAPS
LEMMA MinIn ==
  ASSUME NEW S \in SUBSET Nat, S # {}
  PROVE  Min(S) \in S /\ \A x \in S : Min(S) <= x
<1>1. PICK m \in S : \A x \in S : ~ (<<x, m>> \in OpToRel(<, Nat))
  BY NatLessThanWellFounded, WFMin
<1>2. \A x \in S : x < m => <<x, m>> \in OpToRel(<, Nat)
  <2>1. ASSUME NEW x \in S, x < m PROVE <<x, m>> \in {ss \in Nat \X Nat : ss[1] < ss[2]}
    BY <2>1
  <2>2. {ss \in Nat \X Nat : ss[1] < ss[2]} = OpToRel(<, Nat)
    BY Zenon DEF OpToRel
  <2>. QED
    BY <2>1, <2>2
<1>3. \A x \in S : ~ (x < m)
  BY <1>1, <1>2
<1>4. \A x \in S : m <= x
  BY <1>3
<1>. QED
  BY <1>4 DEF Min

\* The least of a set of naturals is the one found by inspection.
LEMMA MinIs ==
  ASSUME NEW S \in SUBSET Nat, NEW m \in S, \A x \in S : m <= x
  PROVE  Min(S) = m
<1>1. Min(S) \in S /\ \A x \in S : Min(S) <= x
  BY MinIn
<1>2. Min(S) <= m /\ m <= Min(S) /\ Min(S) \in Nat
  BY <1>1
<1>. QED
  BY <1>2
-----------------------------------------------------------------------------
(* What is picked                                                          *)

\* One more place is one more in rank.
LEMMA RankNext ==
  ASSUME NEW places, IsFiniteSet(places), places \subseteq Nat, NEW i \in Nat \ {0}
  PROVE  /\ Rank(places, i) \in Nat
         /\ Rank(places, i) = Rank(places, i - 1) + (IF i \in places THEN 1 ELSE 0)
<1>. DEFINE upTo   == {j \in places : j <= i}
            before == {j \in places : j <= i - 1}
<1>1. before \subseteq places /\ i \notin before
  OBVIOUS
<1>2. IsFiniteSet(before) /\ Cardinality(before) \in Nat
  BY <1>1, FS_Subset, FS_CardinalityType
<1>3. upTo = IF i \in places THEN before \union {i} ELSE before
  <2>1. \A j \in places : j <= i <=> (j <= i - 1 \/ j = i)
    OBVIOUS
  <2>. QED
    BY <2>1, Zenon
<1>4. Rank(places, i) = Cardinality(upTo) /\ Rank(places, i - 1) = Cardinality(before)
  BY DEF Rank
<1>. HIDE DEF upTo, before
<1>5. Cardinality(before \union {i}) = Cardinality(before) + 1
  BY <1>1, <1>2, FS_AddElement
<1>. QED
  BY <1>2, <1>3, <1>4, <1>5

\* upTo is the recursion of Picked, carried to the m-th place.
Picks(upTo, s, places, m) ==
    upTo = [n \in 0 .. m |-> IF n = 0 THEN <<>>
                             ELSE IF n \in places THEN Append(upTo[n - 1], s[n])
                             ELSE upTo[n - 1]]

LEMMA PicksExist ==
  ASSUME NEW s, NEW places, NEW m \in Nat
  PROVE  \E upTo : Picks(upTo, s, places, m)
<1>. DEFINE Fails == {k \in Nat : ~ \E upTo : Picks(upTo, s, places, k)}
<1>1. SUFFICES ASSUME Fails # {} PROVE FALSE
  OBVIOUS
<1>2. Min(Fails) \in Fails /\ \A k \in Fails : Min(Fails) <= k
  BY <1>1, MinIn
<1>3. PICK k \in Fails : \A j \in Fails : k <= j
  BY <1>2
<1>4. CASE k = 0
  <2>. DEFINE upTo == [n \in 0 .. 0 |-> <<>>]
  <2>1. Picks(upTo, s, places, 0)
    BY DEF Picks
  <2>. QED
    BY <1>3, <1>4, <2>1
<1>5. CASE k # 0
  <2>1. k - 1 \in Nat /\ k - 1 \notin Fails
    BY <1>3, <1>5
  <2>2. PICK upTo : Picks(upTo, s, places, k - 1)
    BY <2>1
  <2>. DEFINE more == [n \in 0 .. k |->
                          IF n = k
                          THEN IF k \in places THEN Append(upTo[k - 1], s[k]) ELSE upTo[k - 1]
                          ELSE upTo[n]]
  <2>3. \A n \in 0 .. k - 1 : upTo[n] = IF n = 0 THEN <<>>
                              ELSE IF n \in places THEN Append(upTo[n - 1], s[n])
                              ELSE upTo[n - 1]
    BY <2>2, Zenon DEF Picks
  <2>4. Picks(more, s, places, k)
    <3>1. more[k - 1] = upTo[k - 1] /\ \A n \in 1 .. k - 1 : more[n - 1] = upTo[n - 1]
      BY <1>5, <2>1
    <3>2. ASSUME NEW n \in 0 .. k
          PROVE  more[n] = IF n = 0 THEN <<>>
                           ELSE IF n \in places THEN Append(more[n - 1], s[n])
                           ELSE more[n - 1]
      <4>1. CASE n = k
        BY <1>5, <3>1, <4>1
      <4>2. CASE n # k
        <5>1. n \in 0 .. k - 1 /\ more[n] = upTo[n] /\ (n # 0 => more[n - 1] = upTo[n - 1])
          BY <2>1, <3>1, <4>2
        <5>. HIDE DEF more
        <5>. QED
          BY <2>3, <5>1
      <4>. QED
        BY <4>1, <4>2
    <3>. DEFINE again == [n \in 0 .. k |-> IF n = 0 THEN <<>>
                             ELSE IF n \in places THEN Append(more[n - 1], s[n])
                             ELSE more[n - 1]]
    <3>3. more = [n \in 0 .. k |-> more[n]]
      OBVIOUS
    <3>. HIDE DEF more
    <3>4. more = again
      BY <3>2, <3>3
    <3>. QED
      BY <3>4 DEF Picks
  <2>. QED
    BY <1>3, <2>4
<1>. QED
  BY <1>4, <1>5

\* What is picked of s is one for each place, in order.
LEMMA PickedIs ==
  ASSUME NEW s, NEW m \in Nat, Len(s) = m, NEW places \in SUBSET (1 .. m)
  PROVE  /\ Picked(s, places) \in Seq({s[i] : i \in places})
         /\ Len(Picked(s, places)) = Cardinality(places)
         /\ \A i \in places : /\ Rank(places, i) \in 1 .. Cardinality(places)
                              /\ Picked(s, places)[Rank(places, i)] = s[i]
<1>. DEFINE T == {s[i] : i \in places}
<1>0. /\ IsFiniteSet(places) /\ places \subseteq Nat
      /\ \A j \in places : j <= m /\ ~(j <= 0)
  <2>1. IsFiniteSet(1 .. m)
    BY FS_Interval
  <2>2. IsFiniteSet(places)
    BY <2>1, FS_Subset
  <2>. QED
    BY <2>2
<1>1. PICK upTo : Picks(upTo, s, places, m) /\ Picked(s, places) = upTo[m]
  <2>. DEFINE f == CHOOSE upTo : Picks(upTo, s, places, m)
  <2>1. Picks(f, s, places, m)
    BY PicksExist, Zenon
  <2>2. Picked(s, places) = f[m]
    BY Zenon DEF Picked, Picks
  <2>. QED
    BY <2>1, <2>2
<1>2. \A n \in 0 .. m : upTo[n] = IF n = 0 THEN <<>>
                        ELSE IF n \in places THEN Append(upTo[n - 1], s[n])
                        ELSE upTo[n - 1]
  BY <1>1, Zenon DEF Picks
<1>. DEFINE Good(n) == /\ upTo[n] \in Seq(T)
                       /\ Len(upTo[n]) = Rank(places, n)
                       /\ \A i \in places : i <= n => /\ Rank(places, i) \in 1 .. Rank(places, n)
                                                      /\ upTo[n][Rank(places, i)] = s[i]
            Bad == {n \in 0 .. m : ~Good(n)}
<1>3. SUFFICES ASSUME Bad # {} PROVE FALSE
  <2>0. m \in 0 .. m
    OBVIOUS
  <2>1. Bad = {} => Good(m)
    <3>. HIDE DEF Good
    <3>. QED
      BY <2>0, Zenon
  <2>2. {j \in places : j <= m} = places
    BY <1>0, Zenon
  <2>3. Rank(places, m) = Cardinality(places)
    BY <2>2 DEF Rank
  <2>. HIDE DEF T, Bad
  <2>5. Good(m) => /\ Picked(s, places) \in Seq(T)
                   /\ Len(Picked(s, places)) = Cardinality(places)
                   /\ \A i \in places : /\ Rank(places, i) \in 1 .. Cardinality(places)
                                        /\ Picked(s, places)[Rank(places, i)] = s[i]
    BY <1>0, <1>1, <2>3
  <2>. QED
    BY <2>1, <2>5 DEF T
<1>4. Bad \subseteq Nat /\ Min(Bad) \in Bad /\ \A k \in Bad : Min(Bad) <= k
  <2>1. Bad \subseteq Nat
    OBVIOUS
  <2>. HIDE DEF Bad
  <2>. QED
    BY <1>3, <2>1, MinIn
<1>5. PICK n \in Bad : \A k \in Bad : n <= k
  BY <1>4
<1>6. n \in 0 .. m /\ ~Good(n)
  BY <1>5
<1>7. n # 0
  <2>1. ASSUME n = 0 PROVE FALSE
    <3>1. {j \in places : j <= 0} = {}
      BY <1>0, Zenon
    <3>2. Rank(places, 0) = 0
      BY <3>1, FS_EmptySet DEF Rank
    <3>3. upTo[0] = <<>>
      BY <1>2, <1>6, <2>1
    <3>4. Good(0)
      BY <3>2, <3>3
    <3>. QED
      BY <1>6, <2>1, <3>4
  <2>. QED
    BY <2>1
<1>8. Good(n - 1)
  <2>1. n - 1 \in 0 .. m /\ ~(n <= n - 1)
    BY <1>6, <1>7
  <2>2. n - 1 \notin Bad
    BY <1>5, <2>1, Zenon
  <2>. QED
    BY <2>1, <2>2
<1>9. /\ Rank(places, n - 1) \in Nat
      /\ Rank(places, n) = Rank(places, n - 1) + (IF n \in places THEN 1 ELSE 0)
  <2>1. n \in Nat \ {0} /\ (n - 1 = 0 \/ n - 1 \in Nat \ {0})
    BY <1>6, <1>7
  <2>2. Rank(places, n) = Rank(places, n - 1) + (IF n \in places THEN 1 ELSE 0)
    BY <1>0, <2>1, RankNext
  <2>3. Len(upTo[n - 1]) = Rank(places, n - 1) /\ Len(upTo[n - 1]) \in Nat
    BY <1>8
  <2>. QED
    BY <2>2, <2>3
<1>10. upTo[n] = IF n \in places THEN Append(upTo[n - 1], s[n]) ELSE upTo[n - 1]
  BY <1>2, <1>6, <1>7
<1>. HIDE DEF Bad
<1>11. CASE n \in places
  <2>1. PICK q \in Seq(T) : q = upTo[n - 1]
    BY <1>8
  <2>2. s[n] \in T /\ upTo[n] = Append(q, s[n]) /\ Len(q) = Rank(places, n - 1)
    BY <1>8, <1>10, <1>11, <2>1
  <2>. HIDE DEF T
  <2>3. /\ upTo[n] \in Seq(T) /\ Len(upTo[n]) = Len(q) + 1
        /\ upTo[n][Len(q) + 1] = s[n]
        /\ \A j \in 1 .. Len(q) : upTo[n][j] = q[j]
    BY <2>2
  <2>4. Rank(places, n) = Len(q) + 1
    BY <1>9, <1>11, <2>2
  <2>5. ASSUME NEW i \in places, i <= n
        PROVE  Rank(places, i) \in 1 .. Rank(places, n) /\ upTo[n][Rank(places, i)] = s[i]
    <3>1. CASE i = n
      BY <2>3, <2>4, <3>1
    <3>2. CASE i # n
      <4>1. i <= n - 1
        BY <1>6, <2>5, <3>2
      <4>2. Rank(places, i) \in 1 .. Len(q) /\ q[Rank(places, i)] = s[i]
        BY <1>8, <2>1, <2>2, <4>1
      <4>. QED
        BY <2>3, <2>4, <4>2
    <3>. QED
      BY <3>1, <3>2
  <2>. QED
    BY <1>6, <2>3, <2>4, <2>5
<1>12. CASE n \notin places
  <2>1. Rank(places, n) = Rank(places, n - 1) /\ upTo[n] = upTo[n - 1]
    BY <1>9, <1>10, <1>12
  <2>2. \A i \in places : i <= n => i <= n - 1
    BY <1>6, <1>12
  <2>. HIDE DEF T
  <2>3. Good(n)
    BY <1>8, <2>1, <2>2
  <2>. QED
    BY <1>6, <2>3
<1>. QED
  BY <1>11, <1>12

\* What there is first of them is at the least of the places.
LEMMA PickedFirst ==
  ASSUME NEW s, NEW m \in Nat, Len(s) = m, NEW places \in SUBSET (1 .. m)
  PROVE  /\ Picked(s, places) = <<>> <=> places = {}
         /\ places # {} => Head(Picked(s, places)) = s[Min(places)]
<1>. DEFINE p == Picked(s, places)
            T == {s[i] : i \in places}
<1>1. /\ p \in Seq(T) /\ Len(p) = Cardinality(places)
      /\ \A i \in places : Rank(places, i) \in 1 .. Len(p) /\ p[Rank(places, i)] = s[i]
  <2>. HIDE DEF p, T
  <2>. QED
    BY PickedIs DEF p, T
<1>2. ASSUME places = {} PROVE p = <<>>
  <2>1. Cardinality(places) = 0
    BY <1>2, FS_EmptySet
  <2>. HIDE DEF p, T
  <2>. QED
    BY <1>1, <2>1
<1>3. ASSUME places # {} PROVE p # <<>> /\ Head(p) = s[Min(places)]
  <2>1. Min(places) \in places /\ \A j \in places : Min(places) <= j
    <3>1. places \in SUBSET Nat
      OBVIOUS
    <3>. QED
      BY <1>3, <3>1, MinIn
  <2>2. PICK k \in places : k = Min(places) /\ \A j \in places : k <= j
    BY <2>1, Zenon
  <2>3. \A j \in places : j <= k <=> j = k
    <3>1. \A j \in places : j \in Nat
      OBVIOUS
    <3>. QED
      BY <2>2, <3>1
  <2>4. {j \in places : j <= k} = {k}
    BY <2>2, <2>3, Zenon
  <2>5. Rank(places, k) = 1
    BY <2>4, FS_Singleton DEF Rank
  <2>6. 1 \in 1 .. Len(p) /\ p[1] = s[k]
    BY <1>1, <2>5, Zenon
  <2>. HIDE DEF p, T
  <2>7. p # <<>> /\ Head(p) = p[1]
    BY <1>1, <2>6
  <2>. QED
    BY <2>2, <2>6, <2>7
<1>. QED
  BY <1>2, <1>3
-----------------------------------------------------------------------------
(* Which alias decides                                                     *)

\* An alias decides if it is usable and none before it is.
LEMMA FirstUsable ==
  ASSUME NEW values, NEW falsy, NEW n \in Nat, DOMAIN values = 1 .. n,
         NEW i \in 1 .. n, values[i] \notin falsy \union {None},
         \A j \in 1 .. i - 1 : values[j] \in falsy \union {None}
  PROVE  FindField(values, falsy) = values[i]
<1>. DEFINE usable == {k \in DOMAIN values : values[k] \notin falsy \union {None}}
<1>1. usable \in SUBSET Nat /\ i \in usable /\ \A k \in usable : i <= k
  OBVIOUS
<1>2. Min(usable) = i
  BY <1>1, MinIs
<1>. QED
  BY <1>1, <1>2 DEF FindField

LEMMA NoneUsable ==
  ASSUME NEW values, NEW falsy,
         \A i \in DOMAIN values : values[i] \in falsy \union {None}
  PROVE  FindField(values, falsy) = None
BY DEF FindField

\* And there always is one that decides, if one is usable.
LEMMA SomeFirst ==
  ASSUME NEW values, NEW falsy, NEW n \in Nat, DOMAIN values = 1 .. n,
         NEW k \in 1 .. n, values[k] \notin falsy \union {None}
  PROVE  \E i \in 1 .. n : /\ values[i] \notin falsy \union {None}
                           /\ \A j \in 1 .. i - 1 : values[j] \in falsy \union {None}
<1>. DEFINE usable == {j \in DOMAIN values : values[j] \notin falsy \union {None}}
<1>1. usable \in SUBSET Nat /\ usable # {}
  OBVIOUS
<1>2. Min(usable) \in usable /\ \A j \in usable : Min(usable) <= j
  BY <1>1, MinIn
<1>3. PICK m \in usable : \A j \in usable : m <= j
  BY <1>2
<1>. QED
  BY <1>3

\* If extraction gives what a value says, the first that says something decides.
LEMMA FindsSaid ==
  ASSUME NEW values, NEW said, NEW falsy, NEW n \in Nat,
         DOMAIN values = 1 .. n, DOMAIN said = 1 .. n,
         \A i \in 1 .. n : IF values[i] \in falsy \union {None} THEN said[i] = {}
                           ELSE values[i] \in said[i]
  PROVE  SaidFirst(said, FindField(values, falsy))
<1>. DEFINE speaking == {i \in DOMAIN said : said[i] # {}}
<1>1. CASE \A i \in 1 .. n : values[i] \in falsy \union {None}
  <2>1. speaking = {}
    BY <1>1
  <2>. QED
    BY <1>1, <2>1, NoneUsable DEF SaidFirst
<1>2. CASE \E i \in 1 .. n : values[i] \notin falsy \union {None}
  <2>. HIDE DEF speaking
  <2>0. PICK k \in 1 .. n : values[k] \notin falsy \union {None}
    BY <1>2, Zenon
  <2>1. PICK i \in 1 .. n : /\ values[i] \notin falsy \union {None}
                            /\ \A j \in 1 .. i - 1 : values[j] \in falsy \union {None}
    <3>1. DOMAIN values = 1 .. n
      OBVIOUS
    <3>. QED
      BY ONLY n \in Nat, <2>0, <3>1, SomeFirst
  <2>2. speaking \in SUBSET Nat /\ i \in speaking /\ \A j \in speaking : i <= j
    BY <2>1 DEF speaking
  <2>3. Min(speaking) = i
    BY <2>2, MinIs
  <2>4. FindField(values, falsy) = values[i]
    BY <2>1, FirstUsable
  <2>. QED
    BY <2>1, <2>2, <2>3, <2>4 DEF SaidFirst, speaking
<1>. QED
  BY <1>1, <1>2
-----------------------------------------------------------------------------
(* What is made of a value                                                 *)

LEMMA NothingIs ==
  ASSUME NEW raw \in Nothings
  PROVE  /\ ~Is(raw, "str") /\ ~Is(raw, "int") /\ ~Is(raw, "obj") /\ ~Is(raw, "unbounded")
         /\ \A x : raw # [str |-> x] /\ raw # [int |-> x] /\ raw # [obj |-> x]
<1>1. DOMAIN raw \in {{"absent"}, {"null"}, {"bool"}}
  BY DEF Nothings, Absent
<1>2. \A x : /\ DOMAIN [str |-> x] = {"str"} /\ DOMAIN [int |-> x] = {"int"}
             /\ DOMAIN [obj |-> x] = {"obj"}
  OBVIOUS
<1>. QED
  BY <1>1, <1>2 DEF Is

LEMMA StrIs ==
  ASSUME NEW S, NEW raw \in [str : S]
  PROVE  /\ raw.str \in S /\ Is(raw, "str")
         /\ ~Is(raw, "int") /\ ~Is(raw, "obj") /\ ~Is(raw, "unbounded")
         /\ \A x : raw # [int |-> x] /\ raw # [obj |-> x] /\ (raw = [str |-> x] <=> raw.str = x)
<1>1. DOMAIN raw = {"str"} /\ raw = [str |-> raw.str] /\ raw.str \in S
  OBVIOUS
<1>2. \A x : /\ [str |-> x].str = x
             /\ DOMAIN [int |-> x] = {"int"} /\ DOMAIN [obj |-> x] = {"obj"}
  OBVIOUS
<1>. QED
  BY <1>1, <1>2 DEF Is

LEMMA IntIs ==
  ASSUME NEW S, NEW raw \in [int : S]
  PROVE  /\ raw.int \in S /\ Is(raw, "int")
         /\ ~Is(raw, "str") /\ ~Is(raw, "obj") /\ ~Is(raw, "unbounded")
         /\ \A x : raw # [str |-> x] /\ raw # [obj |-> x] /\ (raw = [int |-> x] <=> raw.int = x)
<1>1. DOMAIN raw = {"int"} /\ raw = [int |-> raw.int] /\ raw.int \in S
  OBVIOUS
<1>2. \A x : /\ [int |-> x].int = x
             /\ DOMAIN [str |-> x] = {"str"} /\ DOMAIN [obj |-> x] = {"obj"}
  OBVIOUS
<1>. QED
  BY <1>1, <1>2 DEF Is

LEMMA ObjIs ==
  ASSUME NEW S, NEW raw \in [obj : S]
  PROVE  /\ raw.obj \in S /\ Is(raw, "obj") /\ ~Is(raw, "str")
         /\ \A x : raw # [str |-> x] /\ (raw = [obj |-> x] <=> raw.obj = x)
<1>1. DOMAIN raw = {"obj"} /\ raw = [obj |-> raw.obj] /\ raw.obj \in S
  OBVIOUS
<1>2. \A x : [obj |-> x].obj = x /\ DOMAIN [str |-> x] = {"str"}
  OBVIOUS
<1>. QED
  BY <1>1, <1>2 DEF Is

LEMMA IpSays ==
  ASSUME NEW raw \in IpValues
  PROVE  IF Ip(raw) \in {"", None} THEN SaysIp(raw) = {} ELSE Ip(raw) \in SaysIp(raw)
<1>0. "" \notin Hosts /\ None \notin Hosts
  BY NoneAssumption DEF NoneAssumption
<1>1. CASE raw \in Nothings \union [int : Int]
  <2>1. /\ ~Is(raw, "str") /\ ~Is(raw, "obj")
        /\ \A x : raw # [str |-> x] /\ raw # [obj |-> x]
    BY <1>1, NothingIs, IntIs
  <2>. QED
    BY <2>1 DEF SaysIp, Ip
<1>2. CASE raw \in [str : Hosts \union {""}]
  <2>1. /\ raw.str \in Hosts \union {""} /\ Is(raw, "str") /\ ~Is(raw, "obj")
        /\ \A x : raw # [obj |-> x] /\ (raw = [str |-> x] <=> raw.str = x)
    BY <1>2, StrIs
  <2>2. SaysIp(raw) = {host \in Hosts : raw.str = host}
    BY <2>1 DEF SaysIp
  <2>3. Ip(raw) = IF raw.str = "" THEN None ELSE raw.str
    BY <2>1 DEF Ip
  <2>. QED
    BY <1>0, <2>1, <2>2, <2>3
<1>3. CASE raw \in [obj : Hosts \union {"", None}]
  <2>1. /\ raw.obj \in Hosts \union {"", None} /\ Is(raw, "obj") /\ ~Is(raw, "str")
        /\ \A x : raw # [str |-> x] /\ (raw = [obj |-> x] <=> raw.obj = x)
    BY <1>3, ObjIs
  <2>2. SaysIp(raw) = {host \in Hosts : raw.obj = host}
    BY <2>1 DEF SaysIp
  <2>3. Ip(raw) = raw.obj
    BY <2>1 DEF Ip
  <2>. QED
    BY <1>0, <2>1, <2>2, <2>3
<1>. QED
  BY <1>1, <1>2, <1>3 DEF IpValues

LEMMA PortSays ==
  ASSUME NEW raw \in PlainValues, IsNumber(raw) => Number(raw) <= MaxPort
  PROVE  IF Port(raw) = None THEN SaysPort(raw) = {} ELSE Port(raw) \in SaysPort(raw)
<1>0. /\ MaxPort \in Nat /\ None \notin Int /\ (IsNumber(raw) => Number(raw) <= MaxPort)
      /\ \A s \in DOMAIN Numerals : Numerals[s] \in Int
  BY NoneAssumption, TableAssumption, AlertAssumption
     DEF NoneAssumption, TableAssumption, AlertAssumption
<1>1. CASE raw \in Nothings
  <2>1. ~Is(raw, "str") /\ ~Is(raw, "int") /\ \A x : raw # [str |-> x] /\ raw # [int |-> x]
    BY <1>1, NothingIs
  <2>. QED
    BY <2>1 DEF SaysPort, Port, IsNumber
<1>2. CASE raw \in [int : Int]
  <2>1. /\ raw.int \in Int /\ Is(raw, "int")
        /\ \A x : raw # [str |-> x] /\ (raw = [int |-> x] <=> raw.int = x)
    BY <1>2, IntIs
  <2>2. SaysPort(raw) = {port \in 1 .. MaxPort : raw.int = port}
    BY <2>1 DEF SaysPort
  <2>3. IsNumber(raw) /\ Port(raw) = IF raw.int > 0 THEN raw.int ELSE None
    BY <2>1 DEF Port, IsNumber, Number
  <2>4. raw.int <= MaxPort
    BY <1>0, <2>1, <2>3 DEF Number
  <2>. QED
    BY <1>0, <2>1, <2>2, <2>3, <2>4
<1>3. CASE raw \in [str : STRING]
  <2>1. /\ raw.str \in STRING /\ Is(raw, "str") /\ ~Is(raw, "int")
        /\ \A x : raw # [int |-> x] /\ (raw = [str |-> x] <=> raw.str = x)
    BY <1>3, StrIs
  <2>2. CASE raw.str \in DOMAIN Numerals
    <3>1. SaysPort(raw) = {port \in 1 .. MaxPort : Numerals[raw.str] = port}
      BY <2>1, <2>2 DEF SaysPort
    <3>2. IsNumber(raw) /\ Number(raw) = Numerals[raw.str]
      BY <2>1, <2>2 DEF IsNumber, Number
    <3>3. Numerals[raw.str] \in Int /\ Numerals[raw.str] <= MaxPort
      BY <1>0, <2>2, <3>2
    <3>4. Port(raw) = IF Numerals[raw.str] > 0 THEN Numerals[raw.str] ELSE None
      BY <3>2 DEF Port
    <3>. QED
      BY <1>0, <3>1, <3>3, <3>4
  <2>3. CASE raw.str \notin DOMAIN Numerals
    <3>1. SaysPort(raw) = {}
      BY <2>1, <2>3 DEF SaysPort
    <3>2. Port(raw) = None
      BY <2>1, <2>3 DEF Port, IsNumber
    <3>. QED
      BY <3>1, <3>2
  <2>. QED
    BY <2>2, <2>3
<1>. QED
  BY <1>1, <1>2, <1>3 DEF PlainValues

LEMMA ProtoSays ==
  ASSUME NEW raw \in PlainValues
  PROVE  IF Proto(raw) = None THEN SaysProto(raw) = {} ELSE Proto(raw) \in SaysProto(raw)
<1>. DEFINE Said(x, y, z) == raw \in {[str |-> x], [str |-> y], [int |-> z]}
<1>0. None # "icmp" /\ None # "tcp" /\ None # "udp"
  BY NoneAssumption DEF NoneAssumption
<1>1. /\ "icmp" \in SaysProto(raw) <=> Said("icmp", "ICMP", 1)
      /\ "tcp" \in SaysProto(raw) <=> Said("tcp", "TCP", 6)
      /\ "udp" \in SaysProto(raw) <=> Said("udp", "UDP", 17)
      /\ SaysProto(raw) \subseteq {"icmp", "tcp", "udp"}
  <2>1. \A x : x \in SaysProto(raw) <=>
               \E r \in {<<"icmp", "ICMP", 1>>, <<"tcp", "TCP", 6>>, <<"udp", "UDP", 17>>} :
                  /\ raw \in {[str |-> r[1]], [str |-> r[2]], [int |-> r[3]]}
                  /\ x = r[1]
    BY DEF SaysProto
  <2>2. /\ <<"icmp", "ICMP", 1>>[1] = "icmp" /\ <<"icmp", "ICMP", 1>>[2] = "ICMP"
        /\ <<"icmp", "ICMP", 1>>[3] = 1
        /\ <<"tcp", "TCP", 6>>[1] = "tcp" /\ <<"tcp", "TCP", 6>>[2] = "TCP"
        /\ <<"tcp", "TCP", 6>>[3] = 6
        /\ <<"udp", "UDP", 17>>[1] = "udp" /\ <<"udp", "UDP", 17>>[2] = "UDP"
        /\ <<"udp", "UDP", 17>>[3] = 17
    OBVIOUS
  <2>3. \A x : x \in SaysProto(raw) <=> \/ (x = "icmp" /\ Said("icmp", "ICMP", 1))
                                       \/ (x = "tcp" /\ Said("tcp", "TCP", 6))
                                       \/ (x = "udp" /\ Said("udp", "UDP", 17))
    BY <2>1, <2>2
  <2>. QED
    BY <2>3
<1>2. CASE raw \in Nothings
  <2>1. ~Is(raw, "str") /\ ~Is(raw, "int") /\ \A x : raw # [str |-> x] /\ raw # [int |-> x]
    BY <1>2, NothingIs
  <2>. QED
    BY <1>1, <2>1 DEF Proto
<1>3. CASE raw \in [int : Int]
  <2>1. /\ raw.int \in Int /\ Is(raw, "int") /\ ~Is(raw, "str")
        /\ \A x : raw # [str |-> x] /\ (raw = [int |-> x] <=> raw.int = x)
    BY <1>3, IntIs
  <2>. QED
    BY <1>0, <1>1, <2>1 DEF Proto
<1>4. CASE raw \in [str : STRING]
  <2>1. /\ raw.str \in STRING /\ Is(raw, "str") /\ ~Is(raw, "int")
        /\ \A x : raw # [int |-> x] /\ (raw = [str |-> x] <=> raw.str = x)
    BY <1>4, StrIs
  <2>. QED
    BY <1>0, <1>1, <2>1 DEF Proto
<1>. QED
  BY <1>2, <1>3, <1>4 DEF PlainValues

\* A time that is one beyond doubt is read as such, and what is none is passed over.
LEMMA TimeSays ==
  ASSUME NEW raw \in PlainValues \union {Unbounded}
  PROVE  /\ Undated(raw) <=> NumericTs(raw) \in {Ms(0), None}
         /\ NumericTs(raw) = Unbounded <=> raw = Unbounded
         /\ \A s \in Instants : Dates(raw, s) => NumericTs(raw) = Ms(s * Kilo) /\ ~Undated(raw)
<1>0. /\ Kilo \in Nat \ {0} /\ Horizon \in Nat
      /\ None \notin [ms : Int] /\ None # Unbounded
      /\ \A s \in DOMAIN Numerals : Numerals[s] \in Int
  BY TimeAssumption, NoneAssumption, TableAssumption
     DEF TimeAssumption, NoneAssumption, TableAssumption
<1>1. \A x, y : /\ Ms(x) = Ms(y) <=> x = y
                /\ Ms(x) # Unbounded
  <2>1. \A x : Ms(x).ms = x /\ DOMAIN Ms(x) = {"ms"} /\ DOMAIN Unbounded = {"unbounded"}
    BY DEF Ms, Unbounded
  <2>. QED
    BY <2>1
<1>2. \A n \in Int : Ms(n) # None
  BY <1>0 DEF Ms
<1>3. \A s \in Instants : s \in Nat /\ s # 0 /\ s <= Horizon /\ s * Kilo > Horizon
                          /\ s * Kilo \in Int /\ s * Kilo = Kilo * s
  BY <1>0 DEF Instants
<1>4. \A n \in Int : Kilo * n \in Int /\ (Kilo * n = 0 <=> n = 0)
  BY <1>0
<1>5. CASE raw = Unbounded
  <2>1. Is(raw, "unbounded") /\ ~Is(raw, "int") /\ ~Is(raw, "str")
    BY <1>5 DEF Unbounded, Is
  <2>2. NumericTs(raw) = Unbounded /\ ~Undated(raw) /\ \A s : ~Dates(raw, s)
    BY <2>1 DEF NumericTs, Undated, Dates, IsNumber
  <2>. QED
    BY <1>0, <1>1, <1>5, <2>2
<1>6. ASSUME raw \in PlainValues
      PROVE  /\ ~Is(raw, "unbounded") /\ raw # Unbounded
             /\ IsNumber(raw) => Number(raw) \in Int
  <2>1. ~Is(raw, "unbounded")
    BY <1>6, NothingIs, IntIs, StrIs DEF PlainValues
  <2>2. Is(Unbounded, "unbounded")
    BY DEF Is, Unbounded
  <2>3. ASSUME Is(raw, "int") PROVE raw.int \in Int
    BY <1>6, <2>3, NothingIs, IntIs, StrIs DEF PlainValues
  <2>. QED
    BY <1>0, <2>1, <2>2, <2>3 DEF IsNumber, Number
<1>7. CASE raw \in PlainValues /\ IsNumber(raw)
  <2>. DEFINE n == Number(raw)
              m == IF n > Horizon THEN n ELSE Kilo * n
  <2>1. n \in Int /\ ~Is(raw, "unbounded") /\ raw # Unbounded
    BY <1>6, <1>7
  <2>2. NumericTs(raw) = Ms(m)
    BY <1>7, <2>1 DEF NumericTs
  <2>3. (Undated(raw) <=> n = 0) /\ \A s : Dates(raw, s) <=> n \in {s, s * Kilo}
    BY <1>7, <2>1 DEF Undated, Dates
  <2>. HIDE DEF n
  <2>4. m \in Int /\ (m = 0 <=> n = 0)
    BY <1>0, <1>4, <2>1
  <2>5. \A s \in Instants : n \in {s, s * Kilo} => m = s * Kilo /\ n # 0
    BY <1>0, <1>3, <2>1
  <2>. HIDE DEF m
  <2>. QED
    BY <1>1, <1>2, <2>1, <2>2, <2>3, <2>4, <2>5
<1>8. CASE raw \in PlainValues /\ ~IsNumber(raw)
  <2>1. NumericTs(raw) = None /\ Undated(raw) /\ raw # Unbounded /\ \A s : ~Dates(raw, s)
    BY <1>6, <1>8 DEF NumericTs, Undated, Dates
  <2>. QED
    BY <1>0, <2>1
<1>. QED
  BY <1>5, <1>7, <1>8
-----------------------------------------------------------------------------
(* What is made of an alert                                                *)

LEMMA FlowOf ==
  ASSUME NEW a \in Alerts
  PROVE  /\ SaidFirst([i \in DOMAIN a.client |-> SaysIp(a.client[i])],
                      FindField([i \in DOMAIN a.client |-> Ip(a.client[i])], {""}))
         /\ SaidFirst([i \in DOMAIN a.server |-> SaysIp(a.server[i])],
                      FindField([i \in DOMAIN a.server |-> Ip(a.server[i])], {""}))
         /\ SaidFirst([i \in DOMAIN a.port |-> SaysPort(a.port[i])],
                      FindField([i \in DOMAIN a.port |-> Port(a.port[i])], {}))
         /\ SaidFirst([i \in DOMAIN a.protocol |-> SaysProto(a.protocol[i])],
                      FindField([i \in DOMAIN a.protocol |-> Proto(a.protocol[i])], {}))
<1>1. /\ a.client \in Seq(IpValues) /\ a.server \in Seq(IpValues)
      /\ a.port \in Seq(PlainValues) /\ a.protocol \in Seq(PlainValues)
      /\ \A i \in DOMAIN a.port : IsNumber(a.port[i]) => Number(a.port[i]) <= MaxPort
  BY AlertAssumption DEF AlertAssumption
<1>2. ASSUME NEW raws \in Seq(IpValues)
      PROVE  SaidFirst([i \in DOMAIN raws |-> SaysIp(raws[i])],
                       FindField([i \in DOMAIN raws |-> Ip(raws[i])], {""}))
  <2>. DEFINE n == Len(raws)
              values == [i \in DOMAIN raws |-> Ip(raws[i])]
              said   == [i \in DOMAIN raws |-> SaysIp(raws[i])]
  <2>1. n \in Nat /\ DOMAIN values = 1 .. n /\ DOMAIN said = 1 .. n
    OBVIOUS
  <2>2. ASSUME NEW i \in 1 .. n
        PROVE  IF values[i] \in {""} \union {None} THEN said[i] = {} ELSE values[i] \in said[i]
    <3>1. raws[i] \in IpValues /\ values[i] = Ip(raws[i]) /\ said[i] = SaysIp(raws[i])
      OBVIOUS
    <3>. QED
      BY <3>1, IpSays
  <2>. HIDE DEF n, values, said
  <2>3. SaidFirst(said, FindField(values, {""}))
    BY <2>1, <2>2, FindsSaid
  <2>. QED
    BY <2>3 DEF values, said
<1>3. SaidFirst([i \in DOMAIN a.port |-> SaysPort(a.port[i])],
                FindField([i \in DOMAIN a.port |-> Port(a.port[i])], {}))
  <2>. DEFINE n == Len(a.port)
              values == [i \in DOMAIN a.port |-> Port(a.port[i])]
              said   == [i \in DOMAIN a.port |-> SaysPort(a.port[i])]
  <2>1. n \in Nat /\ DOMAIN values = 1 .. n /\ DOMAIN said = 1 .. n
    BY <1>1
  <2>2. ASSUME NEW i \in 1 .. n
        PROVE  IF values[i] \in {} \union {None} THEN said[i] = {} ELSE values[i] \in said[i]
    <3>1. /\ a.port[i] \in PlainValues
          /\ IsNumber(a.port[i]) => Number(a.port[i]) <= MaxPort
          /\ values[i] = Port(a.port[i]) /\ said[i] = SaysPort(a.port[i])
      BY <1>1
    <3>2. IF Port(a.port[i]) = None THEN SaysPort(a.port[i]) = {}
                                    ELSE Port(a.port[i]) \in SaysPort(a.port[i])
      BY <3>1, PortSays
    <3>. QED
      BY <3>1, <3>2
  <2>. HIDE DEF n, values, said
  <2>3. SaidFirst(said, FindField(values, {}))
    BY <2>1, <2>2, FindsSaid
  <2>. QED
    BY <2>3 DEF values, said
<1>4. SaidFirst([i \in DOMAIN a.protocol |-> SaysProto(a.protocol[i])],
                FindField([i \in DOMAIN a.protocol |-> Proto(a.protocol[i])], {}))
  <2>. DEFINE n == Len(a.protocol)
              values == [i \in DOMAIN a.protocol |-> Proto(a.protocol[i])]
              said   == [i \in DOMAIN a.protocol |-> SaysProto(a.protocol[i])]
  <2>1. n \in Nat /\ DOMAIN values = 1 .. n /\ DOMAIN said = 1 .. n
    BY <1>1
  <2>2. ASSUME NEW i \in 1 .. n
        PROVE  IF values[i] \in {} \union {None} THEN said[i] = {} ELSE values[i] \in said[i]
    <3>1. /\ a.protocol[i] \in PlainValues
          /\ values[i] = Proto(a.protocol[i]) /\ said[i] = SaysProto(a.protocol[i])
      BY <1>1
    <3>2. IF Proto(a.protocol[i]) = None THEN SaysProto(a.protocol[i]) = {}
                                         ELSE Proto(a.protocol[i]) \in SaysProto(a.protocol[i])
      BY <3>1, ProtoSays
    <3>. QED
      BY <3>1, <3>2
  <2>. HIDE DEF n, values, said
  <2>3. SaidFirst(said, FindField(values, {}))
    BY <2>1, <2>2, FindsSaid
  <2>. QED
    BY <2>3 DEF values, said
<1>5. /\ SaidFirst([i \in DOMAIN a.client |-> SaysIp(a.client[i])],
                   FindField([i \in DOMAIN a.client |-> Ip(a.client[i])], {""}))
      /\ SaidFirst([i \in DOMAIN a.server |-> SaysIp(a.server[i])],
                   FindField([i \in DOMAIN a.server |-> Ip(a.server[i])], {""}))
  BY <1>1, <1>2
<1>. QED
  BY <1>3, <1>4, <1>5

\* What the time aliases come to: the first that is not undated decides.
LEMMA TimeOf ==
  ASSUME NEW a \in Alerts, NEW i \in DOMAIN a.time, ~Undated(a.time[i]),
         \A j \in 1 .. i - 1 : Undated(a.time[j])
  PROVE  ResolveTimestamp(a) = NumericTs(a.time[i])
<1>. DEFINE n == Len(a.time)
            values == [k \in DOMAIN a.time |-> NumericTs(a.time[k])]
<1>1. a.time \in Seq(PlainValues \union {Unbounded})
  BY AlertAssumption DEF AlertAssumption
<1>2. n \in Nat /\ DOMAIN values = 1 .. n /\ i \in 1 .. n
  BY <1>1
<1>3. ASSUME NEW k \in 1 .. n
      PROVE  values[k] = NumericTs(a.time[k]) /\ (values[k] \in {Ms(0), None} <=> Undated(a.time[k]))
  <2>1. a.time[k] \in PlainValues \union {Unbounded} /\ values[k] = NumericTs(a.time[k])
    BY <1>1
  <2>. QED
    BY <2>1, TimeSays
<1>4. ResolveTimestamp(a) = LET numeric == FindField(values, {Ms(0)})
                            IN  IF numeric # None THEN numeric ELSE FromStamp(a.stamp)
  BY DEF ResolveTimestamp
<1>. HIDE DEF n, values
<1>5. FindField(values, {Ms(0)}) = values[i] /\ values[i] # None
  <2>1. values[i] \notin {Ms(0)} \union {None} /\ \A j \in 1 .. i - 1 : values[j] \in {Ms(0)} \union {None}
    BY <1>2, <1>3
  <2>. QED
    BY <1>2, <2>1, FirstUsable
<1>. QED
  BY <1>2, <1>3, <1>4, <1>5

\* And if all are, the time string does.
LEMMA StampOf ==
  ASSUME NEW a \in Alerts, \A i \in DOMAIN a.time : Undated(a.time[i])
  PROVE  ResolveTimestamp(a) = FromStamp(a.stamp)
<1>. DEFINE values == [k \in DOMAIN a.time |-> NumericTs(a.time[k])]
<1>1. ASSUME NEW k \in DOMAIN values PROVE values[k] \in {Ms(0)} \union {None}
  <2>1. a.time \in Seq(PlainValues \union {Unbounded})
    BY AlertAssumption DEF AlertAssumption
  <2>2. a.time[k] \in PlainValues \union {Unbounded} /\ values[k] = NumericTs(a.time[k])
    BY <2>1
  <2>. QED
    BY <2>2, TimeSays
<1>2. ResolveTimestamp(a) = LET numeric == FindField(values, {Ms(0)})
                            IN  IF numeric # None THEN numeric ELSE FromStamp(a.stamp)
  BY DEF ResolveTimestamp
<1>. HIDE DEF values
<1>3. FindField(values, {Ms(0)}) = None
  BY <1>1, NoneUsable
<1>. QED
  BY <1>2, <1>3

LEMMA FromStampIs ==
  ASSUME NEW raw \in PlainValues
  PROVE  /\ \A s : raw = [str |-> s] /\ s \in DOMAIN Stamps => FromStamp(raw).ms = Kilo * Stamps[s]
         /\ (\A s \in DOMAIN Stamps : raw # [str |-> s]) => FromStamp(raw).ms = Kilo * Now
         /\ FromStamp(raw) # Unbounded
<1>1. \A x : Ms(x).ms = x /\ Ms(x) # Unbounded
  <2>1. \A x : Ms(x).ms = x /\ DOMAIN Ms(x) = {"ms"} /\ DOMAIN Unbounded = {"unbounded"}
    BY DEF Ms, Unbounded
  <2>. QED
    BY <2>1
<1>2. \/ ~Is(raw, "str") /\ \A x : raw # [str |-> x]
      \/ Is(raw, "str") /\ \A x : raw = [str |-> x] <=> raw.str = x
  BY NothingIs, IntIs, StrIs DEF PlainValues
<1>. QED
  BY <1>1, <1>2 DEF FromStamp

\* One with an unbounded time decides if the alert's time is unbounded.
LEMMA UnboundedDecides ==
  ASSUME NEW a \in Alerts, ResolveTimestamp(a) = Unbounded
  PROVE  \E i \in DOMAIN a.time : /\ a.time[i] = Unbounded
                                  /\ \A j \in 1 .. i - 1 : Undated(a.time[j])
<1>. DEFINE n == Len(a.time)
            values == [k \in DOMAIN a.time |-> NumericTs(a.time[k])]
<1>1. a.time \in Seq(PlainValues \union {Unbounded}) /\ a.stamp \in PlainValues
  BY AlertAssumption DEF AlertAssumption
<1>2. n \in Nat /\ DOMAIN values = 1 .. n /\ DOMAIN a.time = 1 .. n
  BY <1>1
<1>3. ASSUME NEW k \in 1 .. n
      PROVE  /\ values[k] \in {Ms(0)} \union {None} <=> Undated(a.time[k])
             /\ values[k] = NumericTs(a.time[k])
             /\ NumericTs(a.time[k]) = Unbounded <=> a.time[k] = Unbounded
  <2>1. a.time[k] \in PlainValues \union {Unbounded} /\ values[k] = NumericTs(a.time[k])
    BY <1>1
  <2>. QED
    BY <2>1, TimeSays
<1>. HIDE DEF n, values
<1>4. PICK k \in 1 .. n : values[k] \notin {Ms(0)} \union {None}
  BY <1>1, <1>2, <1>3, StampOf, FromStampIs
<1>5. PICK i \in 1 .. n : /\ values[i] \notin {Ms(0)} \union {None}
                          /\ \A j \in 1 .. i - 1 : values[j] \in {Ms(0)} \union {None}
  BY <1>2, <1>4, SomeFirst
<1>6. ~Undated(a.time[i]) /\ \A j \in 1 .. i - 1 : Undated(a.time[j])
  BY <1>2, <1>3, <1>5
<1>7. ResolveTimestamp(a) = NumericTs(a.time[i])
  BY <1>2, <1>6, TimeOf
<1>. QED
  BY <1>2, <1>3, <1>6, <1>7
-----------------------------------------------------------------------------
(* What is made of an id                                                   *)

LEMMA CutIs ==
  ASSUME NEW T, NEW p \in Seq(T)
  PROVE  /\ Cut(p) \in Seq(T)
         /\ Len(Cut(p)) = IF Len(p) < IdCap THEN Len(p) ELSE IdCap
         /\ \A j \in 1 .. Len(Cut(p)) : Cut(p)[j] = p[j]
<1>1. IdCap \in Nat \ {0}
  BY IdAssumption DEF IdAssumption
<1>. DEFINE n == IF Len(p) < IdCap THEN Len(p) ELSE IdCap
<1>2. n \in Nat /\ n <= Len(p)
  BY <1>1
<1>3. Cut(p) = SubSeq(p, 1, n)
  BY DEF Cut
<1>. HIDE DEF n
<1>4. /\ SubSeq(p, 1, n) \in Seq(T) /\ Len(SubSeq(p, 1, n)) = n
      /\ \A j \in 1 .. n : SubSeq(p, 1, n)[j] = p[j]
  BY <1>2
<1>. QED
  BY <1>3, <1>4 DEF n

LEMMA SanitizeIs ==
  ASSUME NEW id, NEW m \in Nat, Len(id) = m, DOMAIN id = 1 .. m,
         NEW clean, clean = {i \in DOMAIN id : id[i] \in Allowed}
  PROVE  IF clean = {} THEN SanitizeId(id) = <<"alert">>
         ELSE /\ SanitizeId(id) \in Seq(Allowed)
              /\ Len(SanitizeId(id)) = IF Cardinality(clean) < IdCap THEN Cardinality(clean)
                                                                    ELSE IdCap
              /\ \A i \in clean :
                    Rank(clean, i) <= IdCap => SanitizeId(id)[Rank(clean, i)] = id[i]
<1>. DEFINE T == {id[i] : i \in clean}
<1>1. IdCap \in Nat \ {0}
  BY IdAssumption DEF IdAssumption
<1>2. clean \in SUBSET (1 .. m) /\ T \subseteq Allowed
  OBVIOUS
<1>3. Strip(id) = Picked(id, clean)
  BY DEF Strip
<1>. HIDE DEF T
<1>4. PICK p \in Seq(T) : /\ p = Strip(id) /\ Len(p) = Cardinality(clean)
                          /\ \A i \in clean : Rank(clean, i) \in 1 .. Len(p) /\ p[Rank(clean, i)] = id[i]
  BY <1>2, <1>3, PickedIs DEF T
<1>5. PICK c \in Seq(T) : /\ c = Cut(p)
                          /\ Len(c) = IF Len(p) < IdCap THEN Len(p) ELSE IdCap
                          /\ \A j \in 1 .. Len(c) : c[j] = p[j]
  BY CutIs
<1>6. SanitizeId(id) = IF c = <<>> THEN <<"alert">> ELSE c
  BY <1>4, <1>5 DEF SanitizeId, OrAlert
<1>7. CASE clean = {}
  <2>1. Cardinality(clean) = 0
    BY <1>7, FS_EmptySet
  <2>2. Len(c) = 0
    BY <1>1, <1>4, <1>5, <2>1
  <2>3. c = <<>>
    BY <2>2
  <2>. QED
    BY <1>6, <1>7, <2>3
<1>8. CASE clean # {}
  <2>1. Len(p) # 0
    <3>1. PICK i \in clean : Rank(clean, i) \in 1 .. Len(p)
      BY <1>4, <1>8
    <3>. QED
      BY <3>1
  <2>2. c # <<>> /\ c \in Seq(Allowed)
    <3>1. Len(c) # 0
      BY <1>1, <1>5, <2>1
    <3>2. c \in Seq(Allowed)
      BY <1>2
    <3>. QED
      BY <3>1, <3>2
  <2>3. ASSUME NEW i \in clean, Rank(clean, i) <= IdCap
        PROVE  c[Rank(clean, i)] = id[i]
    <3>1. Rank(clean, i) \in 1 .. Len(p) /\ p[Rank(clean, i)] = id[i]
      BY <1>4
    <3>2. Rank(clean, i) \in 1 .. Len(c)
      BY <1>1, <1>5, <2>3, <3>1
    <3>. QED
      BY <1>5, <3>1, <3>2
  <2>. QED
    BY <1>4, <1>5, <1>6, <1>8, <2>2, <2>3
<1>. QED
  BY <1>7, <1>8
-----------------------------------------------------------------------------
(* What v1 makes of it                                                     *)

\* v1 takes the first truthy value, too.
LEMMA TruthyIs ==
  ASSUME NEW values, NEW falsy, NEW n \in Nat, DOMAIN values = 1 .. n, Len(values) = n
  PROVE  FindTruthy(values, falsy) = FindField(values, falsy)
<1>. DEFINE usable == {i \in DOMAIN values : values[i] \notin falsy \union {None}}
<1>1. usable \in SUBSET (1 .. n)
  OBVIOUS
<1>2. /\ FindTruthy(values, falsy) =
            IF Picked(values, usable) = <<>> THEN None ELSE Head(Picked(values, usable))
      /\ FindField(values, falsy) = IF usable = {} THEN None ELSE values[Min(usable)]
  BY Zenon DEF FindTruthy, FindField
<1>. HIDE DEF usable
<1>. QED
  BY <1>1, <1>2, PickedFirst

\* What decides is the same if what is usable is.
LEMMA SameFound ==
  ASSUME NEW these, NEW those, NEW falsy, NEW untrue, NEW n \in Nat,
         DOMAIN these = 1 .. n, DOMAIN those = 1 .. n,
         \A i \in 1 .. n : \/ these[i] = those[i] /\ (these[i] \in falsy <=> those[i] \in untrue)
                          \/ /\ these[i] \in falsy \union {None}
                             /\ those[i] \in untrue \union {None}
  PROVE  FindField(these, falsy) = FindField(those, untrue)
<1>. DEFINE usable == {i \in DOMAIN these : these[i] \notin falsy \union {None}}
            use    == {i \in DOMAIN those : those[i] \notin untrue \union {None}}
<1>1. usable = use /\ usable \in SUBSET Nat /\ \A i \in usable : these[i] = those[i]
  OBVIOUS
<1>2. usable # {} => Min(usable) \in usable
  <2>. HIDE DEF usable, use
  <2>. QED
    BY <1>1, MinIn
<1>3. /\ FindField(these, falsy) = IF usable = {} THEN None ELSE these[Min(usable)]
      /\ FindField(those, untrue) = IF use = {} THEN None ELSE those[Min(use)]
  BY Zenon DEF FindField
<1>. HIDE DEF usable, use
<1>4. CASE usable = {}
  BY <1>1, <1>3, <1>4
<1>5. CASE usable # {}
  <2>1. PICK i \in usable : i = Min(usable)
    BY <1>2, <1>5
  <2>2. i = Min(use) /\ these[i] = those[i]
    BY <1>1, <2>1
  <2>. QED
    BY <1>1, <1>3, <1>5, <2>1, <2>2
<1>. QED
  BY <1>4, <1>5

LEMMA IpAsV1 ==
  ASSUME NEW raws \in Seq(IpValues)
  PROVE  FindTruthy([i \in DOMAIN raws |-> ExtractIp(raws[i])], {""})
            = FindField([i \in DOMAIN raws |-> Ip(raws[i])], {""})
<1>. DEFINE n     == Len(raws)
            these == [i \in DOMAIN raws |-> Ip(raws[i])]
            those == [i \in DOMAIN raws |-> ExtractIp(raws[i])]
<1>1. /\ n \in Nat /\ DOMAIN these = 1 .. n /\ DOMAIN those = 1 .. n /\ Len(those) = n
  OBVIOUS
<1>2. ASSUME NEW i \in 1 .. n
      PROVE  \/ these[i] = those[i] /\ (these[i] \in {""} <=> those[i] \in {""})
             \/ these[i] \in {""} \union {None} /\ those[i] \in {""} \union {None}
  <2>1. PICK raw \in IpValues : /\ these[i] = Ip(raw) /\ those[i] = ExtractIp(raw)
    OBVIOUS
  <2>. HIDE DEF n, these, those
  <2>2. CASE Is(raw, "str")
    <3>1. Ip(raw) = (IF raw.str = "" THEN None ELSE raw.str) /\ ExtractIp(raw) = raw.str
      <4>1. ~Is(raw, "obj")
        BY <2>2, NothingIs, StrIs, IntIs, ObjIs DEF IpValues
      <4>. QED
        BY <2>2, <4>1 DEF Ip, ExtractIp
    <3>. QED
      BY <2>1, <3>1
  <2>3. CASE ~Is(raw, "str")
    <3>1. Ip(raw) = ExtractIp(raw)
      BY <2>3 DEF Ip, ExtractIp
    <3>. QED
      BY <2>1, <3>1
  <2>. QED
    BY <2>2, <2>3
<1>. HIDE DEF n, these, those
<1>3. FindField(these, {""}) = FindField(those, {""})
  <2>. DEFINE empty == {""}
  <2>1. \A i \in 1 .. n : \/ these[i] = those[i] /\ (these[i] \in empty <=> those[i] \in empty)
                          \/ /\ these[i] \in empty \union {None}
                             /\ those[i] \in empty \union {None}
    BY <1>2
  <2>. HIDE DEF empty
  <2>2. FindField(these, empty) = FindField(those, empty)
    BY <1>1, <2>1, SameFound
  <2>. QED
    BY <2>2 DEF empty
<1>4. FindTruthy(those, {""}) = FindField(those, {""})
  BY <1>1, TruthyIs
<1>. QED
  BY <1>3, <1>4 DEF these, those

LEMMA PortAsV1 ==
  ASSUME NEW raws \in Seq(PlainValues),
         \A raw \in Elements(raws) :
            ~Is(raw, "bool") /\ (IsNumber(raw) /\ Is(raw, "str") => raw.str \in PlainDigits)
  PROVE  FindTruthy([i \in DOMAIN raws |-> ExtractPort(raws[i])], {0})
            = FindField([i \in DOMAIN raws |-> Port(raws[i])], {})
<1>. DEFINE n     == Len(raws)
            these == [i \in DOMAIN raws |-> Port(raws[i])]
            those == [i \in DOMAIN raws |-> ExtractPort(raws[i])]
<1>1. /\ n \in Nat /\ DOMAIN these = 1 .. n /\ DOMAIN those = 1 .. n /\ Len(those) = n
  OBVIOUS
<1>2. ASSUME NEW i \in 1 .. n
      PROVE  \/ these[i] = those[i] /\ those[i] # 0
             \/ these[i] = None /\ those[i] \in {0, None}
  <2>0. /\ None \notin Int /\ PlainDigits \subseteq DOMAIN Numerals
        /\ \A s \in PlainDigits : Numerals[s] \in Nat
    BY NoneAssumption, DigitsAssumption DEF NoneAssumption, DigitsAssumption
  <2>1. PICK raw \in PlainValues : raw = raws[i]
    OBVIOUS
  <2>2. these[i] = Port(raw) /\ those[i] = ExtractPort(raw) /\ raw \in Elements(raws)
    BY <2>1 DEF Elements
  <2>3. ~Is(raw, "bool") /\ (IsNumber(raw) /\ Is(raw, "str") => raw.str \in PlainDigits)
    BY <2>2
  <2>4. TrueAsOne(raw) = raw
    BY <2>3 DEF TrueAsOne
  <2>. HIDE DEF n, these, those
  <2>5. CASE Is(raw, "int")
    <3>1. raw.int \in Int
      BY <2>5, NothingIs, StrIs, IntIs DEF PlainValues
    <3>2. Port(raw) = (IF raw.int > 0 THEN raw.int ELSE None)
      BY <2>5 DEF Port, IsNumber, Number
    <3>3. ~Is(raw, "str")
      BY <2>5, NothingIs, StrIs, IntIs DEF PlainValues
    <3>4. ExtractPort(raw) = (IF raw.int > 0 THEN raw.int ELSE None)
      BY <2>4, <2>5, <3>3 DEF ExtractPort
    <3>. QED
      BY <2>0, <2>2, <3>1, <3>2, <3>4
  <2>6. CASE ~Is(raw, "int") /\ Is(raw, "str") /\ raw.str \in PlainDigits
    <3>1. Numerals[raw.str] \in Nat
      BY <2>0, <2>6
    <3>2. Port(raw) = (IF Numerals[raw.str] > 0 THEN Numerals[raw.str] ELSE None)
      BY <2>0, <2>6 DEF Port, IsNumber, Number
    <3>3. ExtractPort(raw) = Numerals[raw.str]
      BY <2>4, <2>6 DEF ExtractPort
    <3>. QED
      BY <2>0, <2>2, <3>1, <3>2, <3>3
  <2>7. CASE ~Is(raw, "int") /\ ~(Is(raw, "str") /\ raw.str \in PlainDigits)
    <3>1. ~IsNumber(raw)
      BY <2>3, <2>7 DEF IsNumber
    <3>2. Port(raw) = None /\ ExtractPort(raw) = None
      BY <2>4, <2>7, <3>1 DEF Port, ExtractPort
    <3>. QED
      BY <2>2, <3>2
  <2>. QED
    BY <2>5, <2>6, <2>7
<1>. HIDE DEF n, these, those
<1>3. FindField(these, {}) = FindField(those, {0})
  BY <1>1, <1>2, SameFound
<1>4. FindTruthy(those, {0}) = FindField(those, {0})
  BY <1>1, TruthyIs
<1>. QED
  BY <1>3, <1>4 DEF these, those

LEMMA ProtoAsV1 ==
  ASSUME NEW raws \in Seq(PlainValues), \A raw \in Elements(raws) : ~Is(raw, "bool")
  PROVE  FindTruthy([i \in DOMAIN raws |-> ExtractProtocol(raws[i])], {})
            = FindField([i \in DOMAIN raws |-> Proto(raws[i])], {})
<1>. DEFINE n     == Len(raws)
            these == [i \in DOMAIN raws |-> Proto(raws[i])]
            those == [i \in DOMAIN raws |-> ExtractProtocol(raws[i])]
<1>1. n \in Nat /\ DOMAIN those = 1 .. n /\ Len(those) = n
  OBVIOUS
<1>2. \A i \in DOMAIN raws : ExtractProtocol(raws[i]) = Proto(raws[i])
  BY DEF Elements, ExtractProtocol, TrueAsOne
<1>3. these = those
  BY <1>2
<1>. HIDE DEF n, these, those
<1>4. FindTruthy(those, {}) = FindField(those, {})
  BY <1>1, TruthyIs
<1>. QED
  BY <1>3, <1>4 DEF these, those

\* v1 reads the first number, v2 the first that is not undated.
LEMMA TimeAsV1 ==
  ASSUME NEW a \in Alerts,
         \A raw \in Elements(a.time) :
            /\ ~Is(raw, "bool")
            /\ ~(IsNumber(raw) /\ (Is(raw, "str") \/ Number(raw) = 0))
  PROVE  UnixTs(a) = ResolveTimestamp(a)
<1>. DEFINE n       == Len(a.time)
            values  == [i \in DOMAIN a.time |-> TrueAsOne(a.time[i])]
            numbers == {i \in DOMAIN values : Is(values[i], "int") \/ Is(values[i], "unbounded")}
            picked  == Picked(values, numbers)
<1>0. Kilo \in Nat
  BY TimeAssumption DEF TimeAssumption
<1>1. a.time \in Seq(PlainValues \union {Unbounded})
  BY AlertAssumption DEF AlertAssumption
<1>2. values = [i \in DOMAIN a.time |-> a.time[i]]
  BY DEF Elements, TrueAsOne
<1>3. n \in Nat /\ DOMAIN values = 1 .. n /\ Len(values) = n /\ DOMAIN a.time = 1 .. n
  BY <1>1
<1>4. \A i \in 1 .. n : values[i] = a.time[i]
  BY <1>2, <1>3
<1>5. ASSUME NEW i \in 1 .. n
      PROVE  /\ i \in numbers <=> ~Undated(a.time[i])
             /\ Is(a.time[i], "int") => a.time[i].int \in Int /\ ~Is(a.time[i], "unbounded")
             /\ Is(a.time[i], "unbounded") => a.time[i] = Unbounded
  <2>1. PICK raw \in PlainValues \union {Unbounded} : raw = a.time[i]
    BY <1>1, <1>3
  <2>2. ~(IsNumber(raw) /\ (Is(raw, "str") \/ Number(raw) = 0))
    BY <1>3, <2>1 DEF Elements
  <2>3. i \in numbers <=> Is(raw, "int") \/ Is(raw, "unbounded")
    BY <1>3, <1>4, <2>1
  <2>4. DOMAIN Unbounded = {"unbounded"}
    BY DEF Unbounded
  <2>5. Is(raw, "int") => raw.int \in Int /\ ~Is(raw, "unbounded")
    BY <2>4, NothingIs, StrIs, IntIs DEF PlainValues, Is
  <2>6. Undated(raw) <=> ~(Is(raw, "int") \/ Is(raw, "unbounded"))
    BY <2>2, <2>5 DEF Undated, IsNumber
  <2>7. Is(raw, "unbounded") => raw = Unbounded
    BY NothingIs, StrIs, IntIs DEF PlainValues
  <2>. HIDE DEF n, values, numbers
  <2>. QED
    BY <2>1, <2>3, <2>5, <2>6, <2>7
<1>6. numbers \in SUBSET (1 .. n)
  BY <1>3
<1>7. UnixTs(a) = CASE picked = <<>> -> FromStamp(a.stamp)
                    [] picked # <<>> /\ Is(Head(picked), "unbounded") -> Unbounded
                    [] picked # <<>> /\ Is(Head(picked), "int") ->
                         Ms(IF Head(picked).int > Horizon THEN Head(picked).int
                                                          ELSE Head(picked).int * Kilo)
  BY Zenon DEF UnixTs
<1>. HIDE DEF n, values, numbers
<1>8. /\ picked = <<>> <=> numbers = {}
      /\ numbers # {} => Head(picked) = values[Min(numbers)]
  BY <1>3, <1>6, PickedFirst
<1>. HIDE DEF picked
<1>9. CASE numbers = {}
  <2>1. ResolveTimestamp(a) = FromStamp(a.stamp)
    BY <1>3, <1>5, <1>9, StampOf
  <2>. QED
    BY <1>7, <1>8, <1>9, <2>1
<1>10. CASE numbers # {}
  <2>1. numbers \in SUBSET Nat
    BY <1>6
  <2>2. PICK i \in numbers : i = Min(numbers) /\ \A j \in numbers : i <= j
    BY <1>10, <2>1, MinIn
  <2>3. i \in 1 .. n /\ \A j \in 1 .. i - 1 : j \in 1 .. n /\ ~(i <= j)
    BY <1>3, <1>6, <2>2
  <2>4. ~Undated(a.time[i]) /\ \A j \in 1 .. i - 1 : Undated(a.time[j])
    BY <1>5, <2>2, <2>3
  <2>5. ResolveTimestamp(a) = NumericTs(a.time[i])
    BY <1>3, <2>3, <2>4, TimeOf
  <2>6. picked # <<>> /\ Head(picked) = a.time[i]
    BY <1>4, <1>8, <1>10, <2>2, <2>3
  <2>7. CASE Is(a.time[i], "unbounded")
    <3>1. ~Is(a.time[i], "int")
      BY <1>5, <2>3, <2>7
    <3>2. NumericTs(a.time[i]) = Unbounded
      <4>1. a.time[i] = Unbounded /\ a.time[i] \in PlainValues \union {Unbounded}
        BY <1>1, <1>3, <1>5, <2>3, <2>7
      <4>. QED
        BY <4>1, TimeSays
    <3>. QED
      BY <1>7, <2>5, <2>6, <2>7, <3>1, <3>2
  <2>8. CASE ~Is(a.time[i], "unbounded")
    <3>1. Is(a.time[i], "int") /\ a.time[i].int \in Int
      <4>1. Is(values[i], "int") \/ Is(values[i], "unbounded")
        BY <2>2 DEF numbers
      <4>. QED
        BY <1>4, <1>5, <2>3, <2>8, <4>1
    <3>2. a.time[i].int * Kilo = Kilo * a.time[i].int
      BY <1>0, <3>1
    <3>3. NumericTs(a.time[i]) = Ms(IF a.time[i].int > Horizon THEN a.time[i].int
                                                               ELSE Kilo * a.time[i].int)
      BY <2>8, <3>1 DEF NumericTs, IsNumber, Number
    <3>4. UnixTs(a) = Ms(IF a.time[i].int > Horizon THEN a.time[i].int
                                                    ELSE a.time[i].int * Kilo)
      BY <1>7, <2>6, <2>8, <3>1
    <3>. QED
      BY <2>5, <3>2, <3>3, <3>4
  <2>. QED
    BY <2>7, <2>8
<1>. QED
  BY <1>9, <1>10
-----------------------------------------------------------------------------
(* The specification                                                       *)

\* What parse_alert makes of an alert.
Reading(a) ==
    [client_ip   |-> FindField([i \in DOMAIN a.client |-> Ip(a.client[i])], {""}),
     server_ip   |-> FindField([i \in DOMAIN a.server |-> Ip(a.server[i])], {""}),
     server_port |-> FindField([i \in DOMAIN a.port |-> Port(a.port[i])], {}),
     protocol    |-> FindField([i \in DOMAIN a.protocol |-> Proto(a.protocol[i])], {}),
     timestamp   |-> ResolveTimestamp(a).ms,
     alert_id    |-> AlertId(a)]

LEMMA ReadingHas ==
  ASSUME NEW a
  PROVE  /\ Reading(a).client_ip = FindField([i \in DOMAIN a.client |-> Ip(a.client[i])], {""})
         /\ Reading(a).server_ip = FindField([i \in DOMAIN a.server |-> Ip(a.server[i])], {""})
         /\ Reading(a).server_port = FindField([i \in DOMAIN a.port |-> Port(a.port[i])], {})
         /\ Reading(a).protocol = FindField([i \in DOMAIN a.protocol |-> Proto(a.protocol[i])], {})
         /\ Reading(a).timestamp = ResolveTimestamp(a).ms
         /\ Reading(a).alert_id = AlertId(a)
<1>. DEFINE client   == FindField([i \in DOMAIN a.client |-> Ip(a.client[i])], {""})
            server   == FindField([i \in DOMAIN a.server |-> Ip(a.server[i])], {""})
            port     == FindField([i \in DOMAIN a.port |-> Port(a.port[i])], {})
            protocol == FindField([i \in DOMAIN a.protocol |-> Proto(a.protocol[i])], {})
<1>1. Reading(a) = [client_ip |-> client, server_ip |-> server, server_port |-> port,
                    protocol |-> protocol, timestamp |-> ResolveTimestamp(a).ms,
                    alert_id |-> AlertId(a)]
  BY Zenon DEF Reading
<1>. HIDE DEF client, server, port, protocol
<1>2. /\ Reading(a).client_ip = client /\ Reading(a).server_ip = server
      /\ Reading(a).server_port = port /\ Reading(a).protocol = protocol
      /\ Reading(a).timestamp = ResolveTimestamp(a).ms /\ Reading(a).alert_id = AlertId(a)
  BY <1>1
<1>. QED
  BY <1>2 DEF client, server, port, protocol

\* An alert's id is a text, whatever stands under the aliases.
LEMMA IdIs ==
  ASSUME NEW a \in Alerts
  PROVE  AlertId(a) \in Seq(STRING \union Allowed)
<1>1. a.id \in IdValues /\ a.alertId \in IdValues
  BY AlertAssumption DEF AlertAssumption
<1>2. "None" \in Allowed /\ "alert_<time>" \in Allowed
  BY IdAssumption DEF IdAssumption
<1>. DEFINE Texts == Seq(STRING \union Allowed)
<1>3. ASSUME NEW raw \in IdValues, Is(raw, "pieces") PROVE raw.pieces \in Texts
  <2>1. raw # Absent
    <3>1. DOMAIN Absent = {"absent"}
      BY DEF Absent
    <3>. QED
      BY <1>3, <3>1 DEF Is
  <2>2. raw \notin [null : {TRUE}]
    <3>. SUFFICES ASSUME raw \in [null : {TRUE}] PROVE FALSE
      OBVIOUS
    <3>1. DOMAIN raw = {"null"}
      OBVIOUS
    <3>. QED
      BY <1>3, <3>1 DEF Is
  <2>3. raw \in [pieces : Seq(STRING)]
    BY <2>1, <2>2 DEF IdValues
  <2>4. raw.pieces \in Seq(STRING)
    BY <2>3
  <2>. QED
    BY <2>4
<1>4. <<"None">> \in Texts /\ <<"alert_<time>">> \in Texts
  BY <1>2
<1>5. PICK raw \in IdValues :
         AlertId(a) = IF raw = Absent THEN <<"alert_<time>">>
                      ELSE IF Is(raw, "pieces") THEN raw.pieces ELSE <<"None">>
  BY <1>1 DEF AlertId
<1>. HIDE DEF Texts
<1>6. AlertId(a) \in Texts
  BY <1>3, <1>4, <1>5
<1>. QED
  BY <1>6 DEF Texts

LEMMA ReadAlike ==
  ASSUME NEW a \in Alerts, ~ReadApart(a)
  PROVE  UnixTs(a) = ResolveTimestamp(a) /\ ParseV1(a) = Reading(a)
<1>1. /\ a.client \in Seq(IpValues) /\ a.server \in Seq(IpValues)
      /\ a.port \in Seq(PlainValues) /\ a.protocol \in Seq(PlainValues)
  BY AlertAssumption DEF AlertAssumption
<1>2. /\ \A raw \in Elements(a.port) : /\ ~Is(raw, "bool")
                                       /\ IsNumber(raw) /\ Is(raw, "str") => raw.str \in PlainDigits
      /\ \A raw \in Elements(a.protocol) : ~Is(raw, "bool")
      /\ \A raw \in Elements(a.time) :
            ~Is(raw, "bool") /\ ~(IsNumber(raw) /\ (Is(raw, "str") \/ Number(raw) = 0))
  BY DEF ReadApart
<1>3. UnixTs(a) = ResolveTimestamp(a)
  BY <1>2, TimeAsV1
<1>4. /\ FindTruthy([i \in DOMAIN a.client |-> ExtractIp(a.client[i])], {""})
            = FindField([i \in DOMAIN a.client |-> Ip(a.client[i])], {""})
      /\ FindTruthy([i \in DOMAIN a.server |-> ExtractIp(a.server[i])], {""})
            = FindField([i \in DOMAIN a.server |-> Ip(a.server[i])], {""})
      /\ FindTruthy([i \in DOMAIN a.port |-> ExtractPort(a.port[i])], {0})
            = FindField([i \in DOMAIN a.port |-> Port(a.port[i])], {})
      /\ FindTruthy([i \in DOMAIN a.protocol |-> ExtractProtocol(a.protocol[i])], {})
            = FindField([i \in DOMAIN a.protocol |-> Proto(a.protocol[i])], {})
  BY <1>1, <1>2, IpAsV1, PortAsV1, ProtoAsV1
<1>5. ParseV1(a) =
        [client_ip   |-> FindTruthy([i \in DOMAIN a.client |-> ExtractIp(a.client[i])], {""}),
         server_ip   |-> FindTruthy([i \in DOMAIN a.server |-> ExtractIp(a.server[i])], {""}),
         server_port |-> FindTruthy([i \in DOMAIN a.port |-> ExtractPort(a.port[i])], {0}),
         protocol    |-> FindTruthy([i \in DOMAIN a.protocol |-> ExtractProtocol(a.protocol[i])], {}),
         timestamp   |-> UnixTs(a).ms,
         alert_id    |-> AlertId(a)]
  BY Zenon DEF ParseV1
<1>6. ParseV1(a) = Reading(a)
  BY <1>3, <1>4, <1>5, Zenon DEF Reading
<1>. QED
  BY <1>3, <1>6

LEMMA NamedAlike ==
  ASSUME NEW a \in Alerts, ~ReadApart(a)
  PROVE  SafeId(AlertId(a)) = SanitizeId(AlertId(a))
<1>. DEFINE id == AlertId(a)
            clean == {i \in DOMAIN id : id[i] \in Allowed}
            safe  == {i \in DOMAIN id : id[i] \in Allowed \union Unicode}
<1>1. \A i \in DOMAIN id : id[i] \notin Unicode
  BY DEF ReadApart, Elements
<1>2. clean = safe
  BY <1>1
<1>3. SafeId(id) = OrAlert(Cut(Picked(id, safe))) /\ SanitizeId(id) = OrAlert(Cut(Picked(id, clean)))
  BY Zenon DEF SafeId, SanitizeId, Strip
<1>. QED
  BY <1>2, <1>3, Zenon

\* What has become of the alert, if it is dealt with.
IInv ==
    /\ alert \in Alerts
    /\ outcome \in {"posted", "parsed", "raised"}
    /\ outcome = "parsed" => /\ ResolveTimestamp(alert) # Unbounded
                             /\ parsed = Reading(alert)
                             /\ fileId = SanitizeId(AlertId(alert))
    /\ outcome = "raised" => ResolveTimestamp(alert) = Unbounded

LEMMA InvHolds == Spec => []IInv
<1>1. Init => IInv
  BY DEF Init, IInv
<1>2. IInv /\ [Next]_vars => IInv'
  <2>. SUFFICES ASSUME IInv, [Next]_vars PROVE IInv'
    OBVIOUS
  <2>1. CASE ParseAlert
    <3>1. alert' = alert /\ alert \in Alerts
      BY <2>1 DEF IInv, ParseAlert
    <3>2. CASE ResolveTimestamp(alert) = Unbounded
      BY <2>1, <3>1, <3>2 DEF IInv, ParseAlert
    <3>3. CASE ResolveTimestamp(alert) # Unbounded
      <4>1. /\ outcome' = "parsed" /\ parsed' = Reading(alert)
            /\ fileId' = SanitizeId(AlertId(alert))
        BY <2>1, <3>3, Zenon DEF ParseAlert, Reading
      <4>. QED
        BY <3>1, <3>3, <4>1 DEF IInv
    <3>. QED
      BY <3>2, <3>3
  <2>2. CASE UNCHANGED vars
    BY <2>2 DEF IInv, vars
  <2>. QED
    BY <2>1, <2>2 DEF Next
<1>. QED
  BY <1>1, <1>2, PTL DEF Spec

\* A flow is taken as its sender meant it, under any number of aliases.
THEOREM FlowUnderstood == Spec => []FlowFaithful
<1>1. IInv => FlowFaithful
  <2>. SUFFICES ASSUME IInv, outcome = "parsed" PROVE FlowFaithful
    BY DEF FlowFaithful
  <2>1. PICK a \in Alerts : a = alert
    BY DEF IInv
  <2>. QED
    BY <2>1, FlowOf, ReadingHas DEF IInv, FlowFaithful
<1>. QED
  BY <1>1, InvHolds, PTL

\* One instant gives one time, in whatever unit and under whatever alias it is
\* sent.
THEOREM TimeUnderstood == Spec => []TimeFaithful
<1>1. IInv => TimeFaithful
  <2>. SUFFICES ASSUME IInv, outcome = "parsed" PROVE TimeFaithful
    BY DEF TimeFaithful
  <2>1. PICK a \in Alerts : a = alert
    BY DEF IInv
  <2>2. a.time \in Seq(PlainValues \union {Unbounded}) /\ a.stamp \in PlainValues
    BY AlertAssumption DEF AlertAssumption
  <2>3. parsed.timestamp = ResolveTimestamp(a).ms
    BY <2>1, ReadingHas DEF IInv
  <2>4. ASSUME NEW i \in DOMAIN a.time, NEW s \in Instants,
               Deciding(a.time[i]), Dates(a.time[i], s)
        PROVE  parsed.timestamp = s * Kilo
    <3>1. a.time[i] \in PlainValues \union {Unbounded}
      BY <2>2
    <3>2. NumericTs(a.time[i]) = Ms(s * Kilo) /\ ~Undated(a.time[i])
      BY <2>4, <3>1, TimeSays
    <3>3. PICK k \in DOMAIN a.time : /\ a.time[k] = a.time[i]
                                     /\ \A j \in 1 .. k - 1 : Undated(a.time[j])
      BY <2>1, <2>4 DEF Deciding
    <3>4. ResolveTimestamp(a) = Ms(s * Kilo)
      BY <3>2, <3>3, TimeOf
    <3>. QED
      BY <2>3, <3>4 DEF Ms
  <2>5. ASSUME AllUndated
        PROVE  IF \E s \in DOMAIN Stamps : a.stamp = [str |-> s]
               THEN \E s \in DOMAIN Stamps : /\ a.stamp = [str |-> s]
                                             /\ parsed.timestamp = Stamps[s] * Kilo
               ELSE parsed.timestamp = Now * Kilo
    <3>1. parsed.timestamp = FromStamp(a.stamp).ms
      BY <2>1, <2>3, <2>5, StampOf DEF AllUndated
    <3>2. Kilo \in Nat /\ Now \in Nat /\ \A s \in DOMAIN Stamps : Stamps[s] \in Int
      BY TimeAssumption, TableAssumption DEF TimeAssumption, TableAssumption
    <3>3. /\ \A s : a.stamp = [str |-> s] /\ s \in DOMAIN Stamps
                     => parsed.timestamp = Kilo * Stamps[s]
          /\ (\A s \in DOMAIN Stamps : a.stamp # [str |-> s]) => parsed.timestamp = Kilo * Now
      BY <2>2, <3>1, FromStampIs
    <3>4. /\ Kilo * Now = Now * Kilo
          /\ \A s \in DOMAIN Stamps : Kilo * Stamps[s] = Stamps[s] * Kilo
      BY <3>2
    <3>. QED
      BY <3>3, <3>4, Zenon
  <2>. QED
    BY <2>1, <2>4, <2>5 DEF TimeFaithful
<1>. QED
  BY <1>1, InvHolds, PTL

\* An alert fails only over a time that is none and that none outranks.
THEOREM RejectionJustified == Spec => []RejectedOnlyUnbounded
<1>1. IInv => RejectedOnlyUnbounded
  <2>. SUFFICES ASSUME IInv, outcome = "raised" PROVE Deciding(Unbounded)
    BY DEF RejectedOnlyUnbounded
  <2>1. PICK a \in Alerts : a = alert
    BY DEF IInv
  <2>. QED
    BY <2>1, UnboundedDecides DEF IInv, Deciding
<1>. QED
  BY <1>1, InvHolds, PTL

\* As much of an id as can be is in the name of its file, however long it is.
THEOREM IdsKept == Spec => []IdKept
<1>1. IInv => IdKept
  <2>. SUFFICES ASSUME IInv, outcome = "parsed" PROVE IdKept
    BY DEF IdKept
  <2>1. PICK a \in Alerts : a = alert
    BY DEF IInv
  <2>2. PICK id \in Seq(STRING \union Allowed) : id = AlertId(a)
    BY IdIs
  <2>3. parsed.alert_id = id /\ fileId = SanitizeId(id)
    BY <2>1, <2>2, ReadingHas DEF IInv
  <2>. DEFINE m     == Len(id)
              clean == {i \in DOMAIN id : id[i] \in Allowed}
  <2>4. m \in Nat /\ DOMAIN id = 1 .. m
    OBVIOUS
  <2>5. IF clean = {} THEN SanitizeId(id) = <<"alert">>
        ELSE /\ SanitizeId(id) \in Seq(Allowed)
             /\ Len(SanitizeId(id)) = IF Cardinality(clean) < IdCap THEN Cardinality(clean)
                                                                   ELSE IdCap
             /\ \A i \in clean :
                   Rank(clean, i) <= IdCap => SanitizeId(id)[Rank(clean, i)] = id[i]
    <3>1. clean = {i \in DOMAIN id : id[i] \in Allowed}
      OBVIOUS
    <3>. HIDE DEF m, clean
    <3>2. Len(id) = m
      BY DEF m
    <3>. QED
      BY <2>4, <3>1, <3>2, SanitizeIs
  <2>. QED
    BY <2>3, <2>5, Zenon DEF IdKept
<1>. QED
  BY <1>1, InvHolds, PTL

\* Beyond what the two read apart, v1 would have made of any alert what v2 did.
THEOREM ContractUnchanged == Spec => []AlertAsV1
<1>1. IInv => AlertAsV1
  <2>. SUFFICES ASSUME IInv, outcome # "posted", ~ReadApart(alert)
                PROVE  /\ outcome = "raised" <=> UnixTs(alert) = Unbounded
                       /\ outcome = "parsed" => /\ parsed = ParseV1(alert)
                                                /\ fileId = SafeId(AlertId(alert))
    BY DEF AlertAsV1
  <2>1. PICK a \in Alerts : a = alert
    BY DEF IInv
  <2>2. ~ReadApart(a)
    BY <2>1
  <2>3. UnixTs(a) = ResolveTimestamp(a) /\ ParseV1(a) = Reading(a)
    BY <2>2, ReadAlike
  <2>4. SafeId(AlertId(a)) = SanitizeId(AlertId(a))
    BY <2>2, NamedAlike
  <2>. QED
    BY <2>1, <2>3, <2>4 DEF IInv
<1>. QED
  BY <1>1, InvHolds, PTL
=============================================================================
