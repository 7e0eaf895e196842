-------------------------- MODULE InductionLemmas --------------------------
(***************************************************************************)
(* Induction in terms of sets, and what follows from it about operators of *)
(* the library that are defined by recursion or by a choice.               *)
(***************************************************************************)
EXTENDS Integers, Sequences, SequencesExt, FiniteSetsExt, SetsInOrder, SequenceTheorems,
        FiniteSetTheorems, WellFoundedInduction, TLAPS

\* What holds of 0 and of the successor of each number holds of all.
LEMMA SetInduction ==
  ASSUME NEW S, 0 \in S, \A n \in Nat : n \in S => n + 1 \in S
  PROVE  \A n \in Nat : n \in S
<1> SUFFICES ASSUME Nat \ S # {} PROVE FALSE
  OBVIOUS
<1>1. PICK m \in Nat \ S : \A n \in Nat \ S : ~(<<n, m>> \in OpToRel(<, Nat))
  BY WFMin, NatLessThanWellFounded
<1>2. \A n \in Nat \ S : ~(n < m)
  BY <1>1 DEF OpToRel
<1>3. m - 1 \in Nat \ S /\ m - 1 < m
  <2>1. m # 0 /\ m \in Nat
    BY <1>1
  <2>2. m - 1 \in Nat /\ (m - 1) + 1 = m /\ m - 1 < m
    BY <2>1
  <2>3. m - 1 \in S => (m - 1) + 1 \in S
    BY <2>2
  <2> QED BY <1>1, <2>2, <2>3
<1> QED BY <1>2, <1>3

\* A non-empty set of naturals has a least element, and one with a bound a greatest.
LEMMA LeastElement ==
  ASSUME NEW S, S \subseteq Nat, S # {}
  PROVE  \E m \in S : \A n \in S : m <= n
<1>1. PICK x \in S : \A y \in S : ~(<<y, x>> \in OpToRel(<, Nat))
  BY WFMin, NatLessThanWellFounded
<1>2. \A y \in S : ~(y < x)
  BY <1>1 DEF OpToRel
<1>3. ASSUME NEW n \in S PROVE x <= n
  <2>1. n \in Nat /\ x \in Nat /\ ~(n < x)
    BY <1>1, <1>2
  <2> QED BY <2>1
<1> QED BY <1>1, <1>3

LEMMA GreatestOf ==
  ASSUME NEW S, S \subseteq Nat, S # {}, NEW n \in Nat, \A y \in S : y <= n
  PROVE  Max(S) \in S /\ \A y \in S : y <= Max(S)
<1> DEFINE Down == {n - y : y \in S}
<1>1. \A y \in S : n - y \in Nat /\ y \in Nat
  OBVIOUS
<1>2. Down \subseteq Nat /\ Down # {}
  BY <1>1
<1>3. PICK d \in Down : \A o \in Down : d <= o
  <2> HIDE DEF Down
  <2> QED BY <1>2, LeastElement
<1>4. PICK x \in S : d = n - x
  BY <1>3
<1>5. ASSUME NEW y \in S PROVE x >= y
  <2>1. n - x <= n - y
    BY <1>3, <1>4
  <2> QED BY <1>1, <1>4, <2>1
<1>6. Max(S) \in S /\ \A y \in S : Max(S) >= y
  BY <1>4, <1>5 DEF Max
<1>7. \A y \in S : y <= Max(S)
  BY <1>1, <1>6
<1> QED BY <1>6, <1>7

LEMMA GreatestElement ==
  ASSUME NEW S, S \subseteq Nat, 0 \in S, NEW n \in Nat, \A y \in S : y <= n
  PROVE  Max(S) \in S
<1> DEFINE Exceeded == {m \in Nat : \E y \in S : y > m}
<1>1. CASE \E x \in S : \A y \in S : x >= y
  BY <1>1 DEF Max
<1>2. CASE ~\E x \in S : \A y \in S : x >= y
  <2>1. 0 \in Exceeded
    BY <1>2
  <2>2. ASSUME NEW m \in Nat, m \in Exceeded PROVE m + 1 \in Exceeded
    <3>1. PICK y \in S : y > m
      BY <2>2
    <3>2. PICK z \in S : ~(y >= z)
      BY <1>2
    <3>3. y \in Nat /\ z \in Nat /\ z > m + 1
      BY <3>1, <3>2
    <3> QED BY <3>3
  <2>3. n \in Exceeded
    <3> HIDE DEF Exceeded
    <3> QED BY <2>1, <2>2, SetInduction
  <2>4. PICK y \in S : y > n
    BY <2>3
  <2> QED BY <2>4
<1> QED BY <1>1, <1>2

\* FlattenSeq joins from the first sequence on.
LEMMA FlattenUnfolds ==
  ASSUME NEW S, NEW s \in Seq(Seq(S))
  PROVE  \E g \in [0 .. Len(s) -> Seq(S)] :
           /\ g[0] = <<>> /\ \A i \in 1 .. Len(s) : g[i] = g[i - 1] \o s[i]
           /\ FlattenSeq(s) = g[Len(s)]
<1>1. Len(s) \in Nat /\ \A i \in 1 .. Len(s) : s[i] \in Seq(S)
  BY ElementOfSeq, LenProperties
<1>2. <<>> \in Seq(S)
  BY EmptySeq
<1> DEFINE Joins(g, n) == /\ g \in [0 .. n -> Seq(S)] /\ g[0] = <<>>
                          /\ \A i \in 1 .. n : g[i] = g[i - 1] \o s[i]
           Lengths == {n \in Nat : n <= Len(s) => \E g : Joins(g, n)}
<1>3. 0 \in Lengths
  <2>1. Joins([i \in 0 .. 0 |-> <<>>], 0)
    BY <1>2
  <2> HIDE DEF Joins
  <2> QED BY <2>1
<1>4. ASSUME NEW n \in Nat, n \in Lengths PROVE n + 1 \in Lengths
  <2>1. ASSUME n + 1 <= Len(s), NEW g, Joins(g, n) PROVE \E h : Joins(h, n + 1)
    <3>1. n + 1 \in 1 .. Len(s) /\ g[n] \in Seq(S) /\ s[n + 1] \in Seq(S)
      BY <1>1, <2>1
    <3> DEFINE e == g[n] \o s[n + 1]
               h == [i \in 0 .. n + 1 |-> IF i = n + 1 THEN e ELSE g[i]]
    <3>2. e \in Seq(S)
      BY <3>1, ConcatProperties
    <3> HIDE DEF e
    <3>3. h \in [0 .. n + 1 -> Seq(S)] /\ h[0] = <<>>
      BY <2>1, <3>2
    <3>4. ASSUME NEW i \in 1 .. n + 1 PROVE h[i] = h[i - 1] \o s[i]
      <4>1. CASE i = n + 1
        <5>1. h[n + 1] = e
          OBVIOUS
        <5>2. h[n] = g[n] /\ i - 1 = n
          BY <4>1
        <5> QED BY <4>1, <5>1, <5>2 DEF e
      <4>2. CASE i # n + 1
        <5>1. i \in 1 .. n /\ i - 1 # n + 1 /\ i \in 0 .. n + 1 /\ i - 1 \in 0 .. n + 1
          BY <4>2
        <5> QED BY <2>1, <4>2, <5>1
      <4> QED BY <4>1, <4>2
    <3>5. Joins(h, n + 1)
      BY <3>3, <3>4
    <3> HIDE DEF Joins, h
    <3> QED BY <3>5
  <2> HIDE DEF Joins
  <2>2. n <= Len(s) => \E g : Joins(g, n)
    BY <1>4
  <2>3. n + 1 <= Len(s) => \E g : Joins(g, n + 1)
    BY <1>1, <2>1, <2>2
  <2> QED BY <2>3
<1>5. PICK g : Joins(g, Len(s))
  <2>1. Len(s) \in Lengths
    <3> HIDE DEF Lengths
    <3> QED BY <1>1, <1>3, <1>4, SetInduction
  <2> HIDE DEF Joins
  <2> QED BY <1>1, <2>1
<1>6. CASE Len(s) = 0
  <2>1. FlattenSeq(s) = <<>>
    BY <1>1, <1>6, SeqEqual, EmptySeq DEF FlattenSeq
  <2> QED BY <1>5, <1>6, <2>1
<1>7. CASE Len(s) # 0
  <2> DEFINE Is(h) == h = [i \in 1 .. Len(s) |-> IF i = 1 THEN s[i] ELSE h[i - 1] \o s[i]]
             flatten == CHOOSE h : Is(h)
  <2>1. FlattenSeq(s) = flatten[Len(s)]
    BY <1>7 DEF FlattenSeq
  <2>2. \A h : Is(h) => \A i \in 1 .. Len(s) : h[i] = IF i = 1 THEN s[i] ELSE h[i - 1] \o s[i]
    OBVIOUS
  <2>3. \E h : Is(h)
    <3> DEFINE h == [i \in 1 .. Len(s) |-> g[i]]
    <3>1. ASSUME NEW i \in 1 .. Len(s) PROVE h[i] = IF i = 1 THEN s[i] ELSE h[i - 1] \o s[i]
      <4>1. CASE i = 1
        <5>1. g[1] = <<>> \o s[1] /\ s[1] \in Seq(S)
          <6>1. 1 \in 1 .. Len(s) /\ 1 - 1 = 0
            BY <4>1
          <6> QED BY <1>1, <1>5, <6>1
        <5>2. <<>> \o s[1] = s[1]
          BY <5>1, ConcatEmptySeq
        <5> QED BY <4>1, <5>1, <5>2
      <4>2. CASE i # 1
        <5>1. h[i - 1] = g[i - 1] /\ h[i] = g[i]
          BY <1>1, <4>2
        <5>2. g[i] = g[i - 1] \o s[i]
          BY <1>5
        <5> QED BY <4>2, <5>1, <5>2
      <4> QED BY <4>1, <4>2
    <3>2. Is(h)
      BY <3>1
    <3> QED BY <3>2
  <2>4. Is(flatten)
    <3> HIDE DEF Is
    <3> QED BY <2>3
  <2>5. \A i \in 1 .. Len(s) : flatten[i] = IF i = 1 THEN s[i] ELSE flatten[i - 1] \o s[i]
    <3> HIDE DEF Is, flatten
    <3> QED BY <2>2, <2>4
  <2> DEFINE Agree == {n \in Nat : n + 1 <= Len(s) => flatten[n + 1] = g[n + 1]}
  <2> HIDE DEF flatten, Is
  <2>6. 0 \in Agree
    <3>1. g[1] = <<>> \o s[1] /\ s[1] \in Seq(S)
      <4>1. 1 \in 1 .. Len(s) /\ 1 - 1 = 0
        BY <1>1, <1>7
      <4> QED BY <1>1, <1>5, <4>1
    <3>2. <<>> \o s[1] = s[1]
      BY <3>1, ConcatEmptySeq
    <3> QED BY <1>1, <1>7, <2>5, <3>1, <3>2
  <2>7. ASSUME NEW n \in Nat, n \in Agree PROVE n + 1 \in Agree
    <3> SUFFICES ASSUME n + 2 <= Len(s) PROVE flatten[n + 2] = g[n + 2]
      OBVIOUS
    <3>1. n + 2 \in 1 .. Len(s) /\ n + 2 # 1 /\ (n + 2) - 1 = n + 1 /\ n + 1 <= Len(s)
      BY <1>1
    <3>2. flatten[n + 1] = g[n + 1]
      BY <2>7, <3>1
    <3>3. flatten[n + 2] = flatten[n + 1] \o s[n + 2] /\ g[n + 2] = g[n + 1] \o s[n + 2]
      BY <1>5, <2>5, <3>1
    <3> QED BY <3>2, <3>3
  <2>8. flatten[Len(s)] = g[Len(s)]
    <3>1. Len(s) - 1 \in Nat /\ (Len(s) - 1) + 1 = Len(s)
      BY <1>1, <1>7
    <3>2. Len(s) - 1 \in Agree
      <4> HIDE DEF Agree
      <4> QED BY <2>6, <2>7, <3>1, SetInduction
    <3> QED BY <3>1, <3>2
  <2> QED BY <1>5, <2>1, <2>8
<1> QED BY <1>1, <1>6, <1>7

\* What a sequence joined of two is, element by element.
IsJoin(w, s, t) == w = s \o t

LEMMA JoinElements ==
  ASSUME NEW S, NEW s \in Seq(S), NEW t \in Seq(S), NEW w, IsJoin(w, s, t)
  PROVE  /\ w \in Seq(S) /\ Len(w) = Len(s) + Len(t)
         /\ \A j \in 1 .. Len(s) : w[j] = s[j]
         /\ \A j \in 1 .. Len(t) : w[Len(s) + j] = t[j]
<1> DEFINE u == s \o t
<1>1. /\ u \in Seq(S) /\ Len(u) = Len(s) + Len(t)
      /\ \A i \in 1 .. Len(s) + Len(t) : u[i] = IF i <= Len(s) THEN s[i] ELSE t[i - Len(s)]
  BY ConcatProperties
<1>2. Len(s) \in Nat /\ Len(t) \in Nat
  BY LenProperties
<1>3. w = u
  BY DEF IsJoin
<1> HIDE DEF u
<1>4. \A j \in 1 .. Len(s) : u[j] = s[j]
  BY <1>1, <1>2
<1>5. \A j \in 1 .. Len(t) : u[Len(s) + j] = t[j]
  <2> SUFFICES ASSUME NEW j \in 1 .. Len(t) PROVE u[Len(s) + j] = t[j]
    OBVIOUS
  <2>1. Len(s) + j \in 1 .. Len(s) + Len(t) /\ ~(Len(s) + j <= Len(s)) /\ (Len(s) + j) - Len(s) = j
    BY <1>2
  <2> QED BY <1>1, <2>1
<1> QED BY <1>1, <1>3, <1>4, <1>5

\* One sequence more is joined at the end.
LEMMA FlattenAppends ==
  ASSUME NEW S, NEW s \in Seq(Seq(S)), NEW t \in Seq(Seq(S)),
         Len(t) = Len(s) + 1, \A i \in 1 .. Len(s) : t[i] = s[i]
  PROVE  /\ FlattenSeq(s) \in Seq(S) /\ FlattenSeq(t) \in Seq(S)
         /\ FlattenSeq(t) = FlattenSeq(s) \o t[Len(t)]
<1> DEFINE Joins(g, u) == /\ g \in [0 .. Len(u) -> Seq(S)] /\ g[0] = <<>>
                          /\ \A i \in 1 .. Len(u) : g[i] = g[i - 1] \o u[i]
<1>1. PICK g : Joins(g, s) /\ FlattenSeq(s) = g[Len(s)]
  BY FlattenUnfolds
<1>2. PICK h : Joins(h, t) /\ FlattenSeq(t) = h[Len(t)]
  BY FlattenUnfolds
<1>3. Len(s) \in Nat /\ Len(t) \in Nat /\ Len(t) \in 1 .. Len(t) /\ Len(t) - 1 = Len(s)
  BY LenProperties
<1>4. h[Len(t)] = h[Len(s)] \o t[Len(t)]
  BY <1>2, <1>3
<1> DEFINE Agree == {n \in Nat : n <= Len(s) => g[n] = h[n]}
<1>5. 0 \in Agree
  BY <1>1, <1>2
<1>6. ASSUME NEW n \in Nat, n \in Agree PROVE n + 1 \in Agree
  <2> SUFFICES ASSUME n + 1 <= Len(s) PROVE g[n + 1] = h[n + 1]
    OBVIOUS
  <2>1. n + 1 \in 1 .. Len(s) /\ n + 1 \in 1 .. Len(t) /\ (n + 1) - 1 = n /\ n <= Len(s)
    BY <1>3
  <2>2. g[n + 1] = g[n] \o s[n + 1] /\ h[n + 1] = h[n] \o t[n + 1]
    BY <1>1, <1>2, <2>1
  <2> QED BY <1>6, <2>1, <2>2
<1>7. g[Len(s)] = h[Len(s)]
  <2>1. Len(s) \in Agree
    <3> HIDE DEF Agree
    <3> QED BY <1>3, <1>5, <1>6, SetInduction
  <2> QED BY <1>3, <2>1
<1> QED BY <1>1, <1>2, <1>3, <1>4, <1>7

---------------------------------------------------------------------------
(* The numbers of a set in order. *)

\* A part of a finite set that is not all of it is smaller.
LEMMA FewerInAPart ==
  ASSUME NEW S, IsFiniteSet(S), NEW T \in SUBSET S, NEW x \in S, x \notin T
  PROVE  Cardinality(T) < Cardinality(S)
<1>1. Cardinality(T) \in Nat /\ Cardinality(S) \in Nat /\ Cardinality(T) <= Cardinality(S)
  BY FS_Subset, FS_CardinalityType
<1>2. Cardinality(T) # Cardinality(S)
  BY FS_Subset
<1> QED BY <1>1, <1>2

Below(S, x) == {y \in S : y < x}

\* Every number of a finite set has as many below it as there are places
\* before its own, and each place has a number.
LEMMA RanksAreThePlaces ==
  ASSUME NEW S, S \subseteq Int, IsFiniteSet(S)
  PROVE  /\ Cardinality(S) \in Nat
         /\ \A x \in S : Cardinality(Below(S, x)) \in 0 .. Cardinality(S) - 1
         /\ \A x, y \in S : x < y => Cardinality(Below(S, x)) < Cardinality(Below(S, y))
         /\ \A r \in 0 .. Cardinality(S) - 1 : \E x \in S : Cardinality(Below(S, x)) = r
<1>1. Cardinality(S) \in Nat
  BY FS_CardinalityType
<1>2. ASSUME NEW x \in S PROVE Cardinality(Below(S, x)) \in 0 .. Cardinality(S) - 1
  <2>1. Below(S, x) \in SUBSET S /\ x \notin Below(S, x)
    BY DEF Below
  <2>2. Cardinality(Below(S, x)) < Cardinality(S)
    BY <2>1, FewerInAPart
  <2>3. Cardinality(Below(S, x)) \in Nat
    BY <2>1, FS_Subset, FS_CardinalityType
  <2> QED BY <1>1, <2>2, <2>3
<1>3. ASSUME NEW x \in S, NEW y \in S, x < y
      PROVE  Cardinality(Below(S, x)) < Cardinality(Below(S, y))
  <2>1. Below(S, y) \in SUBSET S
    BY DEF Below
  <2>2. IsFiniteSet(Below(S, y))
    BY <2>1, FS_Subset
  <2>3. Below(S, x) \in SUBSET Below(S, y)
    <3>1. \A k, l, o \in Int : k < l /\ l < o => k < o
      OBVIOUS
    <3>2. \A z \in S : z < x => z < y
      BY <1>3, <3>1
    <3> QED BY <3>2 DEF Below
  <2>4. x \in Below(S, y) /\ x \notin Below(S, x)
    BY <1>3 DEF Below
  <2> QED BY <2>2, <2>3, <2>4, FewerInAPart
<1> DEFINE Places == 0 .. Cardinality(S) - 1
           rank == [x \in S |-> Cardinality(Below(S, x))]
<1>4. rank \in Injection(S, Places)
  <2>1. rank \in [S -> Places]
    BY <1>2
  <2>2. ASSUME NEW x \in S, NEW y \in S, rank[x] = rank[y] PROVE x = y
    <3>1. x < y \/ y < x \/ x = y
      OBVIOUS
    <3>2. rank[x] \in Int /\ rank[y] \in Int /\ ~(rank[x] < rank[y]) /\ ~(rank[y] < rank[x])
      BY <1>2, <2>2
    <3>3. ~(x < y) /\ ~(y < x)
      BY <1>3, <3>2
    <3> QED BY <3>1, <3>3
  <2> HIDE DEF rank, Places
  <2>3. DOMAIN rank = S
    BY <2>1
  <2> QED BY <2>1, <2>2, <2>3 DEF Injection, IsInjective
<1>5. IsFiniteSet(Places) /\ Cardinality(Places) = Cardinality(S)
  <2>1. Cardinality(S) - 1 \in Int /\ (Cardinality(S) - 1) - 0 + 1 = Cardinality(S)
        /\ (0 > Cardinality(S) - 1 => Cardinality(S) = 0)
    BY <1>1
  <2>2. IsFiniteSet(Places)
        /\ Cardinality(Places) = IF 0 > Cardinality(S) - 1 THEN 0 ELSE (Cardinality(S) - 1) - 0 + 1
    BY <2>1, FS_Interval
  <2> QED BY <2>1, <2>2
<1>6. rank \in Surjection(S, Places)
  <2> HIDE DEF rank, Places
  <2> QED BY <1>4, <1>5, FS_Injection
<1>7. \A r \in Places : \E x \in S : rank[x] = r
  <2> HIDE DEF rank, Places
  <2> QED BY <1>6 DEF Surjection
<1> QED BY <1>1, <1>2, <1>3, <1>7

\* The numbers of a finite set are put in order, each once.
LEMMA AscendingOnce ==
  ASSUME NEW S, S \subseteq Int, IsFiniteSet(S)
  PROVE  /\ Cardinality(S) \in Nat
         /\ Ascending(S) \in [1 .. Cardinality(S) -> S]
         /\ Ascending(S) \in Bijection(1 .. Cardinality(S), S)
         /\ \A x, y \in 1 .. Cardinality(S) : x < y => Ascending(S)[x] < Ascending(S)[y]
<1> DEFINE a == Ascending(S)
           N == Cardinality(S)
<1>1. N \in Nat /\ \A x \in 1 .. N : x \in Nat /\ x - 1 \in 0 .. N - 1
  <2>1. N \in Nat
    BY RanksAreThePlaces
  <2> HIDE DEF N
  <2> QED BY <2>1
<1>2. a = [x \in 1 .. N |-> CHOOSE k \in S : Cardinality(Below(S, k)) = x - 1]
  BY DEF Ascending, Below
<1>3. \A x \in 1 .. N : \E k \in S : Cardinality(Below(S, k)) = x - 1
  BY <1>1, RanksAreThePlaces
<1>4. \A x \in 1 .. N : a[x] \in S /\ Cardinality(Below(S, a[x])) = x - 1
  BY <1>2, <1>3
<1>5. a \in [1 .. N -> S]
  BY <1>2, <1>3
<1> HIDE DEF a, N
<1>6. ASSUME NEW x \in 1 .. N, NEW y \in 1 .. N, x < y PROVE a[x] < a[y]
  <2>1. x \in Int /\ y \in Int /\ x - 1 < y - 1 /\ ~(y - 1 < x - 1) /\ x - 1 # y - 1
    BY <1>1, <1>6
  <2>4. a[x] \in Int /\ a[y] \in Int
    BY <1>4
  <2>2. a[y] < a[x] => y - 1 < x - 1
    BY <1>4, RanksAreThePlaces
  <2>3. a[y] = a[x] => y - 1 = x - 1
    BY <1>4
  <2> QED BY <2>1, <2>2, <2>3, <2>4
<1>7. ASSUME NEW x \in 1 .. N, NEW y \in 1 .. N, a[x] = a[y] PROVE x = y
  <2>1. x - 1 = y - 1 /\ x \in Int /\ y \in Int
    BY <1>1, <1>4, <1>7
  <2> QED BY <2>1
<1>8. ASSUME NEW k \in S PROVE \E x \in 1 .. N : a[x] = k
  <2> DEFINE r == Cardinality(Below(S, k))
  <2>1. r \in 0 .. N - 1
    BY RanksAreThePlaces DEF N
  <2>2. r + 1 \in 1 .. N /\ (r + 1) - 1 = r
    BY <1>1, <2>1
  <2>3. Cardinality(Below(S, a[r + 1])) = r /\ a[r + 1] \in S
    BY <1>4, <2>2
  <2>4. ~(a[r + 1] < k) /\ ~(k < a[r + 1])
    <3>1. \A x, y \in S : x < y => Cardinality(Below(S, x)) < Cardinality(Below(S, y))
      BY RanksAreThePlaces
    <3>2. r \in Int /\ ~(r < r)
      BY <2>1
    <3> QED BY <2>3, <3>1, <3>2
  <2>5. a[r + 1] = k
    <3>1. a[r + 1] \in Int /\ k \in Int
      BY <2>3
    <3> QED BY <2>4, <3>1
  <2> QED BY <2>2, <2>5
<1>9. DOMAIN a = 1 .. N
  BY <1>5
<1>10. a \in Bijection(1 .. N, S)
  <2>1. a \in Injection(1 .. N, S)
    BY <1>5, <1>7, <1>9 DEF Injection, IsInjective
  <2>2. a \in Surjection(1 .. N, S)
    BY <1>5, <1>8 DEF Surjection
  <2> QED BY <2>1, <2>2 DEF Bijection
<1> QED BY <1>1, <1>5, <1>6, <1>10 DEF a, N

=============================================================================
