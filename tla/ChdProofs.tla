----------------------------- MODULE ChdProofs -----------------------------
(***************************************************************************)
(* Theorems about Chd for every sequence of keys, every hash function and  *)
(* every number of probes: a bin has exactly the keys of the buckets that  *)
(* have been placed and never more than it has room for, and what CHD      *)
(* cannot close up.                                                        *)
(***************************************************************************)
EXTENDS ChdConstruction, InductionLemmas, FiniteSetTheorems

---------------------------------------------------------------------------
(* The numbers that a configuration gives, and the items of a key. *)

\* What cmph_new is called with.
Configuration ==
  /\ keys \in KeySources /\ algo \in {"chd", "chd_ph"}
  /\ c \in Nat /\ b \in 1 .. 14 /\ keys_per_bin \in 1 .. 127

LEMMA Quotient ==
  ASSUME NEW x \in Nat, NEW d \in Nat \ {0}
  PROVE  x \div d \in Nat /\ (x \div d) * d <= x /\ x % d \in 0 .. d - 1
OBVIOUS

LEMMA Numbers ==
  ASSUME Configuration
  PROVE  /\ m \in Nat \ {0} /\ keys \in Seq(ToSet(keys)) /\ DOMAIN keys = 1 .. m
         /\ nbuckets \in Nat \ {0} /\ max_probes \in Nat
<1>1. keys \in Seq(ToSet(keys)) /\ keys # <<>> /\ MaxProbes(Len(keys)) \in Nat
  BY ConstructionAssumption DEF Configuration
<1>2. m \in Nat \ {0} /\ DOMAIN keys = 1 .. m
  BY <1>1, EmptySeq, LenProperties DEF m
<1>3. m \div b \in Nat
  <2>1. b \in Nat \ {0}
    BY DEF Configuration
  <2> QED BY <1>2, <2>1, Quotient
<1> QED BY <1>1, <1>2, <1>3 DEF nbuckets, max_probes, m

LEMMA BinsNeeded ==
  ASSUME Configuration
  PROVE  bins_needed \in Nat \ {0, 1}
<1> DEFINE per == keys_per_bin * load_factor
           enough == {p \in Primes : p > (100 * m) \div per}
<1>1. load_factor \in Nat /\ load_factor >= 50
  <2> DEFINE most == Min({99, c})
  <2>1. most \in Nat
    <3>1. \E x \in {99, c} : \A y \in {99, c} : x <= y
      BY DEF Configuration
    <3>2. most \in {99, c}
      BY <3>1 DEF Min
    <3> QED BY <3>2 DEF Configuration
  <2> HIDE DEF most
  <2>2. \E x \in {50, most} : \A y \in {50, most} : x >= y
    BY <2>1
  <2>3. Max({50, most}) \in {50, most} /\ Max({50, most}) >= 50
    BY <2>2 DEF Max
  <2>4. load_factor = Max({50, most})
    BY DEF load_factor, most
  <2> QED BY <2>1, <2>3, <2>4
<1>2. per \in Nat /\ per >= 50
  <2>1. keys_per_bin \in Nat /\ keys_per_bin >= 1
    BY DEF Configuration
  <2>2. \A k, l \in Nat : k >= 1 /\ l >= 50 => k * l >= 50 /\ k * l \in Nat
    OBVIOUS
  <2> QED BY <1>1, <2>1, <2>2
<1> HIDE DEF per
<1>3. m \in Nat
  BY Numbers
<1>4. (100 * m) \div per <= 2 * m /\ (100 * m) \div per \in Nat
  <2> DEFINE q == (100 * m) \div per
  <2>1. q \in Nat /\ q * per <= 100 * m
    <3>1. 100 * m \in Nat /\ per \in Nat \ {0}
      BY <1>2, <1>3
    <3> QED BY <3>1, Quotient
  <2> HIDE DEF q
  <2>2. \A k, l \in Nat : l >= 50 => k * 50 <= k * l
    OBVIOUS
  <2>3. q * 50 <= q * per
    BY <1>2, <2>1, <2>2
  <2>4. q * per \in Nat
    BY <1>2, <2>1
  <2>5. q * 50 <= 100 * m
    BY <1>3, <2>1, <2>3, <2>4
  <2>6. q <= 2 * m
    BY <1>3, <2>1, <2>5
  <2> QED BY <2>1, <2>6 DEF q
<1>5. enough # {} /\ enough \subseteq Nat \ {0, 1}
  <2>1. PICK p \in Primes : p > 2 * Len(keys)
    BY ConstructionAssumption DEF Configuration
  <2>2. p \in Nat /\ p > 2 * m
    BY <2>1, ChdAssumption DEF m
  <2>3. p > (100 * m) \div per
    BY <1>3, <1>4, <2>2
  <2> QED BY <2>1, <2>3, ChdAssumption
<1> HIDE DEF enough
<1>6. \E x \in enough : \A y \in enough : x <= y
  BY <1>5, LeastElement
<1>7. Min(enough) \in enough
  BY <1>6 DEF Min
<1>8. bins_needed = Min(enough)
  BY DEF bins_needed, enough, per
<1> QED BY <1>5, <1>7, <1>8

\* The lines that hash_vector can give for so many buckets and bins.
ItemsFor(buckets, bins) == [g : 0 .. buckets - 1, f : 0 .. bins - 1, h : 1 .. bins - 1]

LEMMA ItemTyped ==
  ASSUME NEW v \in Nat \X Nat \X Nat, NEW buckets \in Nat \ {0}, NEW bins \in Nat \ {0, 1}
  PROVE  Item(v, buckets, bins) \in ItemsFor(buckets, bins)
<1>1. v[1] \in Nat /\ v[2] \in Nat /\ v[3] \in Nat
  OBVIOUS
<1>2. bins \in Nat \ {0} /\ bins - 1 \in Nat \ {0}
  OBVIOUS
<1>3. v[1] % buckets \in 0 .. buckets - 1 /\ v[2] % bins \in 0 .. bins - 1
  BY <1>1, <1>2, Quotient
<1>4. v[3] % (bins - 1) \in 0 .. (bins - 1) - 1
  BY <1>1, <1>2, Quotient
<1>5. (v[3] % (bins - 1)) + 1 \in 1 .. bins - 1
  BY <1>2, <1>4
<1> QED BY <1>3, <1>5 DEF Item, ItemsFor

LEMMA PositionIsABin ==
  ASSUME NEW buckets \in Nat, NEW bins \in Nat \ {0, 1}, NEW item \in ItemsFor(buckets, bins),
         NEW p \in Nat, NEW q \in Nat
  PROVE  Position(item, p, q, bins) \in 0 .. bins - 1
<1>1. item.f \in Nat /\ item.h \in Nat
  BY DEF ItemsFor
<1>2. item.h * p \in Nat
  BY <1>1
<1>3. item.f + item.h * p + q \in Nat
  BY <1>1, <1>2
<1> QED BY <1>3, Quotient DEF Position

\* A displacement is the probe it was made of.
LEMMA ProbeOfADisplacement ==
  ASSUME NEW bins \in Nat \ {0}, NEW p \in 0 .. bins - 1, NEW q \in Nat
  PROVE  (p + q * bins) % bins = p /\ (p + q * bins) \div bins = q
<1> DEFINE d == p + q * bins
           r == d % bins
           t == d \div bins
<1>1. p \in Nat /\ q * bins \in Nat /\ d \in Nat
  OBVIOUS
<1>2. r \in 0 .. bins - 1 /\ t \in Nat /\ d = t * bins + r
  <2> HIDE DEF d
  <2> QED BY <1>1
<1>3. p + q * bins = t * bins + r
  BY <1>2
<1> HIDE DEF r, t
<1>4. \A k, l, o \in Nat : k < l => k * o + o <= l * o
  OBVIOUS
<1>5. ~(q < t) /\ ~(t < q)
  <2>1. q * bins \in Nat /\ t * bins \in Nat
    BY <1>2
  <2>2. q < t => q * bins + bins <= t * bins
    BY <1>2, <1>4
  <2>3. t < q => t * bins + bins <= q * bins
    BY <1>2, <1>4
  <2> QED BY <1>1, <1>2, <1>3, <2>1, <2>2, <2>3
<1>6. q = t
  BY <1>2, <1>5
<1>7. p = r
  BY <1>1, <1>2, <1>3, <1>6
<1> QED BY <1>6, <1>7 DEF r, t, d
---------------------------------------------------------------------------
(* Counting by the places of a sequence, and by what is at them. *)

\* As many places as there are elements, when each has one of its own.
LEMMA CountThrough ==
  ASSUME NEW N \in Nat, NEW T, NEW a \in Bijection(1 .. N, T), NEW B \in SUBSET T,
         NEW A \in SUBSET (1 .. N), \A k \in 1 .. N : k \in A <=> a[k] \in B
  PROVE  Cardinality(A) = Cardinality(B)
<1> DEFINE h == [k \in A |-> a[k]]
<1>1. /\ a \in [1 .. N -> T] /\ \A x, y \in 1 .. N : a[x] = a[y] => x = y
      /\ \A t \in T : \E k \in 1 .. N : a[k] = t
  BY DEF Bijection, Injection, Surjection, IsInjective
<1>2. h \in [A -> B] /\ DOMAIN h = A
  OBVIOUS
<1>3. \A x, y \in A : h[x] = h[y] => x = y
  <2>1. \A x \in A : h[x] = a[x] /\ x \in 1 .. N
    OBVIOUS
  <2> QED BY <1>1, <2>1
<1>4. \A t \in B : \E k \in A : h[k] = t
  <2> SUFFICES ASSUME NEW t \in B PROVE \E k \in A : h[k] = t
    OBVIOUS
  <2>1. PICK k \in 1 .. N : a[k] = t
    BY <1>1
  <2> QED BY <2>1
<1>5. IsFiniteSet(A)
  BY FS_Interval, FS_Subset, A \in SUBSET (1 .. N), 1 \in Int, N \in Int
<1> HIDE DEF h
<1>6. h \in Bijection(A, B)
  BY <1>2, <1>3, <1>4 DEF Bijection, Injection, Surjection, IsInjective
<1>7. IsFiniteSet(B) /\ Cardinality(B) = Cardinality(A)
  BY <1>5, <1>6, FS_Bijection DEF ExistsBijection
<1> QED BY <1>7

\* The places of a value in a sequence of so many elements.
Places(bins, L, bin) == {x \in 1 .. L : bins[x] = bin}

LEMMA PlacesAreFinite ==
  ASSUME NEW bins, NEW L \in Nat, NEW bin
  PROVE  IsFiniteSet(Places(bins, L, bin)) /\ Cardinality(Places(bins, L, bin)) \in Nat
<1>1. IsFiniteSet(1 .. L) /\ Places(bins, L, bin) \in SUBSET (1 .. L)
  BY FS_Interval DEF Places
<1> QED BY <1>1, FS_Subset, FS_CardinalityType

\* What Counted makes of a bin.
LEMMA CountedOf ==
  ASSUME NEW S, NEW table \in [S -> Int], NEW L \in Nat, NEW bins, DOMAIN bins = 1 .. L,
         NEW by \in Int
  PROVE  /\ Counted(table, bins, by) \in [S -> Int]
         /\ \A bin \in S :
              Counted(table, bins, by)[bin] = table[bin] + by * Cardinality(Places(bins, L, bin))
<1>1. \A bin \in S : Cardinality(Places(bins, L, bin)) \in Int
  BY PlacesAreFinite
<1>2. Counted(table, bins, by) =
        [bin \in S |-> table[bin] + by * Cardinality(Places(bins, L, bin))]
  BY DEF Counted, Quantify, Places
<1>3. \A bin \in S : table[bin] + by * Cardinality(Places(bins, L, bin)) \in Int
  BY <1>1
<1> QED BY <1>2, <1>3

\* What was counted and is taken out again leaves no trace.
LEMMA UndoneLeavesNoTrace ==
  ASSUME NEW S, occup_table \in [S -> Int], NEW L \in Nat, NEW bins, DOMAIN bins = 1 .. L
  PROVE  Undone(bins) = occup_table
<1> DEFINE more == Counted(occup_table, bins, 1)
           less == Counted(more, bins, -1)
<1>1. /\ more \in [S -> Int]
      /\ \A bin \in S :
           more[bin] = occup_table[bin] + 1 * Cardinality(Places(bins, L, bin))
  BY CountedOf
<1> HIDE DEF more
<1>2. /\ less \in [S -> Int]
      /\ \A bin \in S : less[bin] = more[bin] + (-1) * Cardinality(Places(bins, L, bin))
  BY <1>1, CountedOf
<1>3. \A k \in Nat, l \in Int : (l + 1 * k) + (-1) * k = l
  OBVIOUS
<1>4. \A bin \in S : less[bin] = occup_table[bin]
  BY <1>1, <1>2, <1>3, PlacesAreFinite
<1>5. Undone(bins) = less
  BY DEF Undone, more
<1> HIDE DEF less
<1> QED BY <1>2, <1>4, <1>5

\* Bins that are all placeable have room for all the keys at once.
LEMMA PlaceableFits ==
  ASSUME NEW S, occup_table \in [S -> Nat], keys_per_bin \in Nat,
         \A bin \in S : occup_table[bin] <= keys_per_bin,
         NEW L \in Nat, NEW bins \in [1 .. L -> S]
  PROVE  /\ Len(bins) = L
         /\ Placeable(bins) \in Seq(S) /\ Len(Placeable(bins)) \in 0 .. L
         /\ Len(Placeable(bins)) = L =>
              /\ Placeable(bins) = bins
              /\ \A bin \in S : occup_table[bin] + Cardinality(Places(bins, L, bin)) <= keys_per_bin
<1> DEFINE Room(y) == Counted(occup_table, SubSeq(bins, 1, y - 1), 1)[bins[y]] < keys_per_bin
           Fit == {x \in 0 .. L : \A y \in 1 .. x : Room(y)}
<1>1. Len(bins) = L /\ bins \in Seq(S)
  OBVIOUS
<1>2. Placeable(bins) = SubSeq(bins, 1, Max(Fit))
  BY <1>1 DEF Placeable
<1>3. Max(Fit) \in Fit
  <2>1. Fit \subseteq Nat /\ 0 \in Fit /\ \A y \in Fit : y <= L
    <3> HIDE DEF Room
    <3> QED OBVIOUS
  <2> HIDE DEF Fit
  <2> QED BY <2>1, GreatestElement
<1> DEFINE last == Max(Fit)
<1>4. last \in 0 .. L /\ \A y \in 1 .. last : Room(y)
  <2> HIDE DEF Room
  <2> QED BY <1>3
<1> HIDE DEF last, Fit
<1>5. Placeable(bins) \in Seq(S) /\ Len(Placeable(bins)) = last
      /\ \A x \in 1 .. last : Placeable(bins)[x] = bins[x]
  <2>1. \A x \in 1 .. last : bins[x] \in S
    BY <1>4
  <2>2. last \in Int /\ 1 \in Int
    BY <1>4
  <2>3. /\ SubSeq(bins, 1, last) \in Seq(S)
        /\ Len(SubSeq(bins, 1, last)) = IF 1 <= last THEN last - 1 + 1 ELSE 0
        /\ \A x \in 1 .. last - 1 + 1 : SubSeq(bins, 1, last)[x] = bins[1 + x - 1]
    BY <2>1, <2>2, SubSeqProperties
  <2>4. (IF 1 <= last THEN last - 1 + 1 ELSE 0) = last /\ last - 1 + 1 = last
    BY <1>4
  <2>5. \A x \in 1 .. last : 1 + x - 1 = x
    BY <2>2
  <2>6. Placeable(bins) = SubSeq(bins, 1, last)
    BY <1>2 DEF last
  <2> QED BY <2>3, <2>4, <2>5, <2>6
<1>6. ASSUME last = L PROVE Placeable(bins) = bins
  <2>1. \A x \in 1 .. Len(bins) : Placeable(bins)[x] = bins[x]
    BY <1>1, <1>5, <1>6
  <2>2. Len(Placeable(bins)) = Len(bins)
    BY <1>1, <1>5, <1>6
  <2> QED BY <1>1, <1>5, <2>1, <2>2, SeqEqual
<1>7. ASSUME last = L, NEW bin \in S
      PROVE  occup_table[bin] + Cardinality(Places(bins, L, bin)) <= keys_per_bin
  <2> DEFINE P == Places(bins, L, bin)
  <2>1. CASE P = {}
    <3>1. Cardinality(P) = 0
      BY <2>1, FS_EmptySet
    <3> HIDE DEF P
    <3>2. occup_table[bin] + Cardinality(P) = occup_table[bin]
      BY <3>1
    <3> QED BY <3>2 DEF P
  <2>2. CASE P # {}
    <3>1. PICK y \in P : \A x \in P : x <= y
      <4>1. P \subseteq Nat /\ \A x \in P : x <= L
        BY DEF Places
      <4> HIDE DEF P
      <4> QED BY <2>2, <4>1, GreatestOf
    <3>2. y \in 1 .. L /\ bins[y] = bin
      BY <3>1 DEF Places
    <3> DEFINE front == SubSeq(bins, 1, y - 1)
               Q == Places(front, y - 1, bin)
    <3>3. DOMAIN front = 1 .. y - 1 /\ \A x \in 1 .. y - 1 : front[x] = bins[x]
      <4>1. \A x \in 1 .. y - 1 : bins[x] \in S
        BY <3>2
      <4>2. y - 1 \in Int /\ 1 \in Int /\ y - 1 \in Nat
        BY <3>2
      <4>3. /\ front \in Seq(S)
            /\ Len(front) = IF 1 <= y - 1 THEN (y - 1) - 1 + 1 ELSE 0
            /\ \A x \in 1 .. (y - 1) - 1 + 1 : front[x] = bins[1 + x - 1]
        BY <4>1, <4>2, SubSeqProperties
      <4> HIDE DEF front
      <4>4. (IF 1 <= y - 1 THEN (y - 1) - 1 + 1 ELSE 0) = y - 1 /\ (y - 1) - 1 + 1 = y - 1
        BY <4>2
      <4>5. \A x \in 1 .. y - 1 : 1 + x - 1 = x
        BY <4>2
      <4> QED BY <4>3, <4>4, <4>5, LenProperties
    <3> HIDE DEF front
    <3>4. P = Q \cup {y} /\ y \notin Q
      <4>1. \A x \in P : x = y \/ x \in 1 .. y - 1
        <5>1. \A x \in P : x \in 1 .. L /\ x <= y
          BY <3>1 DEF Places
        <5> HIDE DEF P
        <5> QED BY <3>2, <5>1
      <4>2. \A x \in 1 .. y - 1 : x \in P <=> x \in Q
        <5>1. \A x \in 1 .. y - 1 : x \in 1 .. L
          BY <3>2
        <5> QED BY <3>3, <5>1 DEF Places
      <4>3. Q \subseteq 1 .. y - 1
        BY DEF Places
      <4>4. y \notin 1 .. y - 1
        BY <3>2
      <4> HIDE DEF P, Q
      <4> QED BY <3>1, <4>1, <4>2, <4>3, <4>4
    <3>5. y - 1 \in Nat
      BY <3>2
    <3>6. IsFiniteSet(Q) /\ Cardinality(Q) \in Nat
      BY <3>5, PlacesAreFinite
    <3>7. Cardinality(P) = Cardinality(Q) + 1
      <4> HIDE DEF P, Q
      <4> QED BY <3>4, <3>6, FS_AddElement
    <3>8. Counted(occup_table, front, 1)[bin] = occup_table[bin] + 1 * Cardinality(Q)
      <4>1. occup_table \in [S -> Int]
        OBVIOUS
      <4> QED BY <3>3, <3>5, <4>1, CountedOf
    <3>9. Counted(occup_table, front, 1)[bin] < keys_per_bin
      <4>1. y \in 1 .. last
        BY <1>7, <3>2
      <4> QED BY <1>4, <3>2, <4>1 DEF front
    <3>10. occup_table[bin] \in Nat
      OBVIOUS
    <3> HIDE DEF P, Q
    <3>11. occup_table[bin] + 1 * Cardinality(Q) < keys_per_bin
      BY <3>8, <3>9
    <3>12. occup_table[bin] + Cardinality(P) <= keys_per_bin
      BY <3>6, <3>7, <3>10, <3>11
    <3> QED BY <3>12 DEF P
  <2> QED BY <2>1, <2>2
<1> QED BY <1>1, <1>4, <1>5, <1>6, <1>7
---------------------------------------------------------------------------
(* The items of a bucket. *)

Own(its, bucket) == {x \in 1 .. m : its[x].g = bucket}
Members(bucket) == Own(items, bucket)

\* The buckets of so many keys.
OfSize(s) == {bucket \in Buckets : Cardinality(Members(bucket)) = s}

LEMMA MembersAreFinite ==
  ASSUME m \in Nat, NEW bucket
  PROVE  /\ IsFiniteSet(Members(bucket)) /\ Members(bucket) \subseteq 1 .. m
         /\ Cardinality(Members(bucket)) \in 0 .. m
<1>1. IsFiniteSet(1 .. m) /\ Cardinality(1 .. m) = m
  <2>1. (IF 1 > m THEN 0 ELSE m - 1 + 1) = m
    OBVIOUS
  <2>2. 1 \in Int /\ m \in Int
    OBVIOUS
  <2> QED BY <2>1, <2>2, FS_Interval
<1>2. Members(bucket) \in SUBSET (1 .. m)
  BY DEF Members, Own
<1>3. IsFiniteSet(Members(bucket)) /\ Cardinality(Members(bucket)) <= m
  BY <1>1, <1>2, FS_Subset
<1>4. Cardinality(Members(bucket)) \in Nat
  BY <1>3, FS_CardinalityType
<1> QED BY <1>2, <1>3, <1>4

\* InBucket gives each of them once.
LEMMA InBucketOnce ==
  ASSUME m \in Nat, NEW its, DOMAIN its = 1 .. m, NEW bucket
  PROVE  /\ IsFiniteSet(Own(its, bucket)) /\ Cardinality(Own(its, bucket)) \in 0 .. m
         /\ Ascending(Own(its, bucket))
              \in Bijection(1 .. Cardinality(Own(its, bucket)), Own(its, bucket))
         /\ InBucket(its, bucket) =
              [x \in 1 .. Cardinality(Own(its, bucket)) |-> its[Ascending(Own(its, bucket))[x]]]
         /\ Len(InBucket(its, bucket)) = Cardinality(Own(its, bucket))
<1> DEFINE own == Own(its, bucket)
           place == Ascending(own)
           N == Cardinality(own)
<1>1. IsFiniteSet(1 .. m) /\ Cardinality(1 .. m) = m
  <2>1. (IF 1 > m THEN 0 ELSE m - 1 + 1) = m
    OBVIOUS
  <2>2. 1 \in Int /\ m \in Int
    OBVIOUS
  <2> QED BY <2>1, <2>2, FS_Interval
<1>2. own \in SUBSET (1 .. m)
  BY DEF Own
<1>3. InBucket(its, bucket) = [x \in DOMAIN place |-> its[place[x]]]
  BY DEF InBucket, Own
<1> HIDE DEF own
<1>4. IsFiniteSet(own) /\ N <= m
  <2>1. IsFiniteSet(own) /\ Cardinality(own) <= Cardinality(1 .. m)
    BY <1>1, <1>2, FS_Subset
  <2> QED BY <1>1, <2>1
<1>5. N \in Nat
  BY <1>4, FS_CardinalityType
<1>6. own \subseteq Int
  BY <1>2
<1>7. place \in [1 .. N -> own] /\ place \in Bijection(1 .. N, own)
  BY <1>4, <1>6, AscendingOnce
<1> HIDE DEF place, N
<1>8. InBucket(its, bucket) = [x \in 1 .. N |-> its[place[x]]]
  BY <1>3, <1>7
<1>9. Len(InBucket(its, bucket)) = N
  <2> DEFINE q == [x \in 1 .. N |-> its[place[x]]]
  <2>1. q \in Seq({its[x] : x \in own})
    <3>1. \A x \in 1 .. N : its[place[x]] \in {its[z] : z \in own}
      BY <1>7
    <3> QED BY <1>5, <3>1
  <2>2. DOMAIN q = 1 .. N
    OBVIOUS
  <2> HIDE DEF q
  <2>3. Len(q) \in Nat /\ DOMAIN q = 1 .. Len(q)
    BY <2>1, LenProperties
  <2>4. Len(q) = N
    BY <1>5, <2>2, <2>3
  <2> QED BY <1>8, <2>4 DEF q
<1>10. N \in 0 .. m
  BY <1>4, <1>5
<1> QED BY <1>4, <1>7, <1>8, <1>9, <1>10 DEF own, place, N

\* The list of a size has each bucket of the size once.
LEMMA BucketsOfSizeOnce ==
  ASSUME m \in Nat, DOMAIN items = 1 .. m, nbuckets \in Nat, NEW s
  PROVE  /\ BucketsOfSize(s) \in Seq(Buckets) /\ Len(BucketsOfSize(s)) \in 0 .. nbuckets
         /\ BucketsOfSize(s) \in Bijection(1 .. Len(BucketsOfSize(s)), OfSize(s))
<1>1. IsFiniteSet(Buckets) /\ Cardinality(Buckets) = nbuckets
  <2>1. (IF 0 > nbuckets - 1 THEN 0 ELSE (nbuckets - 1) - 0 + 1) = nbuckets
    OBVIOUS
  <2>2. 0 \in Int /\ nbuckets - 1 \in Int
    OBVIOUS
  <2> QED BY <2>1, <2>2, FS_Interval DEF Buckets
<1>2. OfSize(s) \in SUBSET Buckets
  BY DEF OfSize
<1>3. IsFiniteSet(OfSize(s)) /\ Cardinality(OfSize(s)) <= nbuckets
  BY <1>1, <1>2, FS_Subset
<1> DEFINE N == Cardinality(OfSize(s))
           list == Ascending(OfSize(s))
<1>4. BucketsOfSize(s) = list
  <2>1. \A bucket \in Buckets : Len(InBucket(items, bucket)) = Cardinality(Members(bucket))
    BY InBucketOnce DEF Members
  <2>2. {bucket \in Buckets : Len(InBucket(items, bucket)) = s} = OfSize(s)
    BY <2>1 DEF OfSize
  <2> QED BY <2>2 DEF BucketsOfSize
<1>5. OfSize(s) \subseteq Int
  BY <1>2 DEF Buckets
<1>6. N \in Nat /\ list \in [1 .. N -> OfSize(s)] /\ list \in Bijection(1 .. N, OfSize(s))
  BY <1>3, <1>5, AscendingOnce
<1> HIDE DEF list
<1>7. N <= nbuckets
  BY <1>3
<1> HIDE DEF N
<1>8. list \in [1 .. N -> Buckets]
  BY <1>2, <1>6
<1>9. list \in Seq(Buckets) /\ Len(list) = N
  BY <1>6, <1>8
<1> QED BY <1>4, <1>6, <1>7, <1>9

\* The bins that a probe gives to the items of a bucket.
LEMMA BinsOfABucket ==
  ASSUME m \in Nat, nbuckets \in Nat, n \in Nat \ {0, 1},
         items \in [1 .. m -> ItemsFor(nbuckets, n)],
         probe0_num \in Nat, probe1_num \in Nat, NEW bucket
  PROVE  LET L == Cardinality(Members(bucket))
             bins == BinsOf(bucket)
         IN  /\ L \in Nat /\ bins \in [1 .. L -> Bin]
             /\ \A bin \in Bin : Cardinality(Places(bins, L, bin)) =
                  Cardinality({x \in Members(bucket) :
                                 Position(items[x], probe0_num, probe1_num, n) = bin})
<1> DEFINE own == Members(bucket)
           L == Cardinality(own)
           place == Ascending(own)
           its == InBucket(items, bucket)
           bins == BinsOf(bucket)
           At0(x) == Position(items[x], probe0_num, probe1_num, n)
<1>1. /\ IsFiniteSet(own) /\ L \in 0 .. m
      /\ place \in Bijection(1 .. L, own)
      /\ its = [x \in 1 .. L |-> items[place[x]]]
  BY InBucketOnce DEF Members
<1>2. bins = [x \in DOMAIN its |-> Position(its[x], probe0_num, probe1_num, n)]
  BY DEF BinsOf
<1>3. own \subseteq 1 .. m
  BY DEF Members, Own
<1> HIDE DEF own, place, its, bins, L
<1>4. place \in [1 .. L -> own]
  BY <1>1 DEF Bijection, Injection
<1>5. bins = [x \in 1 .. L |-> At0(place[x])]
  BY <1>1, <1>2
<1>6. \A x \in 1 .. m : At0(x) \in Bin
  <2>1. \A x \in 1 .. m : items[x] \in ItemsFor(nbuckets, n)
    OBVIOUS
  <2> QED BY <2>1, PositionIsABin DEF Bin
<1>7. bins \in [1 .. L -> Bin]
  <2>1. \A x \in 1 .. L : place[x] \in 1 .. m
    BY <1>3, <1>4
  <2> HIDE DEF At0
  <2> QED BY <1>5, <1>6, <2>1
<1>8. ASSUME NEW bin \in Bin
      PROVE  Cardinality(Places(bins, L, bin)) = Cardinality({x \in own : At0(x) = bin})
  <2> DEFINE B == {x \in own : At0(x) = bin}
             A == {k \in 1 .. L : place[k] \in B}
  <2>1. B \in SUBSET own /\ L \in Nat
    BY <1>1
  <2>2. Cardinality(A) = Cardinality(B)
    <3>1. place \in Bijection(1 .. L, own)
      BY <1>1
    <3>2. A \in SUBSET (1 .. L) /\ \A k \in 1 .. L : k \in A <=> place[k] \in B
      OBVIOUS
    <3> HIDE DEF A, B
    <3> QED BY <2>1, <3>1, <3>2, CountThrough
  <2>3. \A k \in 1 .. L : place[k] \in B <=> bins[k] = bin
    <3> HIDE DEF At0
    <3> QED BY <1>4, <1>5
  <2>4. A = Places(bins, L, bin)
    <3> HIDE DEF B
    <3> QED BY <2>3 DEF Places
  <2> QED BY <2>2, <2>4
<1> QED BY <1>1, <1>7, <1>8 DEF own, L, bins
---------------------------------------------------------------------------
(* The invariant. *)

\* The states in which buckets have been placed.
Placing == {"searching", "compressing", "closing", "done"}

Began == IF pc = "new" THEN probe0_num = 0 /\ probe1_num = 0 ELSE n \in Nat \ {0, 1}

\* The loops end when their counters reach zero.
Trials ==
  /\ pc \in {"mapping", "ordering", "searching"} => iterations # 0
  /\ pc = "mapping" => mapping_iterations # 0

Emptied == pc \in {"mapping", "ordering"} => \A bin \in Bin : occup_table[bin] = 0

\* No two keys have the same item, and every bucket has a list for its size.
Hashed ==
  pc \in {"ordering"} \cup Placing =>
    /\ items \in [1 .. m -> ItemsFor(nbuckets, n)]
    /\ IsInjective(items)
    /\ \A x, y \in 1 .. m : keys[x] = keys[y] => items[x] = items[y]
    /\ \A bucket \in Buckets : Cardinality(Members(bucket)) <= max_bucket_size

\* The places in the list of buckets that have still to be placed.
Left == 1 .. non_placed_bucket \cup j + 1 .. list_size

\* The lists of the smaller sizes are as they were made; of the buckets of
\* this size those that are left are all different.
Lists ==
  pc \in Placing =>
    /\ i \in 1 .. max_bucket_size
    /\ DOMAIN sorted_lists = 1 .. max_bucket_size
    /\ \A s \in 1 .. max_bucket_size : Len(sorted_lists[s]) <= nbuckets
    /\ \A s \in 1 .. i - 1 : sorted_lists[s] \in Bijection(1 .. Len(sorted_lists[s]), OfSize(s))
    /\ list_size <= Len(sorted_lists[i])
    /\ \A x \in Left : Cardinality(Members(sorted_lists[i][x])) = i
    /\ \A x, y \in Left : sorted_lists[i][x] = sorted_lists[i][y] => x = y
    /\ pc # "searching" => i = 1 /\ list_size = 0

\* A single key has no probe: its bucket is never counted as placed.
SeveralKeys ==
  /\ pc = "searching" /\ m = 1 => list_size # 0
  /\ pc \in Placing \ {"searching"} => m # 1

\* What cmph_size will say.
Size ==
  /\ pc = "closing" => algo = "chd"
  /\ pc = "done" => mphf.size = IF algo = "chd" THEN m ELSE n

IInv ==
  /\ Configuration /\ TypeOK /\ Began /\ Trials /\ Emptied /\ Hashed /\ Lists
  /\ SeveralKeys /\ Size /\ TakenByThePlaced

---------------------------------------------------------------------------
(* Before the search. *)

LEMMA InitGood ==
  Configured => IInv
<1> SUFFICES ASSUME Configured PROVE IInv
  OBVIOUS
<1>1. Configuration
  BY ConstructionAssumption DEF Configured, Configuration
<1>2. m \in Nat \ {0} /\ nbuckets \in Nat \ {0} /\ max_probes \in Nat
  BY <1>1, Numbers
<1>3. pc = "new" /\ pc \notin Placing
  BY DEF Configured, Placing
<1>4. TypeOK
  <2>1. iterations \in 0 .. Iterations /\ mapping_iterations \in 0 .. MappingIterations
    BY ChdAssumption DEF Configured, Init
  <2>2. /\ hl = <<>> /\ max_bucket_size \in 0 .. m /\ i \in 0 .. m
        /\ list_size \in 0 .. nbuckets /\ j \in 0 .. list_size /\ non_placed_bucket \in 0 .. j
        /\ probe_num \in 0 .. max_probes /\ sorted_lists = <<>>
    BY <1>2 DEF Configured, Init
  <2>3. \A s \in DOMAIN sorted_lists : sorted_lists[s] \in Seq(Buckets)
    BY <2>2
  <2> QED BY <1>3, <2>1, <2>2, <2>3 DEF TypeOK
<1>5. Began
  BY <1>3 DEF Began, Configured, Init
<1> QED BY <1>1, <1>3, <1>4, <1>5 DEF IInv, Trials, Emptied, Hashed, Lists, SeveralKeys, Size,
                                     TakenByThePlaced

\* What does not change with the configuration.
LEMMA SameNumbers ==
  ASSUME Configuration, UNCHANGED config
  PROVE  /\ Configuration' /\ keys' = keys /\ algo' = algo /\ keys_per_bin' = keys_per_bin
         /\ m' = m /\ nbuckets' = nbuckets /\ Buckets' = Buckets /\ max_probes' = max_probes
         /\ m \in Nat \ {0} /\ nbuckets \in Nat \ {0} /\ max_probes \in Nat
BY Numbers DEF Configuration, config, m, nbuckets, Buckets, max_probes

LEMMA CalledKeeps ==
  ASSUME IInv, Called
  PROVE  IInv'
<1>1. Configuration /\ UNCHANGED config /\ pc = "new" /\ pc' = "mapping"
  BY DEF IInv, Called
<1>2. /\ Configuration' /\ m' = m /\ nbuckets' = nbuckets /\ Buckets' = Buckets
      /\ max_probes' = max_probes /\ keys' = keys /\ keys_per_bin' = keys_per_bin
      /\ nbuckets \in Nat \ {0}
  BY <1>1, SameNumbers
<1>3. n' \in Nat \ {0, 1} /\ Bin' = 0 .. n' - 1 /\ 0 \in Bin'
  <2>1. n' \in Nat \ {0, 1}
    BY <1>1, BinsNeeded DEF Called
  <2>2. Bin' = 0 .. n' - 1
    BY DEF Bin
  <2>3. \A k \in Nat \ {0, 1} : 0 \in 0 .. k - 1
    OBVIOUS
  <2> QED BY <2>1, <2>2, <2>3
<1>4. occup_table' = [bin \in Bin' |-> 0] /\ disp_table' = [bucket \in Buckets |-> 0]
  BY <1>3 DEF Called
<1>5. TypeOK'
  <2>1. /\ iterations' \in 0 .. Iterations /\ mapping_iterations' \in 0 .. MappingIterations
    BY ChdAssumption DEF Called
  <2>2. occup_table' \in [Bin' -> 0 .. keys_per_bin]
    <3>1. 0 \in 0 .. keys_per_bin
      BY <1>1 DEF Configuration
    <3> QED BY <1>4, <3>1
  <2>3. disp_table' \in [Buckets -> 0 .. n' * n' - 1]
    <3>1. 0 \in 0 .. n' * n' - 1
      <4>1. \A k \in Nat \ {0, 1} : 0 \in 0 .. k * k - 1
        OBVIOUS
      <4> QED BY <1>3, <4>1
    <3> QED BY <1>4, <3>1
  <2>4. probe0_num' \in Bin' /\ probe1_num' \in Bin'
    BY <1>1, <1>3 DEF IInv, Began, Called, probes
  <2>5. /\ hl' = hl /\ max_bucket_size' = max_bucket_size /\ i' = i /\ sorted_lists' = sorted_lists
        /\ list_size' = list_size /\ j' = j /\ non_placed_bucket' = non_placed_bucket
        /\ probe_num' = probe_num
    BY DEF Called, lists, probes
  <2>6. /\ hl = <<>> \/ (hl = hash_state_new(hl.seed) /\ hl.seed \in Seeds(keys))
        /\ max_bucket_size \in 0 .. m /\ i \in 0 .. m
        /\ \A s \in DOMAIN sorted_lists : sorted_lists[s] \in Seq(Buckets)
        /\ list_size \in 0 .. nbuckets /\ j \in 0 .. list_size /\ non_placed_bucket \in 0 .. j
        /\ probe_num \in 0 .. max_probes
    BY DEF IInv, TypeOK
  <2> QED BY <1>1, <1>2, <2>1, <2>2, <2>3, <2>4, <2>5, <2>6 DEF TypeOK
<1>6. Began' /\ Trials'
  BY <1>1, <1>3, ChdAssumption DEF Began, Trials, Called
<1>7. Emptied'
  BY <1>4 DEF Emptied
<1>8. Hashed' /\ Lists' /\ SeveralKeys' /\ Size' /\ TakenByThePlaced'
  BY <1>1 DEF Hashed, Lists, SeveralKeys, Size, TakenByThePlaced, Placing
<1> QED BY <1>2, <1>5, <1>6, <1>7, <1>8 DEF IInv
LEMMA MappingKeeps ==
  ASSUME IInv, chd_ph_mapping
  PROVE  IInv'
<1>1. Configuration /\ UNCHANGED config /\ pc = "mapping" /\ n' = n /\ n \in Nat \ {0, 1}
  BY DEF IInv, chd_ph_mapping, Began
<1>2. /\ Configuration' /\ m' = m /\ nbuckets' = nbuckets /\ Buckets' = Buckets /\ Bin' = Bin
      /\ max_probes' = max_probes /\ keys' = keys /\ keys_per_bin' = keys_per_bin
      /\ nbuckets \in Nat \ {0} /\ m \in Nat \ {0}
  BY <1>1, SameNumbers DEF Bin
<1>3. PICK seed \in Seeds(keys) :
        LET state == hash_state_new(seed)
            its == [x \in 1 .. m |-> Item(hash(state, keys[x]), nbuckets, n)]
        IN  /\ max_bucket_size' =
                 Max({max_bucket_size} \cup {Len(InBucket(its, bucket)) : bucket \in Buckets})
            /\ IF IsInjective(its)
                 THEN hl' = state /\ items' = its /\ pc' = "ordering"
                 ELSE /\ hl' = <<>> /\ items' = <<>>
                      /\ pc' = IF mapping_iterations = 1 THEN "failed" ELSE "mapping"
  BY DEF chd_ph_mapping
<1> DEFINE state == hash_state_new(seed)
           its == [x \in 1 .. m |-> Item(hash(state, keys[x]), nbuckets, n)]
           Lengths == {max_bucket_size} \cup {Len(InBucket(its, bucket)) : bucket \in Buckets}
<1>4. its \in [1 .. m -> ItemsFor(nbuckets, n)]
  <2>1. seed \in [ToSet(keys) -> Nat \X Nat \X Nat]
    BY <1>1, ConstructionAssumption DEF Configuration
  <2>2. \A x \in 1 .. m : keys[x] \in ToSet(keys)
    BY <1>1, Numbers DEF ToSet
  <2>3. \A key : hash(state, key) = seed[key]
    BY DEF hash, hash_state_new
  <2>4. \A x \in 1 .. m : hash(state, keys[x]) \in Nat \X Nat \X Nat
    BY <2>1, <2>2, <2>3
  <2> HIDE DEF state
  <2> QED BY <1>1, <1>2, <2>4, ItemTyped
<1>5. \A x, y \in 1 .. m : keys[x] = keys[y] => its[x] = its[y]
  OBVIOUS
<1>6. hl' = <<>> \/ (hl' = hash_state_new(hl'.seed) /\ hl'.seed \in Seeds(keys))
  <2>1. state.seed = seed
    BY DEF hash_state_new
  <2> QED BY <1>3, <2>1
<1>7. max_bucket_size' = Max(Lengths) /\ pc' \in {"ordering", "failed", "mapping"}
      /\ (pc' = "ordering" => IsInjective(its) /\ items' = its)
      /\ (pc' = "mapping" => mapping_iterations # 1)
  <2> HIDE DEF its, state
  <2> QED BY <1>3 DEF its, state
<1> HIDE DEF its, state
<1>8. \A bucket : Len(InBucket(its, bucket)) = Cardinality(Own(its, bucket))
                  /\ Len(InBucket(its, bucket)) \in 0 .. m
  <2>1. m \in Nat /\ DOMAIN its = 1 .. m
    BY <1>2, <1>4
  <2> QED BY <2>1, InBucketOnce
<1>9. max_bucket_size' \in 0 .. m
      /\ \A bucket \in Buckets : Len(InBucket(its, bucket)) <= max_bucket_size'
  <2>1. max_bucket_size \in 0 .. m
    BY DEF IInv, TypeOK
  <2>2. Lengths \subseteq 0 .. m /\ Lengths # {}
    BY <1>8, <2>1
  <2>3. Lengths \subseteq Nat /\ m \in Nat /\ \A y \in Lengths : y <= m
    <3> HIDE DEF Lengths
    <3> QED BY <1>2, <2>2
  <2>4. Max(Lengths) \in Lengths /\ \A y \in Lengths : y <= Max(Lengths)
    <3> HIDE DEF Lengths
    <3> QED BY <2>2, <2>3, GreatestOf
  <2>5. \A bucket \in Buckets : Len(InBucket(its, bucket)) \in Lengths
    OBVIOUS
  <2> HIDE DEF Lengths
  <2> QED BY <1>7, <2>2, <2>4, <2>5
<1>10. /\ iterations' = iterations /\ mapping_iterations' = mapping_iterations - 1
       /\ sorted_lists' = sorted_lists /\ i' = i /\ list_size' = list_size /\ j' = j
       /\ non_placed_bucket' = non_placed_bucket /\ probe_num' = probe_num
       /\ probe0_num' = probe0_num /\ probe1_num' = probe1_num
       /\ occup_table' = occup_table /\ disp_table' = disp_table
  BY DEF chd_ph_mapping, probes
<1>11. mapping_iterations \in 1 .. MappingIterations /\ iterations # 0
  BY <1>1, ChdAssumption DEF IInv, Trials, TypeOK
<1>12. TypeOK'
  <2>1. mapping_iterations' \in 0 .. MappingIterations
    BY <1>10, <1>11, ChdAssumption
  <2>2. pc' \in {"new", "mapping", "ordering", "searching", "compressing", "closing", "done",
                "failed", "aborted"}
    BY <1>7
  <2>3. /\ iterations \in 0 .. Iterations /\ i \in 0 .. m
        /\ \A s \in DOMAIN sorted_lists : sorted_lists[s] \in Seq(Buckets)
        /\ list_size \in 0 .. nbuckets /\ j \in 0 .. list_size /\ non_placed_bucket \in 0 .. j
        /\ probe_num \in 0 .. max_probes
        /\ probe0_num \in Bin /\ probe1_num \in Bin
        /\ occup_table \in [Bin -> 0 .. keys_per_bin]
        /\ disp_table \in [Buckets -> 0 .. n * n - 1]
    BY <1>1 DEF IInv, TypeOK
  <2> QED BY <1>1, <1>2, <1>6, <1>9, <1>10, <2>1, <2>2, <2>3 DEF TypeOK
<1>13. Began' /\ Trials'
  <2>1. pc' = "mapping" => mapping_iterations' # 0
    BY <1>7, <1>10, <1>11
  <2> QED BY <1>1, <1>7, <1>10, <1>11, <2>1 DEF Began, Trials
<1>14. Emptied'
  BY <1>1, <1>2, <1>10 DEF IInv, Emptied
<1>15. Hashed'
  <2> SUFFICES ASSUME pc' = "ordering"
               PROVE  /\ its \in [1 .. m -> ItemsFor(nbuckets, n)]
                      /\ IsInjective(its)
                      /\ \A x, y \in 1 .. m : keys[x] = keys[y] => its[x] = its[y]
                      /\ \A bucket \in Buckets : Cardinality(Own(its, bucket)) <= max_bucket_size'
    <3>1. pc' \notin Placing
      BY <1>7 DEF Placing
    <3>2. pc' = "ordering" => items' = its
      BY <1>7
    <3>3. Own(its, 0)' = Own(its, 0)' /\ \A bucket : Members(bucket)' = Own(items', bucket)
      BY <1>2 DEF Members, Own
    <3> QED BY <1>1, <1>2, <3>1, <3>2, <3>3 DEF Hashed
  <2> QED BY <1>4, <1>5, <1>7, <1>8, <1>9
<1>16. Lists' /\ SeveralKeys' /\ Size' /\ TakenByThePlaced'
  BY <1>7 DEF Lists, SeveralKeys, Size, TakenByThePlaced, Placing
<1> QED BY <1>2, <1>12, <1>13, <1>14, <1>15, <1>16 DEF IInv

\* What the lists still hold: the buckets of the smaller sizes, and those
\* that are left of this one.
SmallerIn(lsts, size) == UNION {ToSet(lsts[s]) : s \in 1 .. size - 1}
WaitingIn(lsts, size, left) == SmallerIn(lsts, size) \cup {lsts[size][x] : x \in left}

LEMMA WaitingAre ==
  ASSUME NEW lsts, NEW size \in Nat, NEW left, m \in Nat,
         \A s \in 1 .. size - 1 : lsts[s] \in Bijection(1 .. Len(lsts[s]), OfSize(s))
  PROVE  WaitingIn(lsts, size, left) =
           {bucket \in Buckets : Cardinality(Members(bucket)) \in 1 .. size - 1}
             \cup {lsts[size][x] : x \in left}
<1>1. ASSUME NEW s \in 1 .. size - 1 PROVE ToSet(lsts[s]) = OfSize(s)
  <2> DEFINE q == lsts[s]
  <2>1. q \in [1 .. Len(q) -> OfSize(s)] /\ \A bucket \in OfSize(s) : \E x \in 1 .. Len(q) : q[x] = bucket
    BY DEF Bijection, Surjection
  <2> HIDE DEF q
  <2>2. ToSet(q) = OfSize(s)
    BY <2>1 DEF ToSet
  <2> QED BY <2>2 DEF q
<1>2. UNION {ToSet(lsts[s]) : s \in 1 .. size - 1} =
        {bucket \in Buckets : Cardinality(Members(bucket)) \in 1 .. size - 1}
  <2>1. UNION {ToSet(lsts[s]) : s \in 1 .. size - 1} = UNION {OfSize(s) : s \in 1 .. size - 1}
    BY <1>1
  <2>2. \A s : OfSize(s) = {bucket \in Buckets : Cardinality(Members(bucket)) = s}
    BY DEF OfSize
  <2>3. \A bucket \in Buckets :
          bucket \in UNION {OfSize(s) : s \in 1 .. size - 1}
            <=> Cardinality(Members(bucket)) \in 1 .. size - 1
    BY <2>2
  <2>4. UNION {OfSize(s) : s \in 1 .. size - 1} \subseteq Buckets
    BY <2>2
  <2> DEFINE A == UNION {OfSize(s) : s \in 1 .. size - 1}
  <2>5. A = {bucket \in Buckets : Cardinality(Members(bucket)) \in 1 .. size - 1}
    <3> HIDE DEF A
    <3>1. A \subseteq Buckets /\ \A bucket \in Buckets :
                                   bucket \in A <=> Cardinality(Members(bucket)) \in 1 .. size - 1
      BY <2>3, <2>4 DEF A
    <3> QED BY <3>1
  <2> QED BY <2>1, <2>5
<1>3. SmallerIn(lsts, size) = {bucket \in Buckets : Cardinality(Members(bucket)) \in 1 .. size - 1}
  BY <1>2 DEF SmallerIn
<1> QED BY <1>3 DEF WaitingIn

LEMMA OrderingKeeps ==
  ASSUME IInv, chd_ph_ordering
  PROVE  IInv'
<1>1. Configuration /\ UNCHANGED config /\ pc = "ordering" /\ pc' = "searching" /\ n' = n
      /\ n \in Nat \ {0, 1} /\ items' = items
  BY DEF IInv, chd_ph_ordering, Began, hashing
<1>2. /\ Configuration' /\ m' = m /\ nbuckets' = nbuckets /\ Buckets' = Buckets /\ Bin' = Bin
      /\ max_probes' = max_probes /\ keys' = keys /\ keys_per_bin' = keys_per_bin
      /\ nbuckets \in Nat \ {0} /\ m \in Nat \ {0}
  BY <1>1, SameNumbers DEF Bin
<1>3. /\ items \in [1 .. m -> ItemsFor(nbuckets, n)] /\ IsInjective(items)
      /\ \A x, y \in 1 .. m : keys[x] = keys[y] => items[x] = items[y]
      /\ \A bucket \in Buckets : Cardinality(Members(bucket)) <= max_bucket_size
  BY <1>1 DEF IInv, Hashed
<1>4. \A s : /\ BucketsOfSize(s) \in Seq(Buckets) /\ Len(BucketsOfSize(s)) \in 0 .. nbuckets
             /\ BucketsOfSize(s) \in Bijection(1 .. Len(BucketsOfSize(s)), OfSize(s))
  <2>1. m \in Nat /\ DOMAIN items = 1 .. m /\ nbuckets \in Nat
    BY <1>2, <1>3
  <2> QED BY <2>1, BucketsOfSizeOnce
<1> DEFINE top == max_bucket_size
           ordered == [s \in 1 .. top |-> BucketsOfSize(s)]
           largest == BucketsOfSize(top)
<1>5. /\ sorted_lists' = ordered /\ max_bucket_size' = top
      /\ i' = top /\ list_size' = Len(largest) /\ j' = 0 /\ non_placed_bucket' = 0
      /\ probe_num' = 0 /\ probe0_num' = 0 /\ probe1_num' = 0
      /\ iterations' = iterations /\ mapping_iterations' = mapping_iterations /\ hl' = hl
      /\ occup_table' = occup_table /\ disp_table' = disp_table
  BY DEF chd_ph_ordering, StartsList, counters, hashing
<1>6. \A x \in 1 .. m : items[x].g \in Buckets /\ Cardinality(Members(items[x].g)) \in 1 .. top
  <2> SUFFICES ASSUME NEW x \in 1 .. m
               PROVE  items[x].g \in Buckets /\ Cardinality(Members(items[x].g)) \in 1 .. top
    OBVIOUS
  <2> DEFINE bucket == items[x].g
  <2>1. bucket \in Buckets
    BY <1>3 DEF ItemsFor, Buckets
  <2>2. x \in Members(bucket)
    BY DEF Members, Own
  <2> HIDE DEF bucket
  <2>3. IsFiniteSet(Members(bucket)) /\ Cardinality(Members(bucket)) \in 0 .. m
    BY <1>2, MembersAreFinite
  <2>4. Cardinality(Members(bucket)) # 0
    BY <2>2, <2>3, FS_EmptySet
  <2>5. Cardinality(Members(bucket)) <= top
    BY <1>3, <2>1
  <2>6. top \in Nat
    BY DEF IInv, TypeOK
  <2> QED BY <2>1, <2>3, <2>4, <2>5, <2>6 DEF bucket
<1>7. top \in 1 .. m
  <2>1. 1 \in 1 .. m
    BY <1>2
  <2>2. Cardinality(Members(items[1].g)) \in 1 .. top
    BY <1>6, <2>1
  <2>3. top \in 0 .. m
    BY DEF IInv, TypeOK
  <2> QED BY <2>2, <2>3
<1> HIDE DEF largest
<1>8. /\ Len(largest) \in 0 .. nbuckets /\ ordered[top] = largest
      /\ \A s \in 1 .. top : ordered[s] = BucketsOfSize(s)
      /\ largest \in [1 .. Len(largest) -> OfSize(top)]
      /\ \A x, y \in 1 .. Len(largest) : largest[x] = largest[y] => x = y
      /\ \A bucket \in OfSize(top) : \E x \in 1 .. Len(largest) : largest[x] = bucket
  <2>1. Len(largest) \in 0 .. nbuckets /\ largest \in Bijection(1 .. Len(largest), OfSize(top))
    BY <1>4 DEF largest
  <2>2. ordered[top] = largest
    BY <1>7 DEF largest
  <2> QED BY <2>1, <2>2 DEF Bijection, Injection, Surjection, IsInjective
<1> HIDE DEF ordered
<1>9. /\ occup_table \in [Bin -> 0 .. keys_per_bin] /\ \A bin \in Bin : occup_table[bin] = 0
      /\ disp_table \in [Buckets -> 0 .. n * n - 1]
      /\ iterations \in 0 .. Iterations /\ mapping_iterations \in 0 .. MappingIterations
      /\ iterations # 0
      /\ hl = <<>> \/ (hl = hash_state_new(hl.seed) /\ hl.seed \in Seeds(keys))
  BY <1>1 DEF IInv, TypeOK, Emptied, Trials
<1>10. Left' = 1 .. Len(largest)
  <2>1. Left' = 1 .. 0 \cup 0 + 1 .. Len(largest)
    BY <1>5 DEF Left
  <2> QED BY <2>1
<1>11. TypeOK'
  <2>1. 0 \in Bin /\ 0 \in 0 .. max_probes
    <3>1. \A k \in Nat \ {0, 1} : 0 \in 0 .. k - 1
      OBVIOUS
    <3>2. max_probes \in Nat
      BY <1>1, Numbers
    <3> QED BY <1>1, <3>1, <3>2 DEF Bin
  <2>2. \A s \in DOMAIN sorted_lists' : sorted_lists'[s] \in Seq(Buckets)
    <3>1. DOMAIN ordered = 1 .. top
      BY DEF ordered
    <3> QED BY <1>4, <1>5, <1>8, <3>1
  <2>3. /\ max_bucket_size' \in 0 .. m /\ i' \in 0 .. m /\ list_size' \in 0 .. nbuckets
        /\ j' \in 0 .. list_size' /\ non_placed_bucket' \in 0 .. j'
    BY <1>5, <1>7, <1>8
  <2> QED BY <1>1, <1>2, <1>5, <1>9, <2>1, <2>2, <2>3 DEF TypeOK
<1>12. Began' /\ Trials' /\ Emptied'
  BY <1>1, <1>5, <1>9 DEF Began, Trials, Emptied
<1>13. \A bucket : Members(bucket)' = Members(bucket)
  BY <1>1, <1>2 DEF Members, Own
<1>14. Hashed'
  BY <1>1, <1>2, <1>3, <1>5, <1>13 DEF Hashed
<1>15. \A s : OfSize(s)' = OfSize(s)
  BY <1>2, <1>13 DEF OfSize
<1>16. Lists'
  <2>1. i' \in 1 .. max_bucket_size' /\ DOMAIN sorted_lists' = 1 .. max_bucket_size'
    BY <1>5, <1>7 DEF ordered
  <2>2. \A s \in 1 .. top : Len(ordered[s]) <= nbuckets
    BY <1>4, <1>8
  <2>3. \A s \in 1 .. top - 1 : ordered[s] \in Bijection(1 .. Len(ordered[s]), OfSize(s))
    <3>1. \A s \in 1 .. top - 1 : s \in 1 .. top
      BY <1>7
    <3> QED BY <1>4, <1>8, <3>1
  <2>4. Len(largest) <= Len(ordered[top])
    BY <1>8
  <2>5. \A x \in 1 .. Len(largest) : Cardinality(Members(ordered[top][x])) = top
    BY <1>8 DEF OfSize
  <2>6. \A x, y \in 1 .. Len(largest) : ordered[top][x] = ordered[top][y] => x = y
    BY <1>8
  <2> QED BY <1>1, <1>2, <1>5, <1>10, <1>13, <1>15, <2>1, <2>2, <2>3, <2>4, <2>5, <2>6 DEF Lists
<1>17. SeveralKeys' /\ Size'
  <2>1. ASSUME m = 1 PROVE Len(largest) # 0
    <3>1. items[1].g \in Buckets /\ Cardinality(Members(items[1].g)) \in 1 .. top /\ top = 1
      BY <1>6, <1>7, <2>1
    <3>2. items[1].g \in OfSize(top)
      BY <3>1 DEF OfSize
    <3> QED BY <1>8, <3>2
  <2> QED BY <1>1, <1>2, <1>5, <2>1 DEF SeveralKeys, Size, Placing
<1>18. TakenByThePlaced'
  <2>1. Waiting' = WaitingIn(ordered, top, 1 .. Len(largest))
    <3>1. Waiting' = WaitingIn(sorted_lists', i', Left')
      BY DEF Waiting, WaitingIn, SmallerIn, Left
    <3> QED BY <1>5, <1>10, <3>1
  <2>2. \A s \in 1 .. top - 1 : ordered[s] \in Bijection(1 .. Len(ordered[s]), OfSize(s))
    <3>1. \A s \in 1 .. top - 1 : s \in 1 .. top
      BY <1>7
    <3> QED BY <1>4, <1>8, <3>1
  <2>3. Waiting' = {bucket \in Buckets : Cardinality(Members(bucket)) \in 1 .. top - 1}
                     \cup {ordered[top][x] : x \in 1 .. Len(largest)}
    <3>1. top \in Nat /\ m \in Nat
      BY <1>2, <1>7
    <3>2. WaitingIn(ordered, top, 1 .. Len(largest)) =
            {bucket \in Buckets : Cardinality(Members(bucket)) \in 1 .. top - 1}
              \cup {ordered[top][x] : x \in 1 .. Len(largest)}
      <4> DEFINE left == 1 .. Len(largest)
      <4> HIDE DEF left
      <4>1. WaitingIn(ordered, top, left) =
              {bucket \in Buckets : Cardinality(Members(bucket)) \in 1 .. top - 1}
                \cup {ordered[top][x] : x \in left}
        BY <2>2, <3>1, WaitingAre
      <4> QED BY <4>1 DEF left
    <3> QED BY <2>1, <3>2
  <2>4. \A x \in 1 .. m : items[x].g \in Waiting'
    <3> SUFFICES ASSUME NEW x \in 1 .. m, items[x].g \notin Waiting' PROVE FALSE
      OBVIOUS
    <3>1. Cardinality(Members(items[x].g)) \in 1 .. top /\ items[x].g \in Buckets
      BY <1>6
    <3>2. Cardinality(Members(items[x].g)) = top
      BY <1>7, <2>3, <3>1
    <3>3. items[x].g \in OfSize(top)
      BY <3>1, <3>2 DEF OfSize
    <3> QED BY <1>8, <2>3, <3>3
  <2>5. PlacedItems' = {}
    BY <1>1, <1>2, <2>4 DEF PlacedItems
  <2>6. \A bin \in Bin : Cardinality({x \in PlacedItems' : PlacedBin(x)' = bin}) = 0
    <3>1. \A bin \in Bin : {x \in PlacedItems' : PlacedBin(x)' = bin} = {}
      BY <2>5
    <3> QED BY <3>1, FS_EmptySet
  <2>7. \A bin \in Bin : occup_table[bin] <= keys_per_bin
    BY <1>1, <1>9 DEF Configuration
  <2> QED BY <1>1, <1>2, <1>5, <1>9, <2>6, <2>7 DEF TakenByThePlaced
<1> QED BY <1>2, <1>11, <1>12, <1>14, <1>16, <1>17, <1>18 DEF IInv
---------------------------------------------------------------------------
(* The search. *)

\* A step of the search leaves the items and their buckets as they are.
LEMMA SearchFrame ==
  ASSUME IInv, pc \in Placing, UNCHANGED config, n' = n, items' = items,
         max_bucket_size' = max_bucket_size
  PROVE  /\ Configuration /\ Configuration' /\ m' = m /\ nbuckets' = nbuckets
         /\ Buckets' = Buckets /\ Bin' = Bin
         /\ max_probes' = max_probes /\ keys' = keys /\ keys_per_bin' = keys_per_bin /\ algo' = algo
         /\ nbuckets \in Nat \ {0} /\ m \in Nat \ {0} /\ max_probes \in Nat /\ n \in Nat \ {0, 1}
         /\ items \in [1 .. m -> ItemsFor(nbuckets, n)]
         /\ \A bucket : Members(bucket)' = Members(bucket)
         /\ \A s : OfSize(s)' = OfSize(s)
         /\ Hashed' /\ Began
         /\ max_bucket_size \in 0 .. m
         /\ \A bucket : IsFiniteSet(Members(bucket)) /\ Cardinality(Members(bucket)) \in 0 .. m
<1>1. Configuration
  BY DEF IInv
<1>2. /\ Configuration' /\ m' = m /\ nbuckets' = nbuckets /\ Buckets' = Buckets
      /\ max_probes' = max_probes /\ keys' = keys /\ keys_per_bin' = keys_per_bin /\ algo' = algo
      /\ nbuckets \in Nat \ {0} /\ m \in Nat \ {0} /\ max_probes \in Nat
  BY <1>1, SameNumbers
<1>3. n \in Nat \ {0, 1} /\ Bin' = Bin /\ Began
  BY DEF IInv, Began, Bin, Placing
<1>4. \A bucket : Members(bucket)' = Members(bucket)
  BY <1>2 DEF Members, Own
<1>5. \A s : OfSize(s)' = OfSize(s)
  BY <1>2, <1>4 DEF OfSize
<1>6. /\ items \in [1 .. m -> ItemsFor(nbuckets, n)] /\ IsInjective(items)
      /\ \A x, y \in 1 .. m : keys[x] = keys[y] => items[x] = items[y]
      /\ \A bucket \in Buckets : Cardinality(Members(bucket)) <= max_bucket_size
  BY DEF IInv, Hashed
<1>7. Hashed'
  BY <1>2, <1>4, <1>6 DEF Hashed
<1>8. max_bucket_size \in 0 .. m
  BY DEF IInv, TypeOK
<1>9. \A bucket : IsFiniteSet(Members(bucket)) /\ Cardinality(Members(bucket)) \in 0 .. m
  BY <1>2, MembersAreFinite
<1> QED BY <1>1, <1>2, <1>3, <1>4, <1>5, <1>6, <1>7, <1>8, <1>9

\* The lists while buckets are placed.
LEMMA ListsTyped ==
  ASSUME IInv, pc \in Placing
  PROVE  /\ i \in 1 .. max_bucket_size /\ max_bucket_size \in Nat /\ i \in Nat \ {0}
         /\ DOMAIN sorted_lists = 1 .. max_bucket_size
         /\ \A s \in 1 .. max_bucket_size : /\ sorted_lists[s] \in Seq(Buckets)
                                            /\ Len(sorted_lists[s]) \in Nat
                                            /\ Len(sorted_lists[s]) <= nbuckets
         /\ \A s \in 1 .. i - 1 : sorted_lists[s] \in Bijection(1 .. Len(sorted_lists[s]), OfSize(s))
         /\ list_size \in Nat /\ j \in Nat /\ non_placed_bucket \in Nat
         /\ non_placed_bucket <= j /\ j <= list_size /\ list_size <= Len(sorted_lists[i])
         /\ Left \subseteq 1 .. Len(sorted_lists[i])
         /\ \A x \in Left : /\ sorted_lists[i][x] \in Buckets
                            /\ Cardinality(Members(sorted_lists[i][x])) = i
         /\ \A x, y \in Left : sorted_lists[i][x] = sorted_lists[i][y] => x = y
<1>1. nbuckets \in Nat /\ m \in Nat
  BY Numbers DEF IInv
<1>2. /\ max_bucket_size \in 0 .. m /\ \A s \in DOMAIN sorted_lists : sorted_lists[s] \in Seq(Buckets)
      /\ list_size \in 0 .. nbuckets /\ j \in 0 .. list_size /\ non_placed_bucket \in 0 .. j
  BY DEF IInv, TypeOK
<1>3. /\ i \in 1 .. max_bucket_size
      /\ DOMAIN sorted_lists = 1 .. max_bucket_size
      /\ \A s \in 1 .. max_bucket_size : Len(sorted_lists[s]) <= nbuckets
      /\ \A s \in 1 .. i - 1 : sorted_lists[s] \in Bijection(1 .. Len(sorted_lists[s]), OfSize(s))
      /\ list_size <= Len(sorted_lists[i])
      /\ \A x \in Left : Cardinality(Members(sorted_lists[i][x])) = i
      /\ \A x, y \in Left : sorted_lists[i][x] = sorted_lists[i][y] => x = y
  BY DEF IInv, Lists
<1>4. \A s \in 1 .. max_bucket_size : sorted_lists[s] \in Seq(Buckets) /\ Len(sorted_lists[s]) \in Nat
  BY <1>2, <1>3, LenProperties
<1>5. /\ list_size \in Nat /\ j \in Nat /\ non_placed_bucket \in Nat /\ max_bucket_size \in Nat
      /\ non_placed_bucket <= j /\ j <= list_size /\ i \in Nat \ {0} /\ Len(sorted_lists[i]) \in Nat
  BY <1>1, <1>2, <1>3, <1>4
<1>6. Left \subseteq 1 .. Len(sorted_lists[i])
  <2> DEFINE l == Len(sorted_lists[i])
  <2>1. l \in Nat /\ list_size <= l
    BY <1>3, <1>5
  <2> HIDE DEF l
  <2>2. \A x \in Left : x \in 1 .. l
    BY <1>5, <2>1 DEF Left
  <2> QED BY <2>2 DEF l
<1>7. \A x \in Left : sorted_lists[i][x] \in Buckets
  <2>1. sorted_lists[i] \in Seq(Buckets)
    BY <1>3, <1>4
  <2> QED BY <1>6, <2>1, ElementOfSeq
<1> QED BY <1>3, <1>4, <1>5, <1>6, <1>7

LEMMA WaitingNow ==
  ASSUME IInv, pc \in Placing
  PROVE  Waiting = {bucket \in Buckets : Cardinality(Members(bucket)) \in 1 .. i - 1}
                     \cup {sorted_lists[i][x] : x \in Left}
<1>1. Waiting = WaitingIn(sorted_lists, i, Left)
  BY DEF Waiting, WaitingIn, SmallerIn, Left
<1>2. i \in Nat /\ m \in Nat
      /\ \A s \in 1 .. i - 1 : sorted_lists[s] \in Bijection(1 .. Len(sorted_lists[s]), OfSize(s))
  BY ListsTyped, Numbers DEF IInv
<1> DEFINE lsts == sorted_lists
           size == i
           left == Left
<1>3. size \in Nat
      /\ \A s \in 1 .. size - 1 : lsts[s] \in Bijection(1 .. Len(lsts[s]), OfSize(s))
  BY <1>2
<1> HIDE DEF lsts, size, left
<1>4. WaitingIn(lsts, size, left) =
           {bucket \in Buckets : Cardinality(Members(bucket)) \in 1 .. size - 1}
             \cup {lsts[size][x] : x \in left}
  BY <1>2, <1>3, WaitingAre
<1> QED BY <1>1, <1>4 DEF lsts, size, left

LEMMA WaitingNext ==
  ASSUME IInv, i' \in Nat,
         \A s \in 1 .. i' - 1 : sorted_lists'[s] \in Bijection(1 .. Len(sorted_lists'[s]), OfSize(s))
  PROVE  Waiting' = {bucket \in Buckets : Cardinality(Members(bucket)) \in 1 .. i' - 1}
                      \cup {sorted_lists'[i'][x] : x \in Left'}
<1>1. Waiting' = WaitingIn(sorted_lists', i', Left')
  BY DEF Waiting, WaitingIn, SmallerIn, Left
<1>2. m \in Nat
  BY Numbers DEF IInv
<1> DEFINE lsts == sorted_lists'
           size == i'
           left == Left'
<1>3. size \in Nat
      /\ \A s \in 1 .. size - 1 : lsts[s] \in Bijection(1 .. Len(lsts[s]), OfSize(s))
  OBVIOUS
<1> HIDE DEF lsts, size, left
<1>4. WaitingIn(lsts, size, left) =
           {bucket \in Buckets : Cardinality(Members(bucket)) \in 1 .. size - 1}
             \cup {lsts[size][x] : x \in left}
  BY <1>2, <1>3, WaitingAre
<1> QED BY <1>1, <1>4 DEF lsts, size, left

\* The bucket that comes next, and what the probe makes of it.
NextBucket == sorted_lists[i][j + 1]
NextBins == BinsOf(NextBucket)
NextPlaced == Placeable(NextBins)

\* The items of that bucket that the probe takes to a bin.
Arriving(bin) ==
  {x \in Members(NextBucket) : Position(items[x], probe0_num, probe1_num, n) = bin}

LEMMA NextBucketPlaceable ==
  ASSUME IInv, place_bucket_probe
  PROVE  /\ j + 1 \in Left /\ NextBucket \in Buckets /\ Cardinality(Members(NextBucket)) = i
         /\ IF Len(NextPlaced) = i
              THEN /\ \A bin \in Bin :
                        /\ occup_table'[bin] = occup_table[bin] + Cardinality(Arriving(bin))
                        /\ occup_table[bin] + Cardinality(Arriving(bin)) <= keys_per_bin
                   /\ occup_table' \in [Bin -> Int]
                   /\ disp_table' = [disp_table EXCEPT ![NextBucket] = probe0_num + probe1_num * n]
                   /\ sorted_lists' = sorted_lists /\ non_placed_bucket' = non_placed_bucket
              ELSE /\ occup_table' = occup_table /\ disp_table' = disp_table
                   /\ non_placed_bucket' = non_placed_bucket + 1
                   /\ sorted_lists' = [sorted_lists EXCEPT ![i][non_placed_bucket + 1] = NextBucket]
<1>1. pc = "searching" /\ pc \in Placing /\ j < list_size
  BY DEF place_bucket_probe, Placing
<1>2. j + 1 \in Left
  BY <1>1, ListsTyped DEF Left
<1>3. NextBucket \in Buckets /\ Cardinality(Members(NextBucket)) = i
  BY <1>1, <1>2, ListsTyped DEF NextBucket
<1>4. /\ m \in Nat /\ nbuckets \in Nat /\ n \in Nat \ {0, 1}
      /\ items \in [1 .. m -> ItemsFor(nbuckets, n)]
      /\ probe0_num \in Nat /\ probe1_num \in Nat
  <2>1. m \in Nat /\ nbuckets \in Nat /\ n \in Nat \ {0, 1}
    BY <1>1, Numbers DEF IInv, Began
  <2>2. items \in [1 .. m -> ItemsFor(nbuckets, n)]
    BY <1>1 DEF IInv, Hashed
  <2>3. probe0_num \in 0 .. n - 1 /\ probe1_num \in 0 .. n - 1
    BY <1>1 DEF IInv, TypeOK, Bin
  <2> QED BY <2>1, <2>2, <2>3
<1>5. /\ i \in Nat /\ NextBins \in [1 .. i -> Bin]
      /\ \A bin \in Bin : Cardinality(Places(NextBins, i, bin)) = Cardinality(Arriving(bin))
  BY <1>3, <1>4, BinsOfABucket DEF NextBins, Arriving
<1>6. keys_per_bin \in Nat /\ occup_table \in [Bin -> Nat]
      /\ \A bin \in Bin : occup_table[bin] <= keys_per_bin
  <2>1. keys_per_bin \in 1 .. 127 /\ occup_table \in [Bin -> 0 .. keys_per_bin]
    BY <1>1 DEF IInv, TypeOK, Configuration
  <2> QED BY <2>1
<1>7. /\ NextPlaced \in Seq(Bin) /\ Len(NextPlaced) \in 0 .. i
      /\ Len(NextPlaced) = i =>
           /\ NextPlaced = NextBins
           /\ \A bin \in Bin :
                occup_table[bin] + Cardinality(Places(NextBins, i, bin)) <= keys_per_bin
  BY <1>5, <1>6, PlaceableFits DEF NextPlaced
<1>8. IF Len(NextPlaced) = i
        THEN /\ occup_table' = Counted(occup_table, NextPlaced, 1)
             /\ disp_table' = [disp_table EXCEPT ![NextBucket] = probe0_num + probe1_num * n]
             /\ UNCHANGED <<sorted_lists, non_placed_bucket>>
        ELSE NotPlaced(NextBucket, NextPlaced)
  BY DEF place_bucket_probe, NextBucket, NextBins, NextPlaced
<1>9. occup_table \in [Bin -> Int]
  BY <1>6
<1>10. CASE Len(NextPlaced) = i
  <2>1. occup_table' = Counted(occup_table, NextBins, 1) /\ DOMAIN NextBins = 1 .. i
    BY <1>5, <1>7, <1>8, <1>10
  <2>2. /\ occup_table' \in [Bin -> Int]
        /\ \A bin \in Bin :
             occup_table'[bin] = occup_table[bin] + 1 * Cardinality(Places(NextBins, i, bin))
    BY <1>5, <1>9, <2>1, CountedOf
  <2>3. \A bin \in Bin : Cardinality(Places(NextBins, i, bin)) \in Nat
    BY <1>5, PlacesAreFinite
  <2>4. \A bin \in Bin : occup_table'[bin] = occup_table[bin] + Cardinality(Arriving(bin))
    BY <1>5, <2>2, <2>3
  <2>5. \A bin \in Bin : occup_table[bin] + Cardinality(Arriving(bin)) <= keys_per_bin
    BY <1>5, <1>7, <1>10
  <2> QED BY <1>2, <1>3, <1>8, <1>10, <2>2, <2>4, <2>5
<1>11. CASE Len(NextPlaced) # i
  <2>1. NotPlaced(NextBucket, NextPlaced)
    BY <1>8, <1>11
  <2>2. Undone(NextPlaced) = occup_table
    <3>1. DOMAIN NextPlaced = 1 .. Len(NextPlaced) /\ Len(NextPlaced) \in Nat
      BY <1>7, LenProperties
    <3> QED BY <1>9, <3>1, UndoneLeavesNoTrace
  <2> QED BY <1>2, <1>3, <1>11, <2>1, <2>2 DEF NotPlaced
<1> QED BY <1>10, <1>11
\* One bucket less is left, or the last of those that are is another place.
LEMMA LeftAfterPlacing ==
  ASSUME IInv, place_bucket_probe, Len(NextPlaced) = i
  PROVE  Left' = Left \ {j + 1} /\ Waiting' = Waiting \ {NextBucket} /\ NextBucket \in Waiting
<1>1. pc \in Placing /\ i' = i /\ list_size' = list_size /\ j' = j + 1 /\ j < list_size
      /\ sorted_lists' = sorted_lists /\ non_placed_bucket' = non_placed_bucket
      /\ j + 1 \in Left /\ NextBucket \in Buckets /\ Cardinality(Members(NextBucket)) = i
  BY NextBucketPlaceable DEF place_bucket_probe, Placing
<1>2. /\ i \in Nat \ {0} /\ j \in Nat /\ list_size \in Nat /\ non_placed_bucket \in Nat
      /\ non_placed_bucket <= j
      /\ \A s \in 1 .. i - 1 : sorted_lists[s] \in Bijection(1 .. Len(sorted_lists[s]), OfSize(s))
      /\ \A x, y \in Left : sorted_lists[i][x] = sorted_lists[i][y] => x = y
  BY <1>1, ListsTyped
<1>3. Left' = Left \ {j + 1}
  <2>1. Left' = 1 .. non_placed_bucket \cup (j + 1) + 1 .. list_size
    BY <1>1 DEF Left
  <2> QED BY <1>1, <1>2, <2>1 DEF Left
<1> DEFINE Small == {bucket \in Buckets : Cardinality(Members(bucket)) \in 1 .. i - 1}
           list == sorted_lists[i]
<1>4. Waiting' = Small \cup {list[x] : x \in Left \ {j + 1}}
  BY <1>1, <1>2, <1>3, WaitingNext
<1>5. Waiting = Small \cup {list[x] : x \in Left}
  BY <1>1, WaitingNow
<1>6. NextBucket \notin Small /\ NextBucket = list[j + 1]
  BY <1>1, <1>2 DEF NextBucket
<1> HIDE DEF Small, list
<1>7. \A x \in Left \ {j + 1} : list[x] # NextBucket
  BY <1>1, <1>2, <1>6 DEF list
<1>8. Waiting' = Waiting \ {NextBucket}
  BY <1>1, <1>4, <1>5, <1>6, <1>7
<1> QED BY <1>1, <1>3, <1>5, <1>6, <1>8

\* Where a bucket that stays is kept, and what was there before.
LEMMA LeftAfterFailing ==
  ASSUME IInv, place_bucket_probe, Len(NextPlaced) # i
  PROVE  /\ Waiting' = Waiting
         /\ DOMAIN sorted_lists' = DOMAIN sorted_lists
         /\ \A s \in DOMAIN sorted_lists \ {i} : sorted_lists'[s] = sorted_lists[s]
         /\ sorted_lists'[i] \in Seq(Buckets) /\ Len(sorted_lists'[i]) = Len(sorted_lists[i])
         /\ \A x \in Left' : Cardinality(Members(sorted_lists'[i][x])) = i
         /\ \A x, y \in Left' : sorted_lists'[i][x] = sorted_lists'[i][y] => x = y
<1>1. pc \in Placing /\ i' = i /\ list_size' = list_size /\ j' = j + 1 /\ j < list_size
      /\ non_placed_bucket' = non_placed_bucket + 1
      /\ sorted_lists' = [sorted_lists EXCEPT ![i][non_placed_bucket + 1] = NextBucket]
      /\ j + 1 \in Left /\ NextBucket \in Buckets /\ Cardinality(Members(NextBucket)) = i
  BY NextBucketPlaceable DEF place_bucket_probe, Placing
<1>2. /\ i \in 1 .. max_bucket_size /\ i \in Nat \ {0} /\ max_bucket_size \in Nat
      /\ DOMAIN sorted_lists = 1 .. max_bucket_size
      /\ j \in Nat /\ list_size \in Nat /\ non_placed_bucket \in Nat
      /\ non_placed_bucket <= j /\ list_size <= Len(sorted_lists[i])
      /\ sorted_lists[i] \in Seq(Buckets) /\ Len(sorted_lists[i]) \in Nat
      /\ \A s \in 1 .. i - 1 : sorted_lists[s] \in Bijection(1 .. Len(sorted_lists[s]), OfSize(s))
      /\ \A x \in Left : Cardinality(Members(sorted_lists[i][x])) = i
      /\ \A x, y \in Left : sorted_lists[i][x] = sorted_lists[i][y] => x = y
  BY <1>1, ListsTyped
<1> DEFINE list == sorted_lists[i]
           front == non_placed_bucket + 1
           moved == [list EXCEPT ![front] = NextBucket]
<1>3. front \in 1 .. Len(list) /\ front <= j + 1 /\ front \in Nat
  BY <1>1, <1>2
<1>4. sorted_lists'[i] = moved
  BY <1>1, <1>2
<1>5. /\ DOMAIN sorted_lists' = DOMAIN sorted_lists
      /\ \A s \in DOMAIN sorted_lists \ {i} : sorted_lists'[s] = sorted_lists[s]
  BY <1>1
<1> HIDE DEF list, front
<1>6. /\ moved \in Seq(Buckets) /\ Len(moved) = Len(list)
      /\ \A x \in 1 .. Len(list) : moved[x] = IF x = front THEN NextBucket ELSE list[x]
  BY <1>1, <1>2, <1>3, ExceptSeq DEF list
<1> HIDE DEF moved
\* The place before the step of what is at a place after it.
<1> DEFINE From(x) == IF x = front THEN j + 1 ELSE x
<1>7. NextBucket = list[j + 1]
  BY DEF NextBucket, list
<1>8. Left' = 1 .. front \cup (j + 1) + 1 .. list_size
  BY <1>1 DEF Left, front
<1>9. \A x \in Left' : From(x) \in Left /\ x \in 1 .. Len(list)
  <2>1. \A x \in Left' : x = front \/ x \in 1 .. non_placed_bucket \/ x \in (j + 1) + 1 .. list_size
    BY <1>2, <1>8 DEF front
  <2>2. \A x \in 1 .. non_placed_bucket \cup (j + 1) + 1 .. list_size : x \in Left
    BY <1>2 DEF Left
  <2>3. Len(list) \in Nat /\ list_size <= Len(list)
    BY <1>2 DEF list
  <2>4. \A x \in Left' : x \in 1 .. Len(list)
    BY <1>2, <1>3, <1>8, <2>3
  <2> QED BY <1>1, <2>1, <2>2, <2>4
<1>10. \A y \in Left : \E x \in Left' : From(x) = y
  <2> SUFFICES ASSUME NEW y \in Left PROVE \E x \in Left' : From(x) = y
    OBVIOUS
  <2>1. CASE y = j + 1
    <3>1. front \in Left'
      BY <1>3, <1>8
    <3> QED BY <2>1, <3>1
  <2>2. CASE y # j + 1
    <3>0. /\ y \in 1 .. non_placed_bucket \/ y \in j + 1 .. list_size
          /\ j \in Nat /\ list_size \in Nat /\ non_placed_bucket \in Nat
      BY <1>2 DEF Left
    <3>1. y \in Nat /\ (y <= non_placed_bucket \/ (j + 1 < y /\ y <= list_size)) /\ y > 0
      BY <2>2, <3>0
    <3>2. y # front /\ (y <= front \/ ((j + 1) + 1 <= y /\ y <= list_size))
      BY <1>2, <3>1 DEF front
    <3>3. y \in Left'
      BY <1>2, <1>3, <1>8, <3>1, <3>2
    <3> QED BY <3>2, <3>3
  <2> QED BY <2>1, <2>2
<1>11. \A x, y \in Left' : From(x) = From(y) => x = y
  <2>1. \A x \in Left' : x # front => x # j + 1
    BY <1>2, <1>3, <1>8
  <2> QED BY <2>1
<1>12. \A x \in Left' : moved[x] = list[From(x)]
  BY <1>6, <1>7, <1>9
<1> HIDE DEF From
<1>13. {moved[x] : x \in Left'} = {list[y] : y \in Left}
  BY <1>9, <1>10, <1>12
<1>14. \A x \in Left' : Cardinality(Members(moved[x])) = i
  BY <1>2, <1>9, <1>12 DEF list
<1>15. \A x, y \in Left' : moved[x] = moved[y] => x = y
  <2> SUFFICES ASSUME NEW x \in Left', NEW y \in Left', moved[x] = moved[y] PROVE x = y
    OBVIOUS
  <2>1. list[From(x)] = list[From(y)] /\ From(x) \in Left /\ From(y) \in Left
    BY <1>9, <1>12
  <2>2. From(x) = From(y)
    BY <1>2, <2>1 DEF list
  <2> QED BY <1>11, <2>2
<1>16. Waiting' = Waiting
  <2>1. \A s \in 1 .. i' - 1 : sorted_lists'[s] \in Bijection(1 .. Len(sorted_lists'[s]), OfSize(s))
    <3>1. \A s \in 1 .. i - 1 : s \in DOMAIN sorted_lists \ {i}
      BY <1>2
    <3> QED BY <1>1, <1>2, <1>5, <3>1
  <2>2. i' \in Nat
    BY <1>1, <1>2
  <2> DEFINE Small == {bucket \in Buckets : Cardinality(Members(bucket)) \in 1 .. i - 1}
  <2>3. Waiting' = Small \cup {moved[x] : x \in Left'}
    BY <1>1, <1>4, <2>1, <2>2, WaitingNext
  <2>4. Waiting = Small \cup {list[x] : x \in Left}
    BY <1>1, WaitingNow DEF list
  <2> QED BY <1>13, <2>3, <2>4
<1> QED BY <1>4, <1>5, <1>6, <1>14, <1>15, <1>16 DEF list
LEMMA PlaceKeepsLists ==
  ASSUME IInv, place_bucket_probe
  PROVE  Lists' /\ \A s \in DOMAIN sorted_lists' : sorted_lists'[s] \in Seq(Buckets)
<1>1. pc = "searching" /\ pc' = pc /\ pc \in Placing /\ i' = i /\ list_size' = list_size
      /\ max_bucket_size' = max_bucket_size
      /\ UNCHANGED config /\ n' = n /\ items' = items
  BY DEF place_bucket_probe, Placing, hashing
<1>2. nbuckets' = nbuckets /\ \A s : OfSize(s)' = OfSize(s)
      /\ \A bucket : Members(bucket)' = Members(bucket)
  BY <1>1, SearchFrame
<1>3. /\ i \in 1 .. max_bucket_size /\ max_bucket_size \in Nat
      /\ DOMAIN sorted_lists = 1 .. max_bucket_size
      /\ \A s \in 1 .. max_bucket_size : /\ sorted_lists[s] \in Seq(Buckets)
                                         /\ Len(sorted_lists[s]) <= nbuckets
      /\ \A s \in 1 .. i - 1 : sorted_lists[s] \in Bijection(1 .. Len(sorted_lists[s]), OfSize(s))
      /\ list_size <= Len(sorted_lists[i])
      /\ \A x \in Left : Cardinality(Members(sorted_lists[i][x])) = i
      /\ \A x, y \in Left : sorted_lists[i][x] = sorted_lists[i][y] => x = y
  BY <1>1, ListsTyped
<1>4. CASE Len(NextPlaced) = i
  <2>1. sorted_lists' = sorted_lists
    BY <1>4, NextBucketPlaceable
  <2>2. Left' = Left \ {j + 1}
    BY <1>4, LeftAfterPlacing
  <2> QED BY <1>1, <1>2, <1>3, <2>1, <2>2 DEF Lists
<1>5. CASE Len(NextPlaced) # i
  <2>1. /\ DOMAIN sorted_lists' = DOMAIN sorted_lists
        /\ \A s \in DOMAIN sorted_lists \ {i} : sorted_lists'[s] = sorted_lists[s]
        /\ sorted_lists'[i] \in Seq(Buckets) /\ Len(sorted_lists'[i]) = Len(sorted_lists[i])
        /\ \A x \in Left' : Cardinality(Members(sorted_lists'[i][x])) = i
        /\ \A x, y \in Left' : sorted_lists'[i][x] = sorted_lists'[i][y] => x = y
    BY <1>5, LeftAfterFailing
  <2>2. \A s \in 1 .. i - 1 : s \in DOMAIN sorted_lists \ {i}
    BY <1>3
  <2>3. \A s \in 1 .. max_bucket_size : /\ sorted_lists'[s] \in Seq(Buckets)
                                        /\ Len(sorted_lists'[s]) <= nbuckets
    BY <1>3, <2>1
  <2>4. \A s \in 1 .. i - 1 : sorted_lists'[s] \in Bijection(1 .. Len(sorted_lists'[s]), OfSize(s))
    BY <1>3, <2>1, <2>2
  <2> QED BY <1>1, <1>2, <1>3, <2>1, <2>3, <2>4 DEF Lists
<1> QED BY <1>4, <1>5

LEMMA PlaceKeepsTaken ==
  ASSUME IInv, place_bucket_probe
  PROVE  TakenByThePlaced' /\ occup_table' \in [Bin -> 0 .. keys_per_bin]
         /\ disp_table' \in [Buckets -> 0 .. n * n - 1]
<1>1. pc = "searching" /\ pc' = pc /\ pc \in Placing /\ i' = i
      /\ max_bucket_size' = max_bucket_size
      /\ UNCHANGED config /\ n' = n /\ items' = items
  BY DEF place_bucket_probe, Placing, hashing
<1>2. /\ Bin' = Bin /\ m' = m /\ keys_per_bin' = keys_per_bin /\ Configuration
      /\ items \in [1 .. m -> ItemsFor(nbuckets, n)] /\ n \in Nat \ {0, 1} /\ m \in Nat
      /\ \A bucket : IsFiniteSet(Members(bucket)) /\ Cardinality(Members(bucket)) \in 0 .. m
  BY <1>1, SearchFrame
<1>3. /\ occup_table \in [Bin -> 0 .. keys_per_bin] /\ disp_table \in [Buckets -> 0 .. n * n - 1]
      /\ probe0_num \in 0 .. n - 1 /\ probe1_num \in 0 .. n - 1
  BY <1>1 DEF IInv, TypeOK, Bin
<1>4. \A bin \in Bin :
        /\ occup_table[bin] = Cardinality({x \in PlacedItems : PlacedBin(x) = bin})
        /\ occup_table[bin] <= keys_per_bin
  BY <1>1 DEF IInv, TakenByThePlaced
<1>5. CASE Len(NextPlaced) = i
  <2> DEFINE d == probe0_num + probe1_num * n
  <2>1. /\ \A bin \in Bin : /\ occup_table'[bin] = occup_table[bin] + Cardinality(Arriving(bin))
                            /\ occup_table[bin] + Cardinality(Arriving(bin)) <= keys_per_bin
        /\ occup_table' \in [Bin -> Int]
        /\ disp_table' = [disp_table EXCEPT ![NextBucket] = d]
        /\ NextBucket \in Buckets
    BY <1>5, NextBucketPlaceable
  <2>2. Waiting' = Waiting \ {NextBucket} /\ NextBucket \in Waiting
    BY <1>5, LeftAfterPlacing
  <2>3. d \in 0 .. n * n - 1 /\ d % n = probe0_num /\ d \div n = probe1_num
    <3>1. \A k \in Nat \ {0, 1}, x, y \in Nat : x <= k - 1 /\ y <= k - 1 => x + y * k <= k * k - 1
      <4> SUFFICES ASSUME NEW k \in Nat \ {0, 1}, NEW x \in Nat, NEW y \in Nat,
                          x <= k - 1, y <= k - 1
                   PROVE  x + y * k <= k * k - 1
        OBVIOUS
      <4>1. y * k <= (k - 1) * k /\ y * k \in Nat
        OBVIOUS
      <4>2. (k - 1) * k = k * k - k /\ k * k \in Nat
        OBVIOUS
      <4> QED BY <4>1, <4>2
    <3>2. probe0_num \in Nat /\ probe1_num \in Nat /\ probe0_num <= n - 1 /\ probe1_num <= n - 1
      BY <1>3
    <3>3. d <= n * n - 1
      BY <1>2, <3>1, <3>2
    <3>4. d \in Nat /\ n * n - 1 \in Nat
      <4>1. \A k \in Nat \ {0, 1} : k * k - 1 \in Nat
        OBVIOUS
      <4>2. probe1_num * n \in Nat
        BY <1>2, <3>2
      <4> QED BY <1>2, <3>2, <4>1, <4>2
    <3>5. d % n = probe0_num /\ d \div n = probe1_num
      BY <1>2, <1>3, <3>2, ProbeOfADisplacement
    <3> HIDE DEF d
    <3> QED BY <3>3, <3>4, <3>5
  <2> HIDE DEF d
  <2>4. disp_table' \in [Buckets -> 0 .. n * n - 1]
    BY <1>3, <2>1, <2>3
  <2>5. \A x \in 1 .. m : items[x].g \in Buckets
    BY <1>2 DEF ItemsFor, Buckets
  <2>6. PlacedItems' = PlacedItems \cup Members(NextBucket)
        /\ PlacedItems \cap Members(NextBucket) = {}
    BY <1>1, <1>2, <2>2 DEF PlacedItems, Members, Own
  <2>7. \A x \in PlacedItems : PlacedBin(x)' = PlacedBin(x)
    <3>1. \A x \in PlacedItems : items[x].g # NextBucket /\ items[x].g \in Buckets
      BY <2>2, <2>5 DEF PlacedItems
    <3> QED BY <1>1, <1>3, <2>1, <3>1 DEF PlacedBin
  <2>8. \A x \in Members(NextBucket) :
          PlacedBin(x)' = Position(items[x], probe0_num, probe1_num, n)
    <3>1. \A x \in Members(NextBucket) : items[x].g = NextBucket
      BY DEF Members, Own
    <3>2. disp_table'[NextBucket] = d
      BY <1>3, <2>1
    <3> QED BY <1>1, <2>3, <3>1, <3>2 DEF PlacedBin, Displaced
  <2>9. ASSUME NEW bin \in Bin
        PROVE  occup_table'[bin] = Cardinality({x \in PlacedItems' : PlacedBin(x)' = bin})
    <3> DEFINE There == {x \in PlacedItems : PlacedBin(x) = bin}
    <3>1. {x \in PlacedItems' : PlacedBin(x)' = bin} = There \cup Arriving(bin)
      <4>1. Arriving(bin) = {x \in Members(NextBucket) : PlacedBin(x)' = bin}
        BY <2>8 DEF Arriving
      <4>2. There = {x \in PlacedItems : PlacedBin(x)' = bin}
        BY <2>7
      <4> HIDE DEF There
      <4> DEFINE P == PlacedItems'
                 At1(x) == PlacedBin(x)'
      <4>3. P = PlacedItems \cup Members(NextBucket)
        BY <2>6
      <4>4. Arriving(bin) = {x \in Members(NextBucket) : At1(x) = bin}
            /\ There = {x \in PlacedItems : At1(x) = bin}
        BY <4>1, <4>2
      <4> HIDE DEF P, At1
      <4>5. {x \in P : At1(x) = bin} = There \cup Arriving(bin)
        BY <4>3, <4>4
      <4> QED BY <4>5 DEF P, At1
    <3>2. There \cap Arriving(bin) = {}
      BY <2>6 DEF Arriving
    <3>3. IsFiniteSet(There) /\ IsFiniteSet(Arriving(bin))
      <4>1. IsFiniteSet(1 .. m) /\ There \in SUBSET (1 .. m)
        <5>1. IsFiniteSet(1 .. m)
          BY <1>2, FS_Interval
        <5>2. There \in SUBSET (1 .. m)
          BY DEF PlacedItems
        <5> QED BY <5>1, <5>2
      <4>2. Arriving(bin) \in SUBSET Members(NextBucket) /\ IsFiniteSet(Members(NextBucket))
        BY <1>2 DEF Arriving
      <4> HIDE DEF There
      <4> QED BY <4>1, <4>2, FS_Subset
    <3>4. Cardinality(There \cup Arriving(bin)) = Cardinality(There) + Cardinality(Arriving(bin))
      <4> HIDE DEF There
      <4>1. Cardinality(There \cup Arriving(bin)) =
              Cardinality(There) + Cardinality(Arriving(bin)) - Cardinality(There \cap Arriving(bin))
        BY <3>3, FS_Union
      <4>2. Cardinality(There \cap Arriving(bin)) = 0
        BY <3>2, FS_EmptySet
      <4>3. Cardinality(There) \in Nat /\ Cardinality(Arriving(bin)) \in Nat
        BY <3>3, FS_CardinalityType
      <4> QED BY <4>1, <4>2, <4>3
    <3>5. occup_table[bin] = Cardinality(There)
      BY <1>4
    <3> HIDE DEF There
    <3> QED BY <2>1, <3>1, <3>4, <3>5
  <2>10. occup_table' \in [Bin -> 0 .. keys_per_bin]
    <3>1. \A bin \in Bin : Cardinality(Arriving(bin)) \in Nat
      <4>1. \A bin \in Bin : Arriving(bin) \in SUBSET Members(NextBucket)
        BY DEF Arriving
      <4> QED BY <1>2, <4>1, FS_Subset, FS_CardinalityType
    <3>2. keys_per_bin \in Nat
      BY <1>2 DEF Configuration
    <3>3. \A bin \in Bin : occup_table[bin] \in Nat
      BY <1>3, <3>2
    <3>4. \A bin \in Bin : occup_table'[bin] \in 0 .. keys_per_bin
      BY <2>1, <3>1, <3>2, <3>3
    <3> QED BY <2>1, <3>4
  <2>11. \A bin \in Bin : occup_table'[bin] <= keys_per_bin
    BY <2>1
  <2> QED BY <1>1, <1>2, <2>4, <2>9, <2>10, <2>11 DEF TakenByThePlaced
<1>6. CASE Len(NextPlaced) # i
  <2>1. occup_table' = occup_table /\ disp_table' = disp_table
    BY <1>6, NextBucketPlaceable
  <2>2. Waiting' = Waiting
    BY <1>6, LeftAfterFailing
  <2>3. PlacedItems' = PlacedItems /\ \A x : PlacedBin(x)' = PlacedBin(x)
    BY <1>1, <1>2, <2>1, <2>2 DEF PlacedItems, PlacedBin
  <2> QED BY <1>1, <1>2, <1>3, <1>4, <2>1, <2>3 DEF TakenByThePlaced
<1> QED BY <1>5, <1>6

LEMMA PlaceKeeps ==
  ASSUME IInv, place_bucket_probe
  PROVE  IInv'
<1>1. pc = "searching" /\ pc' = pc /\ pc \in Placing /\ i' = i /\ list_size' = list_size
      /\ j < list_size /\ j' = j + 1 /\ max_bucket_size' = max_bucket_size
      /\ UNCHANGED config /\ n' = n /\ items' = items /\ hl' = hl
      /\ iterations' = iterations /\ mapping_iterations' = mapping_iterations
      /\ probe_num' = probe_num /\ probe0_num' = probe0_num /\ probe1_num' = probe1_num
  BY DEF place_bucket_probe, Placing, hashing, counters, probes
<1>2. /\ Configuration' /\ m' = m /\ nbuckets' = nbuckets /\ Buckets' = Buckets /\ Bin' = Bin
      /\ max_probes' = max_probes /\ keys' = keys /\ keys_per_bin' = keys_per_bin
      /\ nbuckets \in Nat \ {0} /\ Hashed' /\ n \in Nat \ {0, 1}
  BY <1>1, SearchFrame
<1>3. Lists' /\ \A s \in DOMAIN sorted_lists' : sorted_lists'[s] \in Seq(Buckets)
  BY PlaceKeepsLists
<1>4. TakenByThePlaced' /\ occup_table' \in [Bin -> 0 .. keys_per_bin]
      /\ disp_table' \in [Buckets -> 0 .. n * n - 1]
  BY PlaceKeepsTaken
<1>5. TypeOK'
  <2>1. /\ iterations \in 0 .. Iterations /\ mapping_iterations \in 0 .. MappingIterations
        /\ hl = <<>> \/ (hl = hash_state_new(hl.seed) /\ hl.seed \in Seeds(keys))
        /\ max_bucket_size \in 0 .. m /\ i \in 0 .. m
        /\ list_size \in 0 .. nbuckets /\ j \in 0 .. list_size /\ non_placed_bucket \in 0 .. j
        /\ probe_num \in 0 .. max_probes
        /\ probe0_num \in Bin /\ probe1_num \in Bin
    BY <1>1 DEF IInv, TypeOK
  <2>2. non_placed_bucket' = non_placed_bucket \/ non_placed_bucket' = non_placed_bucket + 1
    BY NextBucketPlaceable
  <2>3. j' \in 0 .. list_size /\ non_placed_bucket' \in 0 .. j'
    BY <1>1, <1>2, <2>1, <2>2
  <2> QED BY <1>1, <1>2, <1>3, <1>4, <2>1, <2>3 DEF TypeOK
<1>6. Began' /\ Trials' /\ Emptied' /\ SeveralKeys' /\ Size'
  BY <1>1, <1>2 DEF IInv, Began, Trials, Emptied, SeveralKeys, Size
<1> QED BY <1>2, <1>3, <1>4, <1>5, <1>6 DEF IInv

\* A step that neither takes a bin nor notes a displacement keeps what is
\* said of them if as many buckets wait as before.
LEMMA TakenAsBefore ==
  ASSUME IInv, pc \in Placing, UNCHANGED config, n' = n, items' = items,
         max_bucket_size' = max_bucket_size,
         occup_table' = occup_table, disp_table' = disp_table, Waiting' = Waiting
  PROVE  TakenByThePlaced'
<1>1. Bin' = Bin /\ m' = m /\ keys_per_bin' = keys_per_bin
  BY SearchFrame
<1>2. PlacedItems' = PlacedItems /\ \A x : PlacedBin(x)' = PlacedBin(x)
  BY <1>1 DEF PlacedItems, PlacedBin
<1>3. \A bin \in Bin :
        /\ occup_table[bin] = Cardinality({x \in PlacedItems : PlacedBin(x) = bin})
        /\ occup_table[bin] <= keys_per_bin
  BY DEF IInv, TakenByThePlaced, Placing
<1> QED BY <1>1, <1>2, <1>3 DEF TakenByThePlaced

LEMMA NextProbeKeeps ==
  ASSUME IInv, NextProbe
  PROVE  IInv'
<1>1. /\ pc = "searching" /\ pc' = pc /\ pc \in Placing /\ i' = i /\ max_bucket_size' = max_bucket_size
      /\ UNCHANGED config /\ n' = n /\ items' = items /\ hl' = hl
      /\ iterations' = iterations /\ mapping_iterations' = mapping_iterations
      /\ j = list_size /\ list_size # 0 /\ list_size' = non_placed_bucket /\ j' = 0
      /\ non_placed_bucket' = 0 /\ sorted_lists' = sorted_lists
      /\ occup_table' = occup_table /\ disp_table' = disp_table
  BY DEF NextProbe, AtEndOfList, Placing, hashing, counters
<1>2. /\ Configuration' /\ m' = m /\ nbuckets' = nbuckets /\ Buckets' = Buckets /\ Bin' = Bin
      /\ max_probes' = max_probes /\ keys' = keys /\ keys_per_bin' = keys_per_bin
      /\ nbuckets \in Nat \ {0} /\ Hashed' /\ n \in Nat \ {0, 1} /\ max_probes \in Nat
      /\ m \in Nat \ {0}
      /\ \A bucket : Members(bucket)' = Members(bucket)
      /\ \A s : OfSize(s)' = OfSize(s)
  BY <1>1, SearchFrame
<1>3. /\ iterations \in 0 .. Iterations /\ mapping_iterations \in 0 .. MappingIterations
      /\ hl = <<>> \/ (hl = hash_state_new(hl.seed) /\ hl.seed \in Seeds(keys))
      /\ max_bucket_size \in 0 .. m /\ i \in 0 .. m
      /\ list_size \in 0 .. nbuckets /\ j \in 0 .. list_size /\ non_placed_bucket \in 0 .. j
      /\ probe_num \in 0 .. max_probes
      /\ probe0_num \in 0 .. n - 1 /\ probe1_num \in 0 .. n - 1
      /\ occup_table \in [Bin -> 0 .. keys_per_bin] /\ disp_table \in [Buckets -> 0 .. n * n - 1]
  BY <1>1 DEF IInv, TypeOK, Bin
<1>4. /\ i \in 1 .. max_bucket_size /\ i \in Nat
      /\ DOMAIN sorted_lists = 1 .. max_bucket_size
      /\ \A s \in 1 .. max_bucket_size : /\ sorted_lists[s] \in Seq(Buckets)
                                         /\ Len(sorted_lists[s]) <= nbuckets
      /\ \A s \in 1 .. i - 1 : sorted_lists[s] \in Bijection(1 .. Len(sorted_lists[s]), OfSize(s))
      /\ list_size <= Len(sorted_lists[i]) /\ Len(sorted_lists[i]) \in Nat
      /\ \A x \in Left : Cardinality(Members(sorted_lists[i][x])) = i
      /\ \A x, y \in Left : sorted_lists[i][x] = sorted_lists[i][y] => x = y
      /\ list_size \in Nat /\ non_placed_bucket \in Nat
  BY <1>1, ListsTyped
<1>5. Left' = Left
  <2>1. Left' = 1 .. 0 \cup 0 + 1 .. non_placed_bucket
    BY <1>1 DEF Left
  <2>2. Left = 1 .. non_placed_bucket \cup list_size + 1 .. list_size
    BY <1>1 DEF Left
  <2> QED BY <1>4, <2>1, <2>2
<1>6. TypeOK'
  <2>1. /\ ~(probe_num + 1 >= max_probes) /\ ~(probe0_num + 1 >= n /\ probe1_num + 1 >= n)
        /\ probe_num' = probe_num + 1
        /\ probe0_num' = (probe0_num + 1) % n
        /\ probe1_num' = IF probe0_num + 1 >= n THEN probe1_num + 1 ELSE probe1_num
    BY DEF NextProbe, OutOfProbes, AdvancesProbe
  <2>2. probe_num' \in 0 .. max_probes
    BY <1>2, <1>3, <2>1
  <2>3. probe0_num' \in 0 .. n - 1
    <3>1. probe0_num + 1 \in Nat /\ n \in Nat \ {0}
      BY <1>2, <1>3
    <3> QED BY <2>1, <3>1, Quotient
  <2>4. probe1_num' \in 0 .. n - 1
    BY <1>2, <1>3, <2>1
  <2>5. /\ list_size' \in 0 .. nbuckets /\ j' \in 0 .. list_size' /\ non_placed_bucket' \in 0 .. j'
    BY <1>1, <1>2, <1>3
  <2>6. \A s \in DOMAIN sorted_lists' : sorted_lists'[s] \in Seq(Buckets)
    BY <1>1, <1>4
  <2>7. probe0_num' \in Bin /\ probe1_num' \in Bin
    BY <2>3, <2>4 DEF Bin
  <2> QED BY <1>1, <1>2, <1>3, <2>2, <2>5, <2>6, <2>7 DEF TypeOK
<1>7. Began' /\ Trials' /\ Emptied' /\ Size'
  BY <1>1, <1>2 DEF IInv, Began, Trials, Emptied, Size
<1>8. Lists'
  <2>1. non_placed_bucket <= Len(sorted_lists[i])
    BY <1>3, <1>4
  <2> QED BY <1>1, <1>2, <1>4, <1>5, <2>1 DEF Lists
<1>9. SeveralKeys'
  <2>1. m # 1
    <3>1. ~(probe_num + 1 >= max_probes) /\ probe_num \in Nat
      BY <1>2, <1>3 DEF NextProbe, OutOfProbes
    <3>2. max_probes # 0
      BY <1>2, <3>1
    <3> QED BY <3>2, ChdAssumption DEF max_probes
  <2> QED BY <1>2, <2>1 DEF SeveralKeys
<1>10. TakenByThePlaced'
  <2>1. Waiting' = Waiting
    <3>1. \A s \in 1 .. i' - 1 : sorted_lists'[s] \in Bijection(1 .. Len(sorted_lists'[s]), OfSize(s))
      BY <1>1, <1>4
    <3> QED BY <1>1, <1>4, <1>5, <3>1, WaitingNext, WaitingNow
  <2> QED BY <1>1, <2>1, TakenAsBefore
<1> QED BY <1>2, <1>6, <1>7, <1>8, <1>9, <1>10 DEF IInv

\* The search starts again, or is given up.
LEMMA SearchFailsKeeps ==
  ASSUME IInv, SearchFails
  PROVE  IInv'
<1>1. /\ pc = "searching" /\ pc \in Placing /\ UNCHANGED config /\ n' = n
      /\ pc' = IF iterations = 1 THEN "failed" ELSE "mapping"
      /\ iterations' = iterations - 1 /\ mapping_iterations' = MappingIterations
      /\ occup_table' = [bin \in Bin |-> 0] /\ disp_table' = disp_table
      /\ hl' = <<>> /\ max_bucket_size' = 0 /\ sorted_lists' = <<>>
      /\ i' = 0 /\ list_size' = 0 /\ j' = 0 /\ non_placed_bucket' = 0
      /\ probe_num' = 0 /\ probe0_num' = 0 /\ probe1_num' = 0
  BY DEF SearchFails, StartsList, AtEndOfList, Placing
<1>2. /\ Configuration /\ iterations \in 0 .. Iterations /\ iterations # 0 /\ n \in Nat \ {0, 1}
      /\ disp_table \in [Buckets -> 0 .. n * n - 1]
  BY <1>1 DEF IInv, TypeOK, Trials, Began
<1>3. /\ Configuration' /\ m' = m /\ nbuckets' = nbuckets /\ Buckets' = Buckets
      /\ max_probes' = max_probes /\ keys' = keys /\ keys_per_bin' = keys_per_bin
      /\ nbuckets \in Nat \ {0} /\ m \in Nat \ {0} /\ max_probes \in Nat /\ Bin' = Bin
  BY <1>1, <1>2, SameNumbers DEF Bin
<1>4. TypeOK'
  <2>1. 0 \in Bin /\ 0 \in 0 .. m /\ 0 \in 0 .. nbuckets /\ 0 \in 0 .. max_probes /\ 0 \in 0 .. 0
    <3>1. \A k \in Nat \ {0, 1} : 0 \in 0 .. k - 1
      OBVIOUS
    <3> QED BY <1>2, <1>3, <3>1 DEF Bin
  <2>2. iterations' \in 0 .. Iterations /\ mapping_iterations' \in 0 .. MappingIterations
    BY <1>1, <1>2, ChdAssumption
  <2>3. occup_table' \in [Bin -> 0 .. keys_per_bin]
    <3>1. 0 \in 0 .. keys_per_bin
      BY <1>2 DEF Configuration
    <3> QED BY <1>1, <3>1
  <2>4. \A s \in DOMAIN sorted_lists' : sorted_lists'[s] \in Seq(Buckets')
    BY <1>1
  <2>5. pc' \in {"failed", "mapping"}
    BY <1>1
  <2> QED BY <1>1, <1>2, <1>3, <2>1, <2>2, <2>3, <2>4, <2>5 DEF TypeOK
<1>5. Began' /\ Trials' /\ Emptied'
  <2>1. iterations # 1 => iterations' # 0
    BY <1>1, <1>2, ChdAssumption
  <2>2. MappingIterations # 0
    BY ChdAssumption
  <2>3. pc' # "new" /\ Began'
    BY <1>1, <1>2 DEF Began
  <2>4. Trials'
    BY <1>1, <2>1, <2>2 DEF Trials
  <2>5. Emptied'
    BY <1>1, <1>3 DEF Emptied
  <2> QED BY <2>3, <2>4, <2>5
<1>6. Hashed' /\ Lists' /\ SeveralKeys' /\ Size' /\ TakenByThePlaced'
  <2>1. pc' \notin Placing \cup {"ordering", "searching", "compressing", "closing", "done"}
    BY <1>1 DEF Placing
  <2> QED BY <2>1 DEF Hashed, Lists, SeveralKeys, Size, TakenByThePlaced
<1> QED BY <1>3, <1>4, <1>5, <1>6 DEF IInv

\* With no bucket left the next smaller size begins; after the last one the
\* displacements are stored.
LEMMA NextSizeKeeps ==
  ASSUME IInv, NextSize
  PROVE  IInv'
<1>1. /\ pc = "searching" /\ pc \in Placing /\ max_bucket_size' = max_bucket_size
      /\ UNCHANGED config /\ n' = n /\ items' = items /\ hl' = hl
      /\ iterations' = iterations /\ mapping_iterations' = mapping_iterations
      /\ list_size = 0 /\ sorted_lists' = sorted_lists
      /\ occup_table' = occup_table /\ disp_table' = disp_table
  BY DEF NextSize, Placing, hashing, counters
<1>2. /\ Configuration' /\ m' = m /\ nbuckets' = nbuckets /\ Buckets' = Buckets /\ Bin' = Bin
      /\ max_probes' = max_probes /\ keys' = keys /\ keys_per_bin' = keys_per_bin
      /\ nbuckets \in Nat \ {0} /\ n \in Nat \ {0, 1} /\ max_probes \in Nat
      /\ m \in Nat \ {0}
      /\ \A bucket : Members(bucket)' = Members(bucket)
      /\ \A s : OfSize(s)' = OfSize(s)
  BY <1>1, SearchFrame
<1>3. /\ iterations \in 0 .. Iterations /\ mapping_iterations \in 0 .. MappingIterations
      /\ hl = <<>> \/ (hl = hash_state_new(hl.seed) /\ hl.seed \in Seeds(keys))
      /\ max_bucket_size \in 0 .. m /\ i \in 0 .. m
      /\ list_size \in 0 .. nbuckets /\ j \in 0 .. list_size /\ non_placed_bucket \in 0 .. j
      /\ probe_num \in 0 .. max_probes /\ probe0_num \in Bin /\ probe1_num \in Bin
      /\ occup_table \in [Bin -> 0 .. keys_per_bin] /\ disp_table \in [Buckets -> 0 .. n * n - 1]
  BY <1>1 DEF IInv, TypeOK
<1>4. /\ i \in 1 .. max_bucket_size /\ i \in Nat \ {0} /\ max_bucket_size \in Nat
      /\ DOMAIN sorted_lists = 1 .. max_bucket_size
      /\ \A s \in 1 .. max_bucket_size : /\ sorted_lists[s] \in Seq(Buckets)
                                         /\ Len(sorted_lists[s]) \in Nat
                                         /\ Len(sorted_lists[s]) <= nbuckets
      /\ \A s \in 1 .. i - 1 : sorted_lists[s] \in Bijection(1 .. Len(sorted_lists[s]), OfSize(s))
      /\ list_size <= Len(sorted_lists[i])
  BY <1>1, ListsTyped
<1>5. m # 1
  BY <1>1 DEF IInv, SeveralKeys
<1>6. SeveralKeys'
  BY <1>2, <1>5 DEF SeveralKeys
<1>7. Left = {}
  BY <1>1, <1>3 DEF Left
<1>8. Waiting = {bucket \in Buckets : Cardinality(Members(bucket)) \in 1 .. i - 1}
  BY <1>1, <1>7, WaitingNow
<1>9. CASE i > 1
  <2> DEFINE list == sorted_lists[i - 1]
  <2>1. /\ pc' = pc /\ i' = i - 1 /\ list_size' = Len(list) /\ j' = 0 /\ non_placed_bucket' = 0
        /\ probe_num' = 0 /\ probe0_num' = 0 /\ probe1_num' = 0
    BY <1>9 DEF NextSize, StartsList
  <2>2. i - 1 \in 1 .. i - 1 /\ i - 1 \in 1 .. max_bucket_size
        /\ \A s \in 1 .. (i - 1) - 1 : s \in 1 .. i - 1
    BY <1>4, <1>9
  <2>3. /\ list \in Seq(Buckets) /\ Len(list) \in Nat /\ Len(list) <= nbuckets
        /\ list \in Bijection(1 .. Len(list), OfSize(i - 1))
    BY <1>4, <2>2
  <2>4. Left' = 1 .. Len(list)
    <3>1. Left' = 1 .. 0 \cup 0 + 1 .. Len(list)
      BY <2>1 DEF Left
    <3> QED BY <3>1
  <2>5. /\ \A x \in 1 .. Len(list) : list[x] \in OfSize(i - 1)
        /\ \A x, y \in 1 .. Len(list) : list[x] = list[y] => x = y
        /\ \A bucket \in OfSize(i - 1) : \E x \in 1 .. Len(list) : list[x] = bucket
    <3> HIDE DEF list
    <3> QED BY <2>3 DEF Bijection, Injection, Surjection, IsInjective
  <2>6. sorted_lists'[i'] = list
    BY <1>1, <2>1
  <2> HIDE DEF list
  <2>7. TypeOK'
    <3>1. /\ list_size' \in 0 .. nbuckets /\ j' \in 0 .. list_size' /\ non_placed_bucket' \in 0 .. j'
          /\ i' \in 0 .. m
      BY <1>2, <1>3, <1>9, <2>1, <2>3
    <3>2. 0 \in Bin /\ 0 \in 0 .. max_probes
      <4>1. \A k \in Nat \ {0, 1} : 0 \in 0 .. k - 1
        OBVIOUS
      <4> QED BY <1>2, <4>1 DEF Bin
    <3>3. \A s \in DOMAIN sorted_lists' : sorted_lists'[s] \in Seq(Buckets)
      BY <1>1, <1>4
    <3> QED BY <1>1, <1>2, <1>3, <2>1, <3>1, <3>2, <3>3 DEF TypeOK
  <2>8. Began' /\ Trials' /\ Emptied' /\ Hashed' /\ Size'
    <3>1. Hashed'
      BY <1>1, SearchFrame
    <3> QED BY <1>1, <1>2, <2>1, <3>1 DEF IInv, Began, Trials, Emptied, Size
  <2>9. Lists'
    <3>1. \A s \in 1 .. (i - 1) - 1 :
            sorted_lists'[s] \in Bijection(1 .. Len(sorted_lists'[s]), OfSize(s))
      BY <1>1, <1>4, <2>2
    <3>2. Len(list) <= Len(list)
      BY <2>3
    <3>3. \A x \in 1 .. Len(list) : Cardinality(Members(list[x])) = i - 1
      BY <2>5 DEF OfSize
    <3> QED BY <1>1, <1>2, <1>4, <2>1, <2>2, <2>4, <2>5, <2>6, <3>1, <3>2, <3>3 DEF Lists
  <2>10. Waiting' = Waiting
    <3> DEFINE Smaller == {bucket \in Buckets : Cardinality(Members(bucket)) \in 1 .. (i - 1) - 1}
               Listed == {list[x] : x \in 1 .. Len(list)}
               Small == {bucket \in Buckets : Cardinality(Members(bucket)) \in 1 .. i - 1}
    <3>1. Waiting' = Smaller \cup Listed
      <4>1. i' \in Nat /\ \A s \in 1 .. i' - 1 :
              sorted_lists'[s] \in Bijection(1 .. Len(sorted_lists'[s]), OfSize(s))
        BY <1>1, <1>4, <2>1, <2>2
      <4> QED BY <2>1, <2>4, <2>6, <4>1, WaitingNext
    <3>2. Listed = OfSize(i - 1)
      BY <2>5
    <3>3. Small = Smaller \cup OfSize(i - 1)
      <4>1. \A bucket \in Buckets :
              Cardinality(Members(bucket)) \in 1 .. i - 1
                <=> Cardinality(Members(bucket)) \in 1 .. (i - 1) - 1
                      \/ Cardinality(Members(bucket)) = i - 1
        BY <1>4, <1>9
      <4> QED BY <4>1 DEF OfSize
    <3> HIDE DEF Smaller, Listed
    <3> QED BY <1>8, <3>1, <3>2, <3>3
  <2>11. TakenByThePlaced'
    BY <1>1, <2>10, TakenAsBefore
  <2> QED BY <1>2, <1>6, <2>7, <2>8, <2>9, <2>11 DEF IInv
<1>10. CASE ~(i > 1)
  <2>1. /\ pc' = "compressing" /\ i' = i /\ list_size' = list_size /\ j' = j
        /\ non_placed_bucket' = non_placed_bucket /\ probe_num' = probe_num
        /\ probe0_num' = probe0_num /\ probe1_num' = probe1_num
    BY <1>10 DEF NextSize, probes
  <2>2. TypeOK'
    <3>1. \A s \in DOMAIN sorted_lists' : sorted_lists'[s] \in Seq(Buckets)
      BY <1>1, <1>4
    <3> QED BY <1>1, <1>2, <1>3, <2>1, <3>1 DEF TypeOK
  <2>3. Began' /\ Trials' /\ Emptied' /\ Hashed' /\ Size'
    <3>1. Hashed'
      BY <1>1, SearchFrame
    <3> QED BY <1>1, <1>2, <2>1, <3>1 DEF IInv, Began, Trials, Emptied, Size
  <2>4. Left' = Left
    BY <2>1 DEF Left
  <2>5. Lists'
    <3>1. i = 1
      BY <1>4, <1>10
    <3> QED BY <1>1, <1>2, <1>4, <1>7, <2>1, <2>4, <3>1 DEF Lists
  <2>6. TakenByThePlaced'
    <3>1. Waiting' = Waiting
      BY <1>1, <2>1 DEF Waiting
    <3> QED BY <1>1, <3>1, TakenAsBefore
  <2> QED BY <1>2, <1>6, <2>2, <2>3, <2>5, <2>6 DEF IInv
<1> QED BY <1>9, <1>10

\* A step that only changes the function and pc, after the search.
LEMMA StoringKeeps ==
  ASSUME IInv, pc \in {"compressing", "closing"}, pc' \in {"closing", "done", "aborted"},
         UNCHANGED <<config, counters, hashing, lists, probes, occup_table, disp_table>>,
         Size'
  PROVE  IInv'
<1>1. /\ pc \in Placing /\ pc # "searching" /\ max_bucket_size' = max_bucket_size
      /\ UNCHANGED config /\ n' = n /\ items' = items /\ hl' = hl
      /\ iterations' = iterations /\ mapping_iterations' = mapping_iterations
      /\ sorted_lists' = sorted_lists /\ i' = i /\ list_size' = list_size /\ j' = j
      /\ non_placed_bucket' = non_placed_bucket /\ probe_num' = probe_num
      /\ probe0_num' = probe0_num /\ probe1_num' = probe1_num
      /\ occup_table' = occup_table /\ disp_table' = disp_table
  BY DEF Placing, hashing, counters, lists, probes
<1>2. /\ Configuration' /\ m' = m /\ nbuckets' = nbuckets /\ Buckets' = Buckets /\ Bin' = Bin
      /\ max_probes' = max_probes /\ keys' = keys /\ keys_per_bin' = keys_per_bin
      /\ n \in Nat \ {0, 1} /\ Hashed'
      /\ \A bucket : Members(bucket)' = Members(bucket)
      /\ \A s : OfSize(s)' = OfSize(s)
  BY <1>1, SearchFrame
<1>3. Left' = Left /\ Waiting' = Waiting
  BY <1>1 DEF Left, Waiting
<1>4. TypeOK'
  <2>1. /\ iterations \in 0 .. Iterations /\ mapping_iterations \in 0 .. MappingIterations
        /\ hl = <<>> \/ (hl = hash_state_new(hl.seed) /\ hl.seed \in Seeds(keys))
        /\ max_bucket_size \in 0 .. m /\ i \in 0 .. m
        /\ \A s \in DOMAIN sorted_lists : sorted_lists[s] \in Seq(Buckets)
        /\ list_size \in 0 .. nbuckets /\ j \in 0 .. list_size /\ non_placed_bucket \in 0 .. j
        /\ probe_num \in 0 .. max_probes /\ probe0_num \in Bin /\ probe1_num \in Bin
        /\ occup_table \in [Bin -> 0 .. keys_per_bin]
        /\ disp_table \in [Buckets -> 0 .. n * n - 1]
    BY <1>1 DEF IInv, TypeOK, Placing
  <2> QED BY <1>1, <1>2, <2>1 DEF TypeOK
<1>5. Began' /\ Trials' /\ Emptied'
  BY <1>1, <1>2 DEF Began, Trials, Emptied
<1>6. SeveralKeys'
  BY <1>1, <1>2 DEF IInv, SeveralKeys, Placing
<1>7. Lists'
  BY <1>1, <1>2, <1>3 DEF IInv, Lists
<1>8. TakenByThePlaced'
  BY <1>1, <1>3, TakenAsBefore
<1> QED BY <1>2, <1>4, <1>5, <1>6, <1>7, <1>8 DEF IInv

LEMMA CompressesKeeps ==
  ASSUME IInv, Compresses
  PROVE  IInv'
<1>1. /\ pc = "compressing" /\ pc' = IF algo = "chd" THEN "closing" ELSE "done"
      /\ UNCHANGED <<config, counters, hashing, lists, probes, occup_table, disp_table>>
      /\ mphf'.size = n /\ n' = n /\ algo' = algo /\ m' = m
  BY DEF Compresses, hashing, config, m
<1>2. Size'
  BY <1>1 DEF Size
<1> QED BY <1>1, <1>2, StoringKeeps

LEMMA RanksKeeps ==
  ASSUME IInv, Ranks
  PROVE  IInv'
<1>1. /\ pc = "closing" /\ pc' \in {"done", "aborted"}
      /\ UNCHANGED <<config, counters, hashing, lists, probes, occup_table, disp_table>>
      /\ (pc' = "done" => mphf'.size = m) /\ algo' = algo /\ m' = m /\ algo = "chd"
  <2>1. pc = "closing" /\ algo = "chd"
    BY DEF Ranks, IInv, Size
  <2>2. UNCHANGED <<config, counters, hashing, lists, probes, occup_table, disp_table>>
    BY DEF Ranks
  <2>3. algo' = algo /\ m' = m
    BY <2>2 DEF config, m
  <2>4. pc' \in {"done", "aborted"} /\ (pc' = "done" => mphf'.size = m)
    BY DEF Ranks
  <2> QED BY <2>1, <2>2, <2>3, <2>4
<1>2. Size'
  BY <1>1 DEF Size
<1> QED BY <1>1, <1>2, StoringKeeps

LEMMA StepKeeps ==
  ASSUME IInv, [chd_new]_vars
  PROVE  IInv'
<1>1. CASE chd_new
  BY <1>1, CalledKeeps, MappingKeeps, OrderingKeeps, PlaceKeeps, NextProbeKeeps, SearchFailsKeeps,
     NextSizeKeeps, CompressesKeeps, RanksKeeps DEF chd_new, Searches, chd_ph_searching
<1>2. CASE UNCHANGED vars
  <2>1. /\ UNCHANGED config /\ keys' = keys /\ algo' = algo /\ c' = c /\ b' = b
        /\ keys_per_bin' = keys_per_bin /\ pc' = pc /\ iterations' = iterations
        /\ mapping_iterations' = mapping_iterations /\ n' = n /\ hl' = hl /\ items' = items
        /\ max_bucket_size' = max_bucket_size /\ sorted_lists' = sorted_lists /\ i' = i
        /\ list_size' = list_size /\ j' = j /\ non_placed_bucket' = non_placed_bucket
        /\ probe_num' = probe_num /\ probe0_num' = probe0_num /\ probe1_num' = probe1_num
        /\ occup_table' = occup_table /\ disp_table' = disp_table /\ mphf' = mphf
    BY <1>2 DEF vars, config, counters, hashing, lists, probes
  <2>2. m' = m /\ nbuckets' = nbuckets /\ Buckets' = Buckets /\ Bin' = Bin
        /\ max_probes' = max_probes
    BY <2>1 DEF m, nbuckets, Buckets, Bin, max_probes
  <2>3. (\A bucket : Members(bucket)' = Members(bucket)) /\ Left' = Left /\ Waiting' = Waiting
    BY <2>1, <2>2 DEF Members, Own, Left, Waiting
  <2>4. \A s : OfSize(s)' = OfSize(s)
    BY <2>2, <2>3 DEF OfSize
  <2>5. PlacedItems' = PlacedItems /\ \A x : PlacedBin(x)' = PlacedBin(x)
    BY <2>1, <2>2, <2>3 DEF PlacedItems, PlacedBin
  <2>6. Configuration' /\ TypeOK' /\ Began' /\ Trials' /\ Emptied' /\ Size' /\ SeveralKeys'
    BY <2>1, <2>2 DEF IInv, Configuration, TypeOK, Began, Trials, Emptied, Size, SeveralKeys
  <2>7. Hashed' /\ Lists'
    BY <2>1, <2>2, <2>3, <2>4 DEF IInv, Hashed, Lists
  <2>8. TakenByThePlaced'
    BY <2>1, <2>2, <2>5 DEF IInv, TakenByThePlaced
  <2> QED BY <2>6, <2>7, <2>8 DEF IInv
<1> QED BY <1>1, <1>2

---------------------------------------------------------------------------
(* The theorems. *)

LEMMA AlwaysGood == Spec => []IInv
<1>1. Configured => IInv
  BY InitGood
<1>2. IInv /\ [chd_new]_vars => IInv'
  BY StepKeeps
<1> QED BY <1>1, <1>2, PTL DEF Spec

\* The types of chd_ph_new's state, of any keys: the probes stay below the
\* number of bins and the lists hold buckets only.
THEOREM TypeCorrect == Spec => []TypeOK
<1>1. IInv => TypeOK
  BY DEF IInv
<1> QED BY <1>1, AlwaysGood, PTL

\* place_buckets2 loses no bucket and fills no bin beyond keys_per_bin, for
\* any keys, seeds and number of probes: what a failed probe has put in the
\* table it takes out again, and the list it writes over at its front
\* still has every bucket that was not placed.
THEOREM BinsHoldThePlaced == Spec => []TakenByThePlaced
<1>1. IInv => TakenByThePlaced
  BY DEF IInv
<1> QED BY <1>1, AlwaysGood, PTL

---------------------------------------------------------------------------
(* After the search: every key has a bin, and the bins that are taken. *)

Bound == {"compressing", "closing", "done"}
Taken == {bin \in Bin : occup_table[bin] # 0}
In(bin) == {x \in 1 .. m : PlacedBin(x) = bin}

LEMMA AllArePlaced ==
  ASSUME IInv, pc \in Bound
  PROVE  /\ m \in Nat \ {0, 1} /\ n \in Nat \ {0, 1} /\ keys_per_bin \in Nat \ {0}
         /\ \A x \in 1 .. m : PlacedBin(x) \in Taken
         /\ \A bin : IsFiniteSet(In(bin))
         /\ \A bin \in Bin : /\ occup_table[bin] = Cardinality(In(bin))
                             /\ occup_table[bin] \in 0 .. keys_per_bin
         /\ \A bin \in Taken : \E x \in 1 .. m : PlacedBin(x) = bin
<1>1. pc \in Placing /\ pc # "searching" /\ pc # "new"
  BY DEF Bound, Placing
<1>2. /\ m \in Nat \ {0} /\ n \in Nat \ {0, 1} /\ nbuckets \in Nat \ {0} /\ Configuration
      /\ items \in [1 .. m -> ItemsFor(nbuckets, n)]
  BY <1>1, Numbers DEF IInv, Began, Hashed
<1>3. m # 1 /\ keys_per_bin \in 1 .. 127
  BY <1>1, <1>2 DEF IInv, SeveralKeys, Configuration
<1>4. /\ i = 1 /\ list_size = 0
  BY <1>1 DEF IInv, Lists
<1>5. Waiting = {}
  <2>1. Left = {}
    <3>1. j \in 0 .. list_size /\ non_placed_bucket \in 0 .. j
      BY DEF IInv, TypeOK
    <3> QED BY <1>4, <3>1 DEF Left
  <2>2. \A k : ~(k \in 1 .. 1 - 1)
    OBVIOUS
  <2> QED BY <1>1, <1>4, <2>1, <2>2, WaitingNow
<1>6. PlacedItems = 1 .. m
  BY <1>5 DEF PlacedItems
<1>7. /\ \A bin \in Bin : occup_table[bin] = Cardinality(In(bin))
      /\ occup_table \in [Bin -> 0 .. keys_per_bin] /\ disp_table \in [Buckets -> 0 .. n * n - 1]
  BY <1>1, <1>6 DEF IInv, TypeOK, TakenByThePlaced, Placing, In
<1>8. \A bin : IsFiniteSet(In(bin))
  <2>1. IsFiniteSet(1 .. m)
    BY <1>2, FS_Interval
  <2> QED BY <2>1, FS_Subset DEF In
<1>9. ASSUME NEW x \in 1 .. m PROVE PlacedBin(x) \in Taken
  <2> DEFINE item == items[x]
             d == disp_table[item.g]
             bin == PlacedBin(x)
  <2>1. item \in ItemsFor(nbuckets, n)
    BY <1>2
  <2>2. item.g \in Buckets
    BY <2>1 DEF ItemsFor, Buckets
  <2>3. d \in Nat
    BY <1>7, <2>2
  <2>4. bin = Position(item, d % n, d \div n, n)
    BY DEF PlacedBin, Displaced
  <2> HIDE DEF item, d, bin
  <2>5. d % n \in Nat /\ d \div n \in Nat
    <3>1. n \in Nat \ {0}
      BY <1>2
    <3>2. d % n \in 0 .. n - 1 /\ d \div n \in Nat
      BY <2>3, <3>1, Quotient
    <3> QED BY <3>1, <3>2
  <2>6. bin \in Bin
    BY <1>2, <2>1, <2>4, <2>5, PositionIsABin DEF Bin
  <2>7. x \in In(bin)
    BY DEF In, bin
  <2>8. occup_table[bin] # 0
    BY <1>7, <1>8, <2>6, <2>7, FS_EmptySet
  <2> QED BY <2>6, <2>8 DEF Taken, bin
<1>10. ASSUME NEW bin \in Taken PROVE \E x \in 1 .. m : PlacedBin(x) = bin
  <2>1. Cardinality(In(bin)) # 0
    BY <1>7 DEF Taken
  <2>2. In(bin) # {}
    BY <2>1, FS_EmptySet
  <2> QED BY <2>2 DEF In
<1> QED BY <1>2, <1>3, <1>7, <1>8, <1>9, <1>10

\* No more bins are taken than there are keys, and exactly as many with a
\* bin for every key.
LEMMA TakenAreCounted ==
  ASSUME IInv, pc \in Bound
  PROVE  /\ Taken \subseteq Nat /\ IsFiniteSet(Taken) /\ Cardinality(Taken) \in 1 .. m
         /\ keys_per_bin = 1 => Cardinality(Taken) = m
<1> DEFINE place == [x \in 1 .. m |-> PlacedBin(x)]
<1>1. m \in Nat \ {0, 1} /\ n \in Nat \ {0, 1}
  BY AllArePlaced
<1>2. IsFiniteSet(1 .. m) /\ Cardinality(1 .. m) = m
  <2>1. (IF 1 > m THEN 0 ELSE m - 1 + 1) = m /\ 1 \in Int /\ m \in Int
    BY <1>1
  <2> QED BY <2>1, FS_Interval
<1>3. place \in Surjection(1 .. m, Taken)
  BY AllArePlaced DEF Surjection
<1>4. IsFiniteSet(Taken) /\ Cardinality(Taken) <= m
  <2> HIDE DEF place
  <2>1. IsFiniteSet(Taken) /\ Cardinality(Taken) <= Cardinality(1 .. m)
    BY <1>2, <1>3, FS_Surjection
  <2> QED BY <1>2, <2>1
<1>5. Cardinality(Taken) \in Nat /\ Cardinality(Taken) # 0
  <2>1. 1 \in 1 .. m
    BY <1>1
  <2>2. Taken # {}
    BY <2>1, AllArePlaced
  <2> QED BY <1>4, <2>2, FS_CardinalityType, FS_EmptySet
<1>6. Taken \subseteq Nat
  BY <1>1 DEF Taken, Bin
<1>7. ASSUME keys_per_bin = 1 PROVE Cardinality(Taken) = m
  <2>1. ASSUME NEW x \in 1 .. m, NEW y \in 1 .. m, PlacedBin(x) = PlacedBin(y) PROVE x = y
    <3> DEFINE bin == PlacedBin(x)
    <3>1. bin \in Bin /\ IsFiniteSet(In(bin)) /\ Cardinality(In(bin)) <= 1
      <4>1. PlacedBin(x) \in Bin
        BY AllArePlaced DEF Taken
      <4> QED BY <1>7, <4>1, AllArePlaced
    <3>2. x \in In(bin) /\ y \in In(bin)
      BY <2>1 DEF In
    <3> HIDE DEF bin
    <3>3. ASSUME x # y PROVE FALSE
      <4>1. {x} \in SUBSET In(bin) /\ y \in In(bin) /\ y \notin {x}
        BY <3>2, <3>3
      <4>2. Cardinality({x}) < Cardinality(In(bin))
        BY <3>1, <4>1, FewerInAPart
      <4>3. Cardinality({x}) = 1
        BY FS_Singleton
      <4>4. Cardinality(In(bin)) \in Nat
        BY <3>1, FS_CardinalityType
      <4> QED BY <3>1, <4>2, <4>3, <4>4
    <3> QED BY <3>3
  <2>2. place \in Injection(1 .. m, Taken)
    <3>1. place \in [1 .. m -> Taken]
      BY AllArePlaced
    <3> QED BY <2>1, <3>1 DEF Injection, IsInjective
  <2> HIDE DEF place
  <2>3. Cardinality(Taken) = Cardinality(1 .. m)
    BY <1>2, <1>3, <2>2, FS_Surjection
  <2> QED BY <1>2, <2>3
<1>8. Cardinality(Taken) \in 1 .. m
  BY <1>1, <1>4, <1>5
<1> QED BY <1>4, <1>6, <1>7, <1>8

\* With a bin for every key and three that are vacant CHD can close them up.
LEMMA ClosesUp ==
  ASSUME IInv, pc \in Bound, keys_per_bin = 1, n - m >= 3
  PROVE  IsCompressible
<1> DEFINE Empty == {bin \in Bin : occup_table[bin] = 0}
           v == Ascending(Empty)
<1>1. m \in Nat \ {0, 1} /\ n \in Nat \ {0, 1}
  BY AllArePlaced
<1>2. Vacant = v
  <2>1. {bin \in Bin : IF keys_per_bin = 1 THEN occup_table[bin] = 0
                       ELSE (occup_table[bin \div ByteBits] \div 2^(bin % ByteBits)) % 2 = 0}
          = Empty
    OBVIOUS
  <2> HIDE DEF Empty
  <2> QED BY <2>1 DEF Vacant, v
<1>3. IsFiniteSet(Bin) /\ Cardinality(Bin) = n
  <2>1. (IF 0 > n - 1 THEN 0 ELSE (n - 1) - 0 + 1) = n /\ 0 \in Int /\ n - 1 \in Int
    BY <1>1
  <2> QED BY <2>1, FS_Interval DEF Bin
<1>4. Empty = Bin \ Taken /\ Taken \subseteq Bin
  BY DEF Taken
<1>5. Empty \subseteq Nat
  BY <1>1 DEF Bin
<1> HIDE DEF Empty
<1>6. Cardinality(Empty) = n - m /\ IsFiniteSet(Empty)
  <2>1. /\ IsFiniteSet(Bin \ Taken)
        /\ Cardinality(Bin \ Taken) = Cardinality(Bin) - Cardinality(Bin \cap Taken)
    BY <1>3, TakenAreCounted, FS_Difference
  <2>2. Bin \cap Taken = Taken /\ Cardinality(Taken) = m
    BY <1>4, TakenAreCounted
  <2> QED BY <1>3, <1>4, <2>1, <2>2
<1>7. /\ v \in [1 .. n - m -> Empty]
      /\ \A x, y \in 1 .. n - m : x < y => v[x] < v[y]
  <2>1. Empty \subseteq Int
    BY <1>5
  <2> QED BY <1>6, <2>1, AscendingOnce
<1> HIDE DEF v
<1> DEFINE l == n - m
<1>8. l \in Nat /\ l >= 3 /\ n > m
  BY <1>1
<1>9. v \in [1 .. l -> Nat]
  BY <1>5, <1>7
<1>10. Len(v) = l
  <2> HIDE DEF l
  <2> QED BY <1>8, <1>9
<1>11. v[l] >= 2
  <2>1. \A x, y \in 1 .. l : x < y => v[x] < v[y]
    BY <1>7
  <2> HIDE DEF l
  <2>2. 1 \in 1 .. l /\ 2 \in 1 .. l /\ l \in 1 .. l /\ 1 < 2 /\ 2 < l
    BY <1>8
  <2>3. v[1] < v[2] /\ v[2] < v[l] /\ v[1] \in Nat /\ v[2] \in Nat /\ v[l] \in Nat
    BY <1>9, <2>1, <2>2
  <2> QED BY <2>3
<1> QED BY <1>2, <1>8, <1>10, <1>11 DEF IsCompressible, Succinct!RankIsDefined

LEMMA AbortKeeps ==
  ASSUME IInv, BreaksOnlyWhen, [chd_new]_vars
  PROVE  BreaksOnlyWhen'
<1>1. CASE Ranks
  <2>1. /\ pc = "closing" /\ pc \in Bound /\ algo = "chd" /\ UNCHANGED config /\ n' = n
        /\ (pc' = "aborted" => ~IsCompressible)
    <3>1. pc = "closing" /\ UNCHANGED config /\ n' = n
      BY <1>1 DEF Ranks, hashing
    <3>2. algo = "chd"
      BY <3>1 DEF IInv, Size
    <3>3. pc' = "aborted" => ~IsCompressible
      BY <1>1 DEF Ranks
    <3> QED BY <3>1, <3>2, <3>3 DEF Bound
  <2>2. keys_per_bin' = keys_per_bin /\ m' = m /\ algo' = "chd"
    BY <2>1 DEF config, m
  <2>3. keys_per_bin \in Nat \ {0} /\ m \in Nat /\ n \in Nat
    BY <2>1, AllArePlaced
  <2>4. pc' = "aborted" => keys_per_bin # 1 \/ ~(n - m >= 3)
    BY <2>1, ClosesUp
  <2> QED BY <2>1, <2>2, <2>3, <2>4 DEF BreaksOnlyWhen
<1>2. CASE Searches \/ Compresses
  <2>1. pc' # "aborted"
    <3>1. CASE Called
      BY <3>1 DEF Called
    <3>2. CASE chd_ph_mapping
      BY <3>2 DEF chd_ph_mapping
    <3>3. CASE chd_ph_ordering
      BY <3>3 DEF chd_ph_ordering
    <3>4. CASE place_bucket_probe
      BY <3>4 DEF place_bucket_probe
    <3>5. CASE NextProbe
      BY <3>5 DEF NextProbe, AtEndOfList
    <3>6. CASE SearchFails
      BY <3>6 DEF SearchFails
    <3>7. CASE NextSize
      BY <3>7 DEF NextSize
    <3>8. CASE Compresses
      BY <3>8 DEF Compresses
    <3> QED BY <1>2, <3>1, <3>2, <3>3, <3>4, <3>5, <3>6, <3>7, <3>8 DEF Searches, chd_ph_searching
  <2> QED BY <2>1 DEF BreaksOnlyWhen
<1>3. CASE UNCHANGED vars
  BY <1>3 DEF vars, config, hashing, BreaksOnlyWhen, m
<1> QED BY <1>1, <1>2, <1>3 DEF chd_new

\* chd_new writes or reads behind its tables only for keys that share bins
\* or with fewer than three bins to spare: never with the load factor and
\* the single key to a bin that johnny_setup leaves it at, however many
\* files there are.
THEOREM AbortsOnlyWhen == Spec => []BreaksOnlyWhen
<1>1. Configured => BreaksOnlyWhen
  BY DEF Configured, BreaksOnlyWhen
<1>2. IInv /\ BreaksOnlyWhen /\ [chd_new]_vars => BreaksOnlyWhen'
  BY AbortKeeps
<1> QED BY <1>1, <1>2, AlwaysGood, PTL DEF Spec

---------------------------------------------------------------------------
(* What the function numbers. *)

\* The place of a key in the source, and the bin it has.
PlaceOf(key) == CHOOSE x \in 1 .. m : keys[x] = key
BinFor(key) == PlacedBin(PlaceOf(key))

\* A bin less the vacant bins before it counts the bins that are taken.
LEMMA ClosedUpCounts ==
  ASSUME IInv, pc \in Bound, NEW bin \in Taken
  PROVE  bin - Cardinality({x \in 0 .. bin - 1 : occup_table[x] = 0}) = Cardinality(Below(Taken, bin))
<1> DEFINE before == 0 .. bin - 1
           empty == {x \in before : occup_table[x] = 0}
           below == Below(Taken, bin)
<1>1. n \in Nat \ {0, 1} /\ bin \in Nat /\ bin <= n - 1
  BY AllArePlaced DEF Taken, Bin
<1>2. IsFiniteSet(before) /\ Cardinality(before) = bin
  <2>1. (IF 0 > bin - 1 THEN 0 ELSE (bin - 1) - 0 + 1) = bin /\ 0 \in Int /\ bin - 1 \in Int
    BY <1>1
  <2> QED BY <2>1, FS_Interval
<1>3. \A x \in before : x \in Bin
  BY <1>1 DEF Bin
<1>4. \A x \in Bin : x \in before <=> x < bin
  BY <1>1 DEF Bin
<1> HIDE DEF before
<1>5. below \in SUBSET before
  BY <1>4 DEF Below, Taken
<1>6. empty = before \ below
  BY <1>3, <1>4 DEF Below, Taken
<1> HIDE DEF empty, below
<1>7. Cardinality(empty) = Cardinality(before) - Cardinality(before \cap below)
  BY <1>2, <1>6, FS_Difference
<1>8. before \cap below = below
  BY <1>5
<1>9. Cardinality(below) \in Nat
  BY <1>2, <1>5, FS_Subset, FS_CardinalityType
<1>10. bin - Cardinality(empty) = Cardinality(below)
  <2>1. Cardinality(empty) = bin - Cardinality(below)
    BY <1>2, <1>7, <1>8
  <2>2. \A k, l \in Nat : k - (k - l) = l
    OBVIOUS
  <2> QED BY <1>1, <1>9, <2>1, <2>2
<1> QED BY <1>10 DEF empty, before, below

\* How many numbers there are.
HashSize == IF algo = "chd" THEN m ELSE n

\* Keys that are all different have numbers below the size of the function,
\* and only as many have the same as may be in a bin.
LEMMA NumbersAreShared ==
  ASSUME IInv, pc \in Bound
  PROVE  /\ IsInjective(keys) /\ Len(keys) >= 2
         /\ \A key \in ToSet(keys) : NumberOf(key) \in 0 .. HashSize - 1
         /\ \A key \in ToSet(keys) :
              Cardinality({other \in ToSet(keys) : NumberOf(other) = NumberOf(key)}) <= keys_per_bin
<1>1. /\ m \in Nat \ {0, 1} /\ n \in Nat \ {0, 1} /\ keys_per_bin \in Nat \ {0}
      /\ \A x \in 1 .. m : PlacedBin(x) \in Taken
      /\ \A bin : IsFiniteSet(In(bin))
      /\ \A bin \in Bin : /\ occup_table[bin] = Cardinality(In(bin))
                          /\ occup_table[bin] \in 0 .. keys_per_bin
  BY AllArePlaced
<1>2. DOMAIN keys = 1 .. m /\ Len(keys) = m
  BY Numbers DEF IInv, m
<1>3. \A x, y \in 1 .. m : keys[x] = keys[y] => x = y
  <2>1. /\ items \in [1 .. m -> ItemsFor(nbuckets, n)] /\ IsInjective(items)
        /\ \A x, y \in 1 .. m : keys[x] = keys[y] => items[x] = items[y]
    BY DEF IInv, Hashed, Bound, Placing
  <2>2. \A x, y \in 1 .. m : items[x] = items[y] => x = y
    BY <2>1 DEF IsInjective
  <2> QED BY <2>1, <2>2
<1>4. \A key \in ToSet(keys) : PlaceOf(key) \in 1 .. m /\ keys[PlaceOf(key)] = key
  <2> SUFFICES ASSUME NEW key \in ToSet(keys)
               PROVE  PlaceOf(key) \in 1 .. m /\ keys[PlaceOf(key)] = key
    OBVIOUS
  <2>1. \E x \in 1 .. m : keys[x] = key
    BY <1>2 DEF ToSet
  <2> QED BY <2>1 DEF PlaceOf
<1>5. \A key \in ToSet(keys) : BinFor(key) \in Taken
  BY <1>1, <1>4 DEF BinFor
<1>6. \A key \in ToSet(keys) :
        NumberOf(key) = IF algo = "chd" THEN Cardinality(Below(Taken, BinFor(key))) ELSE BinFor(key)
  <2> SUFFICES ASSUME NEW key \in ToSet(keys)
               PROVE  NumberOf(key) = IF algo = "chd" THEN Cardinality(Below(Taken, BinFor(key)))
                                      ELSE BinFor(key)
    OBVIOUS
  <2> DEFINE bin == BinFor(key)
  <2>1. NumberOf(key) = IF algo = "chd" THEN bin - Cardinality({x \in 0 .. bin - 1 : occup_table[x] = 0})
                        ELSE bin
    BY DEF NumberOf, BinFor, PlaceOf, Quantify
  <2>2. bin \in Taken
    BY <1>5
  <2> HIDE DEF bin
  <2>3. bin - Cardinality({x \in 0 .. bin - 1 : occup_table[x] = 0}) = Cardinality(Below(Taken, bin))
    BY <2>2, ClosedUpCounts
  <2> QED BY <2>1, <2>3 DEF bin
<1>7. /\ Taken \subseteq Nat /\ Cardinality(Taken) \in 1 .. m
      /\ \A x \in Taken : Cardinality(Below(Taken, x)) \in 0 .. Cardinality(Taken) - 1
      /\ \A x, y \in Taken : x < y => Cardinality(Below(Taken, x)) < Cardinality(Below(Taken, y))
  <2>1. Taken \subseteq Nat /\ IsFiniteSet(Taken) /\ Cardinality(Taken) \in 1 .. m
    BY TakenAreCounted
  <2>2. Taken \subseteq Int
    BY <2>1
  <2> QED BY <2>1, <2>2, RanksAreThePlaces
<1>8. ASSUME NEW key \in ToSet(keys) PROVE NumberOf(key) \in 0 .. HashSize - 1
  <2>1. Cardinality(Below(Taken, BinFor(key))) \in 0 .. Cardinality(Taken) - 1 /\ BinFor(key) \in 0 .. n - 1
    BY <1>5, <1>7 DEF Taken, Bin
  <2>2. Cardinality(Below(Taken, BinFor(key))) \in 0 .. m - 1
    BY <1>1, <1>7, <2>1
  <2> QED BY <1>6, <2>1, <2>2 DEF HashSize
<1>9. ASSUME NEW key \in ToSet(keys), NEW other \in ToSet(keys), NumberOf(other) = NumberOf(key)
      PROVE  BinFor(other) = BinFor(key)
  <2> DEFINE x == BinFor(other)
             y == BinFor(key)
  <2>1. x \in Taken /\ y \in Taken /\ x \in Nat /\ y \in Nat
    BY <1>5, <1>7
  <2>2. algo = "chd" => Cardinality(Below(Taken, x)) = Cardinality(Below(Taken, y))
    BY <1>6, <1>9
  <2>3. algo # "chd" => x = y
    BY <1>6, <1>9
  <2> HIDE DEF x, y
  <2>4. x < y => Cardinality(Below(Taken, x)) < Cardinality(Below(Taken, y))
    BY <1>7, <2>1
  <2>5. y < x => Cardinality(Below(Taken, y)) < Cardinality(Below(Taken, x))
    BY <1>7, <2>1
  <2>6. Cardinality(Below(Taken, x)) \in Int /\ Cardinality(Below(Taken, y)) \in Int
    BY <1>7, <2>1
  <2>7. x = y
    BY <2>1, <2>2, <2>3, <2>4, <2>5, <2>6
  <2> QED BY <2>7 DEF x, y
<1>10. ASSUME NEW key \in ToSet(keys)
       PROVE  Cardinality({other \in ToSet(keys) : NumberOf(other) = NumberOf(key)}) <= keys_per_bin
  <2> DEFINE S == {other \in ToSet(keys) : NumberOf(other) = NumberOf(key)}
             bin == BinFor(key)
             place == [other \in S |-> PlaceOf(other)]
  <2>1. bin \in Bin /\ IsFiniteSet(In(bin)) /\ Cardinality(In(bin)) \in 0 .. keys_per_bin
    <3>1. bin \in Bin
      BY <1>5 DEF Taken
    <3> QED BY <1>1, <3>1
  <2>2. \A other \in S : PlaceOf(other) \in In(bin)
    BY <1>4, <1>9 DEF In, BinFor
  <2>3. \A x, y \in S : PlaceOf(x) = PlaceOf(y) => x = y
    BY <1>4
  <2> HIDE DEF S, bin
  <2>4. place \in Injection(S, In(bin))
    <3>1. place \in [S -> In(bin)] /\ DOMAIN place = S
      BY <2>2
    <3>2. \A x, y \in S : place[x] = place[y] => x = y
      BY <2>3
    <3> HIDE DEF place
    <3> QED BY <3>1, <3>2 DEF Injection, IsInjective
  <2> HIDE DEF place
  <2>5. IsFiniteSet(S) /\ Cardinality(S) <= Cardinality(In(bin))
    BY <2>1, <2>4, FS_Injection
  <2>6. Cardinality(S) \in Nat
    BY <2>5, FS_CardinalityType
  <2>7. Cardinality(S) <= keys_per_bin
    BY <1>1, <2>1, <2>5, <2>6
  <2> QED BY <2>7 DEF S
<1>11. IsInjective(keys)
  BY <1>2, <1>3 DEF IsInjective
<1>12. Len(keys) >= 2
  BY <1>1, <1>2
<1> QED BY <1>8, <1>10, <1>11, <1>12

\* What an implementation of PerfectHash sees of the state.
LEMMA Observed == Hash!vars = <<keys, algo = "chd", keys_per_bin, Returned>>
BY DEF Hash!vars

\* What is not touched keeps its number.
LEMMA SameNumbersOfKeys ==
  ASSUME m' = m, keys' = keys, algo' = algo, n' = n, items' = items,
         occup_table' = occup_table, disp_table' = disp_table
  PROVE  \A key : NumberOf(key)' = NumberOf(key)
<1> SUFFICES ASSUME NEW key PROVE NumberOf(key)' = NumberOf(key)
  OBVIOUS
<1>1. \A x : PlacedBin(x)' = PlacedBin(x)
  BY DEF PlacedBin
<1>2. BinFor(key)' = BinFor(key)
  <2>1. PlaceOf(key)' = PlaceOf(key)
    BY DEF PlaceOf
  <2> QED BY <1>1, <2>1 DEF BinFor
<1>3. NumberOf(key) = IF algo = "chd"
                        THEN BinFor(key) - Cardinality({x \in 0 .. BinFor(key) - 1 : occup_table[x] = 0})
                        ELSE BinFor(key)
  BY DEF NumberOf, BinFor, PlaceOf, Quantify
<1>4. NumberOf(key)' = IF algo' = "chd"
                         THEN BinFor(key)' - Cardinality({x \in 0 .. BinFor(key)' - 1 : occup_table'[x] = 0})
                         ELSE BinFor(key)'
  BY DEF NumberOf, BinFor, PlaceOf, Quantify
<1> QED BY <1>2, <1>3, <1>4

\* The step that ends the construction.
LEMMA DoneIsASuccess ==
  ASSUME IInv, pc \in Bound, pc # "done", pc' = "done", Size',
         UNCHANGED <<config, hashing, occup_table, disp_table>>
  PROVE  Hash!Succeed
<1>1. /\ keys' = keys /\ algo' = algo /\ keys_per_bin' = keys_per_bin /\ n' = n /\ items' = items
      /\ occup_table' = occup_table /\ disp_table' = disp_table /\ m' = m
  BY DEF config, hashing, m
<1>2. \A key : NumberOf(key)' = NumberOf(key)
  BY <1>1, SameNumbersOfKeys
<1> DEFINE numbers == [key \in ToSet(keys) |-> NumberOf(key)]
<1>3. mphf'.size = HashSize
  BY <1>1 DEF Size, HashSize
<1>4. Returned' = [size |-> HashSize, number |-> numbers]
  <2>1. Returned' = [size |-> mphf'.size, number |-> [key \in ToSet(keys') |-> NumberOf(key)']]
    BY DEF Returned
  <2>2. [key \in ToSet(keys') |-> NumberOf(key)'] = numbers
    BY <1>1, <1>2
  <2> QED BY <1>3, <2>1, <2>2
<1>5. Returned = [no |-> "pending"]
  BY DEF Returned, Bound
<1>6. /\ Hash!IsInjective(keys) /\ Len(keys) >= 2
      /\ numbers \in [ToSet(keys) -> 0 .. HashSize - 1]
      /\ \A key \in ToSet(keys) :
           Cardinality({other \in ToSet(keys) : numbers[other] = numbers[key]}) <= keys_per_bin
  <2>1. Hash!IsInjective(keys) /\ Len(keys) >= 2
    BY NumbersAreShared DEF IsInjective, Hash!IsInjective
  <2>2. numbers \in [ToSet(keys) -> 0 .. HashSize - 1]
    BY NumbersAreShared
  <2>3. ASSUME NEW key \in ToSet(keys)
        PROVE  Cardinality({other \in ToSet(keys) : numbers[other] = numbers[key]}) <= keys_per_bin
    <3>1. {other \in ToSet(keys) : numbers[other] = numbers[key]} =
            {other \in ToSet(keys) : NumberOf(other) = NumberOf(key)}
      OBVIOUS
    <3>2. Cardinality({other \in ToSet(keys) : NumberOf(other) = NumberOf(key)}) <= keys_per_bin
      BY NumbersAreShared
    <3> QED BY <3>1, <3>2
  <2> QED BY <2>1, <2>2, <2>3
<1> HIDE DEF numbers
<1> DEFINE r == [size |-> HashSize, number |-> numbers]
<1>7. Hash!IsNumbering(keys, r, keys_per_bin)
  <2>1. r.number = numbers /\ r.size = HashSize
    OBVIOUS
  <2> HIDE DEF r
  <2>2. Hash!ToSet(keys) = ToSet(keys)
    BY DEF Hash!ToSet, ToSet
  <2>3. \A key \in ToSet(keys) :
          Cardinality({other \in ToSet(keys) : r.number[other] = r.number[key]}) <= keys_per_bin
    BY <1>6, <2>1
  <2>4. \A S : Hash!Cardinality(S) = Cardinality(S)
    BY DEF Hash!Cardinality, Cardinality
  <2> QED BY <1>6, <2>1, <2>2, <2>3, <2>4 DEF Hash!IsNumbering, Hash!Quantify
<1>8. r.size = HashSize /\ r # [no |-> "pending"] /\ r # [no |-> "NULL"]
  <2>1. DOMAIN r = {"size", "number"} /\ DOMAIN [no |-> "pending"] = {"no"}
        /\ DOMAIN [no |-> "NULL"] = {"no"}
    OBVIOUS
  <2> HIDE DEF r
  <2> QED BY <2>1 DEF r
<1>9. algo = "chd" => r.size = Len(keys)
  BY DEF HashSize, m
<1> HIDE DEF r
<1>10. Returned' = r /\ Returned = Hash!Pending
  BY <1>4, <1>5 DEF r, Hash!Pending
<1>11. Returned' \notin {Hash!Pending, Hash!Null}
  BY <1>8, <1>10 DEF Hash!Pending, Hash!Null
<1>12. (algo = "chd")' <=> algo = "chd"
  BY <1>1
<1>13. (algo' = "chd") = (algo = "chd")
  BY <1>1
<1> QED BY <1>1, <1>6, <1>7, <1>9, <1>10, <1>11, <1>13 DEF Hash!Succeed

\* Every step ends the construction or changes nothing that is seen of it.
LEMMA StepIsSeen ==
  ASSUME IInv, Size', [chd_new]_vars
  PROVE  [Hash!Configure \/ Hash!Ends]_Hash!vars
<1>1. ASSUME keys' = keys, algo' = algo, keys_per_bin' = keys_per_bin, Returned' = Returned
      PROVE  UNCHANGED Hash!vars
  <2>1. (algo' = "chd") = (algo = "chd")
    BY <1>1
  <2> QED BY <1>1, <2>1 DEF Hash!vars
<1>2. ASSUME UNCHANGED config, pc \notin {"done", "failed", "aborted"},
             pc' \notin {"done", "failed", "aborted"}
      PROVE  UNCHANGED Hash!vars
  <2>1. Returned' = Returned
    BY <1>2 DEF Returned
  <2> QED BY <1>1, <1>2, <2>1 DEF config
<1>3. ASSUME UNCHANGED config, pc \notin {"done", "failed", "aborted"}, pc' \in {"failed", "aborted"}
      PROVE  Hash!GiveUp
  <2>1. Returned = [no |-> "pending"]
    BY <1>3 DEF Returned
  <2>2. Returned' = [no |-> "NULL"]
    BY <1>3 DEF Returned
  <2>3. keys' = keys /\ keys_per_bin' = keys_per_bin /\ (algo' = "chd") = (algo = "chd")
    BY <1>3 DEF config
  <2> QED BY <2>1, <2>2, <2>3 DEF Hash!GiveUp, Hash!Pending, Hash!Null
<1>4. CASE Searches
  <2>1. UNCHANGED config
    BY <1>4 DEF Searches, chd_ph_searching, Called, chd_ph_mapping, chd_ph_ordering,
                place_bucket_probe, NextProbe, SearchFails, NextSize
  <2>2. pc \notin {"done", "failed", "aborted"} /\ pc' # "done" /\ pc' # "aborted"
    <3>1. CASE Called
      BY <3>1 DEF Called
    <3>2. CASE chd_ph_mapping
      BY <3>2 DEF chd_ph_mapping
    <3>3. CASE chd_ph_ordering
      BY <3>3 DEF chd_ph_ordering
    <3>4. CASE place_bucket_probe
      BY <3>4 DEF place_bucket_probe
    <3>5. CASE NextProbe
      BY <3>5 DEF NextProbe, AtEndOfList
    <3>6. CASE SearchFails
      BY <3>6 DEF SearchFails, AtEndOfList
    <3>7. CASE NextSize
      BY <3>7 DEF NextSize
    <3> QED BY <1>4, <3>1, <3>2, <3>3, <3>4, <3>5, <3>6, <3>7 DEF Searches, chd_ph_searching
  <2>3. CASE pc' = "failed"
    BY <1>3, <2>1, <2>2, <2>3 DEF Hash!Ends
  <2>4. CASE pc' # "failed"
    BY <1>2, <2>1, <2>2, <2>4
  <2> QED BY <2>3, <2>4
<1>5. CASE Compresses
  <2>1. /\ pc = "compressing" /\ pc' \in {"closing", "done"}
        /\ UNCHANGED <<config, hashing, occup_table, disp_table>> /\ UNCHANGED config
    BY <1>5 DEF Compresses
  <2>2. CASE pc' = "done"
    BY <2>1, <2>2, DoneIsASuccess DEF Hash!Ends, Bound
  <2>3. CASE pc' = "closing"
    BY <1>2, <2>1, <2>3
  <2> QED BY <2>1, <2>2, <2>3
<1>6. CASE Ranks
  <2>1. /\ pc = "closing" /\ pc' \in {"aborted", "done"}
        /\ UNCHANGED <<config, hashing, occup_table, disp_table>> /\ UNCHANGED config
    BY <1>6 DEF Ranks
  <2>2. CASE pc' = "done"
    BY <2>1, <2>2, DoneIsASuccess DEF Hash!Ends, Bound
  <2>3. CASE pc' = "aborted"
    BY <1>3, <2>1, <2>3 DEF Hash!Ends
  <2> QED BY <2>1, <2>2, <2>3
<1>7. CASE UNCHANGED vars
  <2>1. /\ keys' = keys /\ algo' = algo /\ keys_per_bin' = keys_per_bin /\ n' = n /\ items' = items
        /\ occup_table' = occup_table /\ disp_table' = disp_table /\ pc' = pc /\ mphf' = mphf
        /\ m' = m
    BY <1>7 DEF vars, config, hashing, m
  <2>2. \A key : NumberOf(key)' = NumberOf(key)
    BY <2>1, SameNumbersOfKeys
  <2>3. Returned' = Returned
    BY <2>1, <2>2 DEF Returned
  <2> QED BY <1>1, <2>1, <2>3
<1> QED BY <1>4, <1>5, <1>6, <1>7 DEF chd_new

LEMMA InitIsSeen ==
  Configured => Hash!Init
<1> SUFFICES ASSUME Configured PROVE Hash!Init
  OBVIOUS
<1>1. Configuration
  BY InitGood DEF IInv
<1>2. keys \in KeySources /\ keys_per_bin \in Nat \ {0} /\ (algo = "chd") \in BOOLEAN
  BY <1>1 DEF Configuration
<1>3. Returned = Hash!Pending
  BY DEF Configured, Returned, Hash!Pending
<1> QED BY <1>2, <1>3 DEF Hash!Init

\* chd_new and chd_ph_new make a perfect hash function or none: of any keys,
\* with any seeds, every key has a number below the size of the function,
\* which for CHD is the number of the keys, and no number goes to more keys
\* than a bin may have; of a single key or of keys that repeat none is made,
\* and what is returned is not changed again.
THEOREM MakesAPerfectHash == Spec => Hash!Safety
<1>1. Configured => Hash!Init
  BY InitIsSeen
<1>2. IInv /\ IInv' /\ [chd_new]_vars => [Hash!Configure \/ Hash!Ends]_Hash!vars
  BY StepIsSeen DEF IInv
<1> QED BY <1>1, <1>2, AlwaysGood, PTL DEF Spec, Hash!Safety

---------------------------------------------------------------------------
(* The configuration of johnny_setup. *)

\* One key to a bin and no load factor above the least.
Sparse == keys_per_bin = 1 /\ c <= 50 /\ (pc # "new" => n = bins_needed)

LEMMA HalfIsVacant ==
  ASSUME Configuration, keys_per_bin = 1, c <= 50
  PROVE  bins_needed > 2 * m
<1> DEFINE enough == {p \in Primes : p > (100 * m) \div (keys_per_bin * load_factor)}
<1>1. c \in Nat /\ m \in Nat
  BY Numbers DEF Configuration
<1>2. Min({99, c}) = c
  <2>1. c \in {99, c} /\ \A y \in {99, c} : c <= y
    BY <1>1
  <2>2. \A x \in {99, c} : (\A y \in {99, c} : x <= y) => x = c
    BY <1>1
  <2> QED BY <2>1, <2>2 DEF Min
<1>3. load_factor = 50
  <2>1. \A x \in {50, c} : (\A y \in {50, c} : x >= y) => x = 50
    BY <1>1
  <2>2. 50 \in {50, c} /\ \A y \in {50, c} : 50 >= y
    BY <1>1
  <2>3. Max({50, c}) = 50
    BY <2>1, <2>2 DEF Max
  <2> QED BY <1>2, <2>3 DEF load_factor
<1>4. (100 * m) \div (keys_per_bin * load_factor) = 2 * m
  <2>1. \A k \in Nat : (100 * k) \div 50 = 2 * k
    OBVIOUS
  <2>2. keys_per_bin * load_factor = 50
    BY <1>3
  <2> QED BY <1>1, <2>1, <2>2
<1>5. enough = {p \in Primes : p > 2 * m}
  BY <1>4
<1> HIDE DEF enough
<1>6. enough # {} /\ enough \subseteq Nat
  <2>1. PICK p \in Primes : p > 2 * Len(keys)
    BY ConstructionAssumption DEF Configuration
  <2> QED BY <1>5, <2>1, ChdAssumption DEF m
<1>7. Min(enough) \in enough
  <2>1. \E x \in enough : \A y \in enough : x <= y
    BY <1>6, LeastElement
  <2> QED BY <2>1 DEF Min
<1>8. bins_needed = Min(enough)
  BY DEF bins_needed, enough
<1> QED BY <1>5, <1>7, <1>8

LEMMA StaysSparse ==
  ASSUME Sparse, [chd_new]_vars
  PROVE  Sparse'
<1>1. ASSUME UNCHANGED config
      PROVE  keys_per_bin' = keys_per_bin /\ c' = c /\ bins_needed' = bins_needed
  BY <1>1 DEF config, bins_needed, m, load_factor
<1>2. CASE Called
  <2>1. UNCHANGED config /\ n' = bins_needed
    BY <1>2 DEF Called
  <2> QED BY <1>1, <2>1 DEF Sparse
<1>3. CASE \/ chd_ph_mapping \/ chd_ph_ordering \/ place_bucket_probe \/ NextProbe \/ SearchFails
           \/ NextSize \/ Compresses \/ Ranks \/ UNCHANGED vars
  <2>1. UNCHANGED config /\ n' = n
    BY <1>3 DEF chd_ph_mapping, chd_ph_ordering, place_bucket_probe, NextProbe, SearchFails,
                NextSize, Compresses, Ranks, vars, hashing
  <2>2. pc = "new" => pc' = "new"
    BY <1>3 DEF chd_ph_mapping, chd_ph_ordering, place_bucket_probe, NextProbe, AtEndOfList,
                SearchFails, NextSize, Compresses, Ranks, vars
  <2> QED BY <1>1, <2>1, <2>2 DEF Sparse
<1> QED BY <1>2, <1>3 DEF chd_new, Searches, chd_ph_searching

LEMMA SparseCloses ==
  ASSUME IInv, Sparse, pc # "aborted", [chd_new]_vars
  PROVE  pc' # "aborted"
<1>1. BreaksOnlyWhen' /\ Configuration
  BY AbortKeeps DEF BreaksOnlyWhen, IInv
<1>2. CASE Ranks
  <2>1. /\ pc = "closing" /\ pc \in Bound /\ (pc' = "aborted" => ~IsCompressible)
    BY <1>2 DEF Ranks, Bound
  <2>2. m \in Nat \ {0, 1} /\ n \in Nat
    BY <2>1, AllArePlaced
  <2>3. keys_per_bin = 1 /\ n > 2 * m
    BY <1>1, <2>1, HalfIsVacant DEF Sparse
  <2>4. n - m >= 3
    BY <2>2, <2>3
  <2> QED BY <2>1, <2>3, <2>4, ClosesUp
<1>3. CASE \/ Called \/ chd_ph_mapping \/ chd_ph_ordering \/ place_bucket_probe \/ NextProbe
           \/ SearchFails \/ NextSize \/ Compresses \/ UNCHANGED vars
  BY <1>3 DEF Called, chd_ph_mapping, chd_ph_ordering, place_bucket_probe, NextProbe, AtEndOfList,
              SearchFails, NextSize, Compresses, vars
<1> QED BY <1>2, <1>3 DEF chd_new, Searches, chd_ph_searching

\* johnny_setup sets neither a load factor nor the keys of a bin: of its
\* files, however many they are and whatever they are called, CHD never
\* fails to close up the bins.
THEOREM DefaultsNeverAbort ==
  ASSUME \A conf \in Configurations : conf.keys_per_bin = 1 /\ conf.c <= 50
  PROVE  Spec => [](pc # "aborted")
<1>1. Configured => Sparse /\ pc # "aborted"
  BY DEF Configured, Sparse
<1>2. Sparse /\ [chd_new]_vars => Sparse'
  BY StaysSparse
<1>3. IInv /\ Sparse /\ pc # "aborted" /\ [chd_new]_vars => (pc # "aborted")'
  BY SparseCloses
<1> QED BY <1>1, <1>2, <1>3, AlwaysGood, PTL DEF Spec

=============================================================================
