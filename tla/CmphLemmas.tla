----------------------------- MODULE CmphLemmas -----------------------------
(***************************************************************************)
(* What the proofs about cmph need of sequences, sets and tables, whatever *)
(* module they are in.                                                     *)
(***************************************************************************)
EXTENDS InductionLemmas

---------------------------------------------------------------------------
(* A file and its lines. *)

\* The ends of lines, where the line after the first l begins, and the lines.
Ends(file, nl) == {x \in 1 .. Len(file) : file[x] = nl}
Start(file, nl, l) == IF l = 0 THEN 0 ELSE Ascending(Ends(file, nl))[l]
LinesIn(file, nl) ==
  LET ends == Ascending(Ends(file, nl))
  IN  [l \in 1 .. Len(ends) |-> SubSeq(file, (IF l = 1 THEN 0 ELSE ends[l - 1]) + 1, ends[l] - 1)]

\* What is read of a file at once, and whether it is up to the end of a line.
ChunkIn(file, nl, room, pos) ==
  LET limit == IF pos + room < Len(file) THEN pos + room ELSE Len(file)
      rest == SubSeq(file, pos + 1, limit)
      Found == {x \in 1 .. Len(rest) : rest[x] = nl}
  IN  IF Found # {} THEN SubSeq(rest, 1, Min(Found)) ELSE rest
EndsIn(chunk, nl) == chunk # <<>> /\ chunk[Len(chunk)] = nl

\* A chunk ends at the first end of a line, or where it is full or the file ends.
LEMMA ChunkOf ==
  ASSUME NEW S, NEW file \in Seq(S), NEW pos \in 0 .. Len(file),
         NEW nl, NEW room \in Nat \ {0}, NEW chunk, chunk = ChunkIn(file, nl, room, pos)
  PROVE  /\ chunk \in Seq(S) /\ pos + Len(chunk) \in pos .. Len(file)
         /\ chunk = SubSeq(file, pos + 1, pos + Len(chunk))
         /\ \A x \in pos + 1 .. pos + Len(chunk) - 1 : file[x] # nl
         /\ EndsIn(chunk, nl) <=> Len(chunk) > 0 /\ file[pos + Len(chunk)] = nl
         /\ Len(chunk) < room /\ ~EndsIn(chunk, nl) => \A x \in pos + 1 .. Len(file) : file[x] # nl
<1> DEFINE limit == IF pos + room < Len(file) THEN pos + room ELSE Len(file)
           rest == SubSeq(file, pos + 1, limit)
<1>1. Len(file) \in Nat /\ pos \in Nat /\ limit \in pos .. Len(file) /\ limit \in Nat
      /\ (limit - pos < room => limit = Len(file))
  BY LenProperties
<1> HIDE DEF limit
<1>2. /\ rest \in Seq(S) /\ Len(rest) = limit - pos
      /\ \A x \in 1 .. limit - pos : rest[x] = file[pos + x]
  <2>1. \A x \in pos + 1 .. limit : file[x] \in S
    BY <1>1, ElementOfSeq
  <2>2. pos + 1 \in Int /\ limit \in Int /\ (limit - (pos + 1) + 1 = limit - pos)
        /\ (pos + 1 > limit => limit - pos = 0)
    BY <1>1
  <2>3. /\ rest \in Seq(S) /\ Len(rest) = IF pos + 1 <= limit THEN limit - (pos + 1) + 1 ELSE 0
        /\ \A x \in 1 .. limit - (pos + 1) + 1 : rest[x] = file[pos + 1 + x - 1]
    BY <2>1, <2>2, SubSeqProperties
  <2>4. \A x \in 1 .. limit - pos : pos + 1 + x - 1 = pos + x
    BY <1>1
  <2> QED BY <1>1, <2>2, <2>3, <2>4
<1> DEFINE Found == {x \in 1 .. Len(rest) : rest[x] = nl}
<1>3. chunk = IF Found # {} THEN SubSeq(rest, 1, Min(Found)) ELSE rest
  BY DEF ChunkIn, limit
<1>4. CASE Found = {}
  <2>1. chunk = rest /\ Len(chunk) = limit - pos /\ pos + Len(chunk) = limit
    <3>1. chunk = rest
      BY <1>3, <1>4
    <3> HIDE DEF rest
    <3>2. Len(chunk) = limit - pos
      BY <1>2, <3>1
    <3> QED BY <1>1, <3>1, <3>2
  <2>2. ASSUME NEW x \in pos + 1 .. limit PROVE file[x] # nl
    <3>1. x - pos \in 1 .. Len(rest) /\ pos + (x - pos) = x /\ x - pos \in 1 .. limit - pos
      BY <1>1, <1>2
    <3>2. rest[x - pos] # nl
      BY <1>4, <3>1
    <3> QED BY <1>2, <3>1, <3>2
  <2>3. ~EndsIn(chunk, nl)
    <3>1. Len(chunk) > 0 => chunk[Len(chunk)] # nl
      <4>1. \A x \in 1 .. Len(rest) : rest[x] # nl
        BY <1>4
      <4>2. Len(rest) > 0 => Len(rest) \in 1 .. Len(rest)
        BY <1>1, <1>2
      <4> QED BY <2>1, <4>1, <4>2
    <3>2. chunk # <<>> => Len(chunk) > 0
      BY <1>1, <1>2, <2>1, EmptySeq
    <3> QED BY <3>1, <3>2 DEF EndsIn
  <2>4. ~(Len(chunk) > 0 /\ file[pos + Len(chunk)] = nl)
    BY <1>1, <2>1, <2>2
  <2>5. Len(chunk) < room /\ ~EndsIn(chunk, nl) => limit = Len(file)
    BY <1>1, <2>1
  <2>6. Len(chunk) < room /\ ~EndsIn(chunk, nl) => \A x \in pos + 1 .. Len(file) : file[x] # nl
    BY <2>2, <2>5
  <2>7. pos + Len(chunk) \in pos .. Len(file) /\ chunk \in Seq(S)
        /\ chunk = SubSeq(file, pos + 1, pos + Len(chunk))
    BY <1>1, <1>2, <2>1
  <2>8. \A x \in pos + 1 .. pos + Len(chunk) - 1 : file[x] # nl
    <3>1. \A x \in pos + 1 .. limit - 1 : x \in pos + 1 .. limit
      BY <1>1
    <3>2. \A x \in pos + 1 .. limit - 1 : file[x] # nl
      BY <2>2, <3>1
    <3>3. pos + Len(chunk) = limit
      BY <2>1
    <3> HIDE DEF rest
    <3> QED BY <3>2, <3>3
  <2> QED BY <2>3, <2>4, <2>6, <2>7, <2>8
<1>5. CASE Found # {}
  <2> DEFINE l == Min(Found)
  <2>1. l \in Found /\ \A x \in Found : l <= x
    <3>1. Found \subseteq Nat
      OBVIOUS
    <3>2. \E x \in Found : \A y \in Found : x <= y
      <4> HIDE DEF Found
      <4> QED BY <1>5, <3>1, LeastElement
    <3> QED BY <3>2 DEF Min
  <2> HIDE DEF l
  <2>2. l \in 1 .. limit - pos /\ rest[l] = nl /\ l \in Nat /\ l > 0
    BY <1>1, <1>2, <2>1
  <2>3. \A x \in 1 .. l - 1 : rest[x] # nl
    BY <1>1, <1>2, <2>1, <2>2
  <2>4. chunk = SubSeq(rest, 1, l)
    BY <1>3, <1>5 DEF l
  <2> HIDE DEF Found, rest
  <2>5. chunk \in Seq(S) /\ Len(chunk) = l /\ \A x \in 1 .. l : chunk[x] = rest[x]
    <3>1. \A x \in 1 .. l : rest[x] \in S
      BY <1>1, <1>2, <2>2, ElementOfSeq
    <3>2. 1 \in Int /\ l \in Int /\ l - 1 + 1 = l /\ 1 <= l /\ \A x \in 1 .. l : 1 + x - 1 = x
      BY <2>2
    <3>3. /\ SubSeq(rest, 1, l) \in Seq(S)
          /\ Len(SubSeq(rest, 1, l)) = IF 1 <= l THEN l - 1 + 1 ELSE 0
          /\ \A x \in 1 .. l - 1 + 1 : SubSeq(rest, 1, l)[x] = rest[1 + x - 1]
      BY <3>1, <3>2, SubSeqProperties
    <3> QED BY <2>4, <3>2, <3>3
  <2>6. chunk = SubSeq(file, pos + 1, pos + l)
    <3> USE DEF rest
    <3>1. pos + 1 \in 1 .. Len(file) /\ limit \in 1 .. Len(file) /\ l \in 1 .. limit - (pos + 1) + 1
          /\ 1 \in 1 .. limit - (pos + 1) + 1 /\ pos + 1 + 1 - 1 = pos + 1 /\ pos + 1 + l - 1 = pos + l
      BY <1>1, <2>2
    <3> QED BY <2>4, <3>1, SubSeqOfSubSeq
  <2>7. ASSUME NEW x \in pos + 1 .. pos + l - 1 PROVE file[x] # nl
    <3>1. x - pos \in 1 .. l - 1 /\ pos + (x - pos) = x /\ x - pos \in 1 .. limit - pos
      BY <1>1, <2>2
    <3> QED BY <1>2, <2>3, <3>1
  <2>8. file[pos + l] = nl
    BY <1>2, <2>2
  <2>9. EndsIn(chunk, nl)
    <3>1. chunk # <<>>
      BY <2>2, <2>5, EmptySeq
    <3>2. chunk[Len(chunk)] = nl
      <4>1. l \in 1 .. l
        BY <2>2
      <4> QED BY <2>2, <2>5, <4>1
    <3> QED BY <3>1, <3>2 DEF EndsIn
  <2>10. pos + l \in pos .. Len(file)
    BY <1>1, <2>2
  <2>11. ~(Len(chunk) < room /\ ~EndsIn(chunk, nl))
    BY <2>9
  <2> QED BY <2>2, <2>5, <2>6, <2>7, <2>8, <2>9, <2>10, <2>11
<1> QED BY <1>4, <1>5
LEMMA LinesOf ==
  ASSUME NEW S, NEW file \in Seq(S), NEW nl
  PROVE  /\ IsFiniteSet(Ends(file, nl)) /\ Cardinality(Ends(file, nl)) \in Nat
         /\ LinesIn(file, nl) \in Seq(Seq(S))
         /\ Len(LinesIn(file, nl)) = Cardinality(Ends(file, nl))
         /\ \A l \in 0 .. Cardinality(Ends(file, nl)) : Start(file, nl, l) \in 0 .. Len(file)
         /\ \A l \in 0 .. Cardinality(Ends(file, nl)) - 1 :
              /\ Start(file, nl, l) < Start(file, nl, l + 1) /\ file[Start(file, nl, l + 1)] = nl
              /\ LinesIn(file, nl)[l + 1] = SubSeq(file, Start(file, nl, l) + 1, Start(file, nl, l + 1) - 1)
              /\ \A x \in Start(file, nl, l) + 1 .. Start(file, nl, l + 1) - 1 : file[x] # nl
<1> DEFINE N == Cardinality(Ends(file, nl))
           ends == Ascending(Ends(file, nl))
<1>1. Len(file) \in Nat /\ Ends(file, nl) \subseteq 1 .. Len(file) /\ Ends(file, nl) \subseteq Int
      /\ IsFiniteSet(Ends(file, nl))
  <2>1. Len(file) \in Nat
    BY LenProperties
  <2>2. Ends(file, nl) \subseteq 1 .. Len(file)
    BY DEF Ends
  <2>3. IsFiniteSet(1 .. Len(file))
    BY <2>1, FS_Interval
  <2> QED BY <2>1, <2>2, <2>3, FS_Subset
<1>2. /\ N \in Nat /\ ends \in [1 .. N -> Ends(file, nl)]
      /\ \A x, y \in 1 .. N : x < y => ends[x] < ends[y]
      /\ \A x \in Ends(file, nl) : \E y \in 1 .. N : ends[y] = x
  <2>1. ends \in Bijection(1 .. N, Ends(file, nl))
    BY <1>1, AscendingOnce
  <2> HIDE DEF ends, N
  <2>2. \A x \in Ends(file, nl) : \E y \in 1 .. N : ends[y] = x
    BY <2>1 DEF Bijection, Surjection
  <2> QED BY <1>1, <2>2, AscendingOnce DEF ends, N
<1> HIDE DEF ends, N
<1>3. \A l \in 0 .. N : Start(file, nl, l) = IF l = 0 THEN 0 ELSE ends[l]
  BY DEF Start, ends
<1>4. ASSUME NEW l \in 0 .. N PROVE Start(file, nl, l) \in 0 .. Len(file)
  <2>1. l # 0 => ends[l] \in 1 .. Len(file)
    <3>1. l # 0 => l \in 1 .. N
      BY <1>2
    <3> QED BY <1>1, <1>2, <3>1
  <2> QED BY <1>1, <1>3, <2>1
<1>5. ASSUME NEW l \in 0 .. N - 1
      PROVE  /\ Start(file, nl, l) < Start(file, nl, l + 1) /\ file[Start(file, nl, l + 1)] = nl
             /\ \A x \in Start(file, nl, l) + 1 .. Start(file, nl, l + 1) - 1 : file[x] # nl
  <2>1. l + 1 \in 1 .. N /\ l + 1 \in 0 .. N /\ l \in 0 .. N /\ l + 1 # 0 /\ l < l + 1 /\ l \in Nat
    BY <1>2
  <2>2. Start(file, nl, l + 1) = ends[l + 1] /\ ends[l + 1] \in Ends(file, nl)
    BY <1>2, <1>3, <2>1
  <2>3. Start(file, nl, l) < Start(file, nl, l + 1)
    <3>1. CASE l = 0
      BY <1>1, <1>3, <2>1, <2>2, <3>1
    <3>2. CASE l # 0
      <4>1. l \in 1 .. N
        BY <2>1, <3>2
      <4> QED BY <1>2, <1>3, <2>1, <2>2, <3>2, <4>1
    <3> QED BY <3>1, <3>2
  <2>4. ASSUME NEW x \in Start(file, nl, l) + 1 .. Start(file, nl, l + 1) - 1, file[x] = nl PROVE FALSE
    <3>1. Start(file, nl, l) \in 0 .. Len(file) /\ Start(file, nl, l + 1) \in 0 .. Len(file)
      BY <1>4, <2>1
    <3>2. x \in 1 .. Len(file) /\ Start(file, nl, l) < x /\ x < Start(file, nl, l + 1) /\ x \in Int
      BY <1>1, <3>1
    <3>3. x \in Ends(file, nl)
      BY <2>4, <3>2 DEF Ends
    <3>4. PICK y \in 1 .. N : ends[y] = x
      BY <1>2, <3>3
    <3>5. y < l + 1
      <4>1. y \in Int /\ (l + 1 < y \/ y = l + 1 \/ y < l + 1)
        BY <1>2, <2>1
      <4>2. ~(l + 1 < y)
        <5>1. l + 1 < y => ends[l + 1] < ends[y]
          BY <1>2, <2>1
        <5> QED BY <2>2, <3>1, <3>2, <3>4, <5>1
      <4> QED BY <2>2, <3>1, <3>2, <3>4, <4>1, <4>2
    <3>6. l # 0 /\ l \in 1 .. N /\ y <= l
      BY <2>1, <3>5
    <3>7. y = l \/ y < l
      BY <2>1, <3>6
    <3>8. y < l => ends[y] < ends[l]
      BY <1>2, <3>6
    <3> QED BY <1>3, <2>1, <3>1, <3>2, <3>4, <3>6, <3>7, <3>8
  <2>5. file[Start(file, nl, l + 1)] = nl
    BY <2>2 DEF Ends
  <2> QED BY <2>3, <2>4, <2>5
<1> DEFINE line(l) == SubSeq(file, (IF l = 1 THEN 0 ELSE ends[l - 1]) + 1, ends[l] - 1)
<1>6. LinesIn(file, nl) = [l \in 1 .. Len(ends) |-> line(l)]
  BY DEF LinesIn, ends
<1>7. Len(ends) = N
  BY <1>2
<1>8. ASSUME NEW l \in 0 .. N - 1
      PROVE  /\ line(l + 1) = SubSeq(file, Start(file, nl, l) + 1, Start(file, nl, l + 1) - 1)
             /\ line(l + 1) \in Seq(S)
  <2>1. l + 1 \in 0 .. N /\ l \in 0 .. N /\ l + 1 # 0 /\ (l + 1 = 1 <=> l = 0) /\ (l + 1) - 1 = l
    BY <1>2
  <2>2. line(l + 1) = SubSeq(file, Start(file, nl, l) + 1, Start(file, nl, l + 1) - 1)
    <3>1. Start(file, nl, l + 1) = ends[l + 1] /\ Start(file, nl, l) = IF l + 1 = 1 THEN 0 ELSE ends[(l + 1) - 1]
      BY <1>3, <2>1
    <3> QED BY <3>1
  <2>3. Start(file, nl, l) \in 0 .. Len(file) /\ Start(file, nl, l + 1) \in 0 .. Len(file)
    BY <1>4, <2>1
  <2>4. /\ \A x \in Start(file, nl, l) + 1 .. Start(file, nl, l + 1) - 1 : file[x] \in S
        /\ Start(file, nl, l) + 1 \in Int /\ Start(file, nl, l + 1) - 1 \in Int
    <3>1. \A x \in Start(file, nl, l) + 1 .. Start(file, nl, l + 1) - 1 : x \in 1 .. Len(file)
      BY <1>1, <2>3
    <3> QED BY <2>3, <3>1, ElementOfSeq
  <2>5. SubSeq(file, Start(file, nl, l) + 1, Start(file, nl, l + 1) - 1) \in Seq(S)
    BY <2>4, SubSeqProperties
  <2> QED BY <2>2, <2>5
<1> HIDE DEF line
<1>9. \A y \in 1 .. N : line(y) \in Seq(S)
  <2> SUFFICES ASSUME NEW y \in 1 .. N PROVE line(y) \in Seq(S)
    OBVIOUS
  <2>1. y - 1 \in 0 .. N - 1 /\ (y - 1) + 1 = y
    BY <1>2
  <2> QED BY <1>8, <2>1
<1>10. LinesIn(file, nl) \in Seq(Seq(S)) /\ Len(LinesIn(file, nl)) = N
  <2>1. LinesIn(file, nl) \in [1 .. N -> Seq(S)]
    BY <1>6, <1>7, <1>9
  <2> QED BY <1>2, <2>1, IsASeq
<1>11. \A l \in 0 .. N - 1 : LinesIn(file, nl)[l + 1] = line(l + 1)
  <2>1. \A l \in 0 .. N - 1 : l + 1 \in 1 .. N
    BY <1>2
  <2> QED BY <1>6, <1>7, <2>1
<1> QED BY <1>1, <1>2, <1>4, <1>5, <1>8, <1>10, <1>11 DEF N
LEMMA NoKeyYet ==
  ASSUME NEW S, NEW ks \in Seq(S)
  PROVE  SubSeq(ks, 1, 0) = <<>>
BY SubSeqEmpty

LEMMA OneKeyMore ==
  ASSUME NEW S, NEW ks \in Seq(S), NEW l \in 0 .. Len(ks) - 1
  PROVE  /\ Append(SubSeq(ks, 1, l), ks[l + 1]) = SubSeq(ks, 1, l + 1)
         /\ Len(SubSeq(ks, 1, l)) = l
<1>1. Len(ks) \in Nat /\ l \in Nat /\ l + 1 \in 1 .. Len(ks) /\ 1 \in 1 .. Len(ks) /\ (l + 1) - 1 = l
  BY LenProperties
<1>2. SubSeq(ks, 1, l + 1) = SubSeq(ks, 1, l) \o <<ks[l + 1]>>
  BY <1>1, SubSeqRecursiveSecond
<1>3. \A x \in 1 .. l : ks[x] \in S
  BY <1>1, ElementOfSeq
<1>4. SubSeq(ks, 1, l) \in Seq(S) /\ Len(SubSeq(ks, 1, l)) = IF 1 <= l THEN l - 1 + 1 ELSE 0
  BY <1>1, <1>3, SubSeqProperties
<1>5. ks[l + 1] \in S
  BY <1>1, ElementOfSeq
<1>6. Append(SubSeq(ks, 1, l), ks[l + 1]) = SubSeq(ks, 1, l) \o <<ks[l + 1]>>
  BY <1>4, <1>5, AppendIsConcat
<1> QED BY <1>1, <1>2, <1>4, <1>6
\* How many lines end up to a place, one chunk on.
LEMMA CountsOn ==
  ASSUME NEW S, NEW file \in Seq(S), NEW nl, NEW pos \in 0 .. Len(file),
         NEW upto \in pos .. Len(file), \A x \in pos + 1 .. upto - 1 : file[x] # nl
  PROVE  /\ Cardinality({x \in Ends(file, nl) : x <= pos}) \in Nat
         /\ Cardinality({x \in Ends(file, nl) : x <= upto})
              = Cardinality({x \in Ends(file, nl) : x <= pos})
                + (IF upto > pos /\ file[upto] = nl THEN 1 ELSE 0)
         /\ (\A x \in pos + 1 .. Len(file) : file[x] # nl) =>
              {x \in Ends(file, nl) : x <= pos} = Ends(file, nl)
<1> DEFINE To(y) == {x \in Ends(file, nl) : x <= y}
<1>1. Len(file) \in Nat /\ pos \in Nat /\ upto \in Nat /\ pos <= upto
  BY LenProperties
<1>2. \A x : x \in Ends(file, nl) <=> x \in 1 .. Len(file) /\ file[x] = nl
  BY DEF Ends
<1>3. IsFiniteSet(To(pos))
  <2>1. IsFiniteSet(Ends(file, nl)) /\ To(pos) \in SUBSET Ends(file, nl)
    BY LinesOf
  <2> QED BY <2>1, FS_Subset
<1>4. CASE upto > pos /\ file[upto] = nl
  <2>1. To(upto) = To(pos) \cup {upto} /\ upto \notin To(pos)
    <3>1. upto \in Ends(file, nl) /\ upto <= upto /\ ~(upto <= pos)
      BY <1>1, <1>2, <1>4
    <3>2. ASSUME NEW x \in Ends(file, nl), x <= upto, x # upto PROVE x <= pos
      <4>1. x \in Int /\ (x <= pos \/ x \in pos + 1 .. upto - 1)
        BY <1>1, <1>2, <3>2
      <4> QED BY <1>2, <4>1
    <3>3. \A x \in Ends(file, nl) : x <= pos => x <= upto
      BY <1>1, <1>2
    <3> QED BY <3>1, <3>2, <3>3
  <2> HIDE DEF To
  <2>2. Cardinality(To(upto)) = Cardinality(To(pos)) + 1 /\ Cardinality(To(pos)) \in Nat
    BY <1>3, <2>1, FS_AddElement, FS_CardinalityType
  <2>3. ~\A x \in pos + 1 .. Len(file) : file[x] # nl
    BY <1>1, <1>4
  <2> QED BY <1>4, <2>2, <2>3 DEF To
<1>5. CASE ~(upto > pos /\ file[upto] = nl)
  <2>1. To(upto) = To(pos)
    <3>1. ASSUME NEW x \in Ends(file, nl), x <= upto PROVE x <= pos
      <4>1. x \in Int /\ (x <= pos \/ x \in pos + 1 .. upto - 1 \/ (x = upto /\ x > pos))
        BY <1>1, <1>2, <3>1
      <4> QED BY <1>2, <1>5, <4>1
    <3>3. \A x \in Ends(file, nl) : x <= pos => x <= upto
      BY <1>1, <1>2
    <3> QED BY <3>1, <3>3
  <2>2. Cardinality(To(pos)) \in Nat /\ Cardinality(To(pos)) + 0 = Cardinality(To(pos))
    BY <1>3, FS_CardinalityType
  <2>3. ASSUME \A x \in pos + 1 .. Len(file) : file[x] # nl PROVE To(pos) = Ends(file, nl)
    <3>1. ASSUME NEW x \in Ends(file, nl) PROVE x <= pos
      <4>1. x \in 1 .. Len(file) /\ (x <= pos \/ x \in pos + 1 .. Len(file))
        BY <1>1, <1>2
      <4> QED BY <1>2, <2>3, <4>1
    <3> QED BY <3>1
  <2> HIDE DEF To
  <2> QED BY <1>5, <2>1, <2>2, <2>3 DEF To
<1> QED BY <1>4, <1>5

\* A chunk of a line ends with the line or before.
LEMMA LineOn ==
  ASSUME NEW S, NEW file \in Seq(S), NEW nl, NEW l \in 0 .. Cardinality(Ends(file, nl)) - 1,
         NEW pos \in Start(file, nl, l) .. Start(file, nl, l + 1) - 1,
         NEW upto \in pos .. Len(file), \A x \in pos + 1 .. upto - 1 : file[x] # nl
  PROVE  /\ pos \in 0 .. Len(file)
         /\ upto > pos /\ file[upto] = nl => upto = Start(file, nl, l + 1)
         /\ ~(upto > pos /\ file[upto] = nl) => upto <= Start(file, nl, l + 1) - 1
         /\ ~\A x \in pos + 1 .. Len(file) : file[x] # nl
<1> DEFINE from == Start(file, nl, l)
           to == Start(file, nl, l + 1)
<1>1. /\ Len(file) \in Nat /\ from \in 0 .. Len(file) /\ to \in 0 .. Len(file)
      /\ from < to /\ file[to] = nl /\ \A x \in from + 1 .. to - 1 : file[x] # nl
  <2>1. Cardinality(Ends(file, nl)) \in Nat /\ Len(file) \in Nat
    BY LinesOf, LenProperties
  <2>2. l \in 0 .. Cardinality(Ends(file, nl)) /\ l + 1 \in 0 .. Cardinality(Ends(file, nl))
    BY <2>1
  <2> QED BY <2>1, <2>2, LinesOf
<1> HIDE DEF from, to
<1>2. pos \in from .. to - 1
  BY DEF from, to
<1>3. pos \in Nat /\ upto \in Nat /\ from \in Nat /\ to \in Nat /\ pos < to /\ from <= pos
  BY <1>1, <1>2
<1>4. upto <= to
  <2>1. upto > to => to \in pos + 1 .. upto - 1
    BY <1>3
  <2> QED BY <1>1, <1>3, <2>1
<1>5. upto > pos /\ upto # to => file[upto] # nl
  <2>1. upto > pos /\ upto # to => upto \in from + 1 .. to - 1
    BY <1>3, <1>4
  <2> QED BY <1>1, <2>1
<1>6. to \in pos + 1 .. Len(file)
  BY <1>1, <1>3
<1>7. pos \in 0 .. Len(file)
  BY <1>1, <1>3
<1>8. ~(upto > pos /\ file[upto] = nl) => upto <= to - 1
  BY <1>1, <1>3, <1>4
<1> QED BY <1>1, <1>5, <1>6, <1>7, <1>8 DEF from, to

\* What has been read, with one chunk more.
JoinedTo(file, from, pos, chunk, upto) ==
  /\ SubSeq(file, from + 1, pos) \o chunk = SubSeq(file, from + 1, upto)
  /\ upto > pos => SubSeq(file, from + 1, pos) \o SubSeq(chunk, 1, Len(chunk) - 1)
                     = SubSeq(file, from + 1, upto - 1)

LEMMA ReadsOn ==
  ASSUME NEW S, NEW file \in Seq(S), NEW from \in 0 .. Len(file), NEW pos \in from .. Len(file),
         NEW upto \in pos .. Len(file), NEW chunk, chunk = SubSeq(file, pos + 1, upto)
  PROVE  JoinedTo(file, from, pos, chunk, upto)
<1>1. Len(file) \in Nat /\ from \in Nat /\ pos \in Nat /\ upto \in Nat
  BY LenProperties
<1>2. from + 1 \in 1 .. Len(file) + 1 /\ pos \in from + 1 - 1 .. Len(file) /\ upto \in pos .. Len(file)
  BY <1>1
<1>3. SubSeq(file, from + 1, pos) \o chunk = SubSeq(file, from + 1, upto)
  BY <1>2, ConcatAdjacentSubSeq
<1>4. ASSUME upto > pos
      PROVE  SubSeq(file, from + 1, pos) \o SubSeq(chunk, 1, Len(chunk) - 1)
               = SubSeq(file, from + 1, upto - 1)
  <2>1. upto - 1 \in pos .. Len(file) /\ pos + 1 \in 1 .. Len(file) /\ upto \in 1 .. Len(file)
        /\ pos + 1 <= upto
    BY <1>1, <1>4
  <2>2. Len(chunk) = upto - (pos + 1) + 1
    <3>1. \A x \in pos + 1 .. upto : file[x] \in S
      <4>1. \A x \in pos + 1 .. upto : x \in 1 .. Len(file)
        BY <1>1
      <4> QED BY <4>1, ElementOfSeq
    <3> QED BY <2>1, <3>1, SubSeqProperties
  <2>3. SubSeq(chunk, 1, Len(chunk) - 1) = SubSeq(file, pos + 1, upto - 1)
    <3>1. CASE upto - 1 > pos
      <4>1. 1 \in 1 .. upto - (pos + 1) + 1 /\ Len(chunk) - 1 \in 1 .. upto - (pos + 1) + 1
            /\ pos + 1 + 1 - 1 = pos + 1 /\ pos + 1 + (Len(chunk) - 1) - 1 = upto - 1
        BY <1>1, <2>2, <3>1
      <4> QED BY <2>1, <4>1, SubSeqOfSubSeq
    <3>2. CASE ~(upto - 1 > pos)
      <4>1. Len(chunk) - 1 < 1 /\ Len(chunk) - 1 \in Int /\ upto - 1 < pos + 1
        BY <1>1, <1>4, <2>2, <3>2
      <4>2. SubSeq(chunk, 1, Len(chunk) - 1) = <<>>
        BY <4>1, SubSeqEmpty
      <4>3. SubSeq(file, pos + 1, upto - 1) = <<>>
        BY <2>1, <4>1, SubSeqEmpty
      <4> QED BY <4>2, <4>3
    <3> QED BY <3>1, <3>2
  <2> QED BY <1>2, <2>1, <2>3, ConcatAdjacentSubSeq
<1> QED BY <1>3, <1>4 DEF JoinedTo
---------------------------------------------------------------------------
(* A hypergraph whose edges are peeled: gr[d + 1] has the vertices of the  *)
(* edge d, 0 .. mm - 1 are the edges.                                      *)

\* No edge is queued twice.
Once(mm, edges) ==
  /\ edges \in Seq(0 .. mm - 1)
  /\ \A x, y \in 1 .. Len(edges) : edges[x] = edges[y] => x = y

\* Each that is queued has a vertex that of all the edges only those that are
\* queued before share.
Peels(gr, mm, edges) ==
  /\ Once(mm, edges)
  /\ \A x \in 1 .. Len(edges) : \E v \in ToSet(gr[edges[x] + 1]) :
       \A d \in 0 .. mm - 1 : v \in ToSet(gr[d + 1]) => \E y \in 1 .. x : edges[y] = d

Shared(gr, mm, d, v, removed) ==
  \E o \in 0 .. mm - 1 : o # d /\ o \notin removed /\ v \in ToSet(gr[o + 1])

\* What is not queued shares each of its vertices with an edge that is left.
Complete(gr, mm, edges, removed) ==
  \A d \in 0 .. mm - 1 : d \notin ToSet(edges) =>
    \A v \in ToSet(gr[d + 1]) : Shared(gr, mm, d, v, removed)

\* The edges of gr are three vertices below nn.
Triple(vs, nn) ==
  /\ \A x \in 1 .. 3 : vs[x] \in 0 .. nn - 1
  /\ vs[1] # vs[2] /\ vs[1] # vs[3] /\ vs[2] # vs[3]
  /\ ToSet(vs) = {vs[1], vs[2], vs[3]}
Triples(gr, mm, nn) == \A d \in 0 .. mm - 1 : Triple(gr[d + 1], nn)

\* The edges that are left at a vertex, which are counted modulo by; the
\* queue, with the last of them where one is counted.
LeftAt(gr, mm, v, removed) == {d \in 0 .. mm - 1 : d \notin removed /\ v \in ToSet(gr[d + 1])}
WithLast(by, gr, mm, edges, v, removed) ==
  LET left == LeftAt(gr, mm, v, removed)
  IN  IF Cardinality(left) % by = 1 /\ Max(left) \notin ToSet(edges) THEN Append(edges, Max(left)) ELSE edges

\* One sequence begins with another; a sequence has every element of a set;
\* what is not queued shares the vertex with an edge that is left.
StartsWith(next, edges) ==
  Len(next) \in Nat /\ Len(next) >= Len(edges) /\ \A x \in 1 .. Len(edges) : next[x] = edges[x]
Has(edges, some) == \A d \in some : \E y \in 1 .. Len(edges) : edges[y] = d
LookedAt(gr, mm, edges, v, removed) ==
  \A d \in 0 .. mm - 1 : d \notin ToSet(edges) /\ v \in ToSet(gr[d + 1]) => Shared(gr, mm, d, v, removed)

\* At most by edges meet at a vertex: where one is counted there is one.
Few(by, gr, mm) == \A v : Cardinality(LeftAt(gr, mm, v, {})) <= by

LEMMA SeqElements ==
  ASSUME NEW S, NEW s \in Seq(S)
  PROVE  /\ \A x \in 1 .. Len(s) : s[x] \in ToSet(s) /\ s[x] \in S
         /\ \A y \in ToSet(s) : y \in S /\ \E x \in 1 .. Len(s) : s[x] = y
BY LenProperties DEF ToSet

\* What a count modulo by tells of 1, and of up to by.
LEMMA OneModulo ==
  ASSUME NEW by \in Nat, by > 1
  PROVE  /\ 0 % by = 0 /\ 1 % by = 1
         /\ \A x \in Nat : x <= by /\ x % by = 1 => x = 1
OBVIOUS

LEMMA LastLeft ==
  ASSUME NEW by \in Nat, by > 1, NEW gr, NEW mm \in Nat, NEW v, NEW removed,
         NEW left, left = LeftAt(gr, mm, v, removed)
  PROVE  /\ Cardinality(left) % by = 1 => Max(left) \in left
         /\ Cardinality(left) % by = 1 /\ Few(by, gr, mm) => left = {Max(left)}
         /\ \A d \in left : (\E o \in left : o # d) \/ (Cardinality(left) % by = 1 /\ Max(left) = d)
<1> DEFINE all == LeftAt(gr, mm, v, {})
<1>1. IsFiniteSet(left) /\ left \subseteq 0 .. mm - 1 /\ left \subseteq all /\ IsFiniteSet(all)
  <2>1. left \in SUBSET (0 .. mm - 1) /\ all \in SUBSET (0 .. mm - 1) /\ left \subseteq all
    BY DEF LeftAt
  <2>2. 0 \in Int /\ mm - 1 \in Int
    OBVIOUS
  <2>3. IsFiniteSet(0 .. mm - 1)
    BY <2>2, FS_Interval
  <2> HIDE DEF all
  <2> QED BY <2>1, <2>3, FS_Subset
<1>2. Few(by, gr, mm) => Cardinality(all) <= by
  BY DEF Few
<1> HIDE DEF all
<1>3. Cardinality(left) \in Nat /\ Cardinality(all) \in Nat /\ Cardinality(left) <= Cardinality(all)
  BY <1>1, FS_Subset, FS_CardinalityType
<1>4. ASSUME Cardinality(left) % by = 1 PROVE Max(left) \in left
  <2>1. left # {}
    BY <1>4, OneModulo, FS_EmptySet
  <2>2. left \subseteq Nat /\ \A y \in left : y <= mm
    BY <1>1
  <2> QED BY <2>1, <2>2, GreatestOf
<1>5. ASSUME Cardinality(left) % by = 1, Few(by, gr, mm) PROVE left = {Max(left)}
  <2>1. Cardinality(left) <= by
    BY <1>2, <1>3, <1>5
  <2>2. Cardinality(left) = 1
    BY <1>3, <1>5, <2>1, OneModulo
  <2>3. PICK d : left = {d}
    BY <1>1, <2>2, FS_Singleton
  <2> QED BY <1>4, <1>5, <2>3
<1>6. ASSUME NEW d \in left, ~\E o \in left : o # d
      PROVE  Cardinality(left) % by = 1 /\ Max(left) = d
  <2>1. left = {d}
    BY <1>6
  <2>2. Cardinality(left) = 1
    BY <2>1, FS_Singleton
  <2>3. Cardinality(left) % by = 1
    BY <2>2, OneModulo
  <2> QED BY <1>4, <2>1, <2>3
<1> QED BY <1>4, <1>5, <1>6

LEMMA QueuesLast ==
  ASSUME NEW by \in Nat, by > 1, NEW gr, NEW mm \in Nat, NEW edges, Once(mm, edges),
         Few(by, gr, mm) => Peels(gr, mm, edges), NEW removed, NEW v,
         Has(edges, removed), NEW next, next = WithLast(by, gr, mm, edges, v, removed)
  PROVE  /\ Once(mm, next) /\ (Few(by, gr, mm) => Peels(gr, mm, next))
         /\ StartsWith(next, edges) /\ LookedAt(gr, mm, next, v, removed)
<1> DEFINE left == LeftAt(gr, mm, v, removed)
           most == Max(left)
           queues == Cardinality(left) % by = 1 /\ most \notin ToSet(edges)
<1>1. edges \in Seq(0 .. mm - 1) /\ Len(edges) \in Nat
      /\ \A x, y \in 1 .. Len(edges) : edges[x] = edges[y] => x = y
  BY LenProperties DEF Once
<1>2. /\ Cardinality(left) % by = 1 => most \in left
      /\ Cardinality(left) % by = 1 /\ Few(by, gr, mm) => left = {most}
      /\ \A d \in left : (\E o \in left : o # d) \/ (Cardinality(left) % by = 1 /\ most = d)
  BY LastLeft
<1>3. /\ \A d : d \in left <=> d \in 0 .. mm - 1 /\ d \notin removed /\ v \in ToSet(gr[d + 1])
      /\ next = IF queues THEN Append(edges, most) ELSE edges
  BY DEF LeftAt, WithLast
<1>4. queues => most \in left /\ most \notin ToSet(edges) /\ (Few(by, gr, mm) => left = {most})
  BY <1>2
<1>5. \A d \in left : (\E o \in left : o # d) \/ (queues /\ most = d) \/ d \in ToSet(edges)
  BY <1>2
<1> HIDE DEF left, most, queues
<1>6. queues => /\ most \in 0 .. mm - 1 /\ next = Append(edges, most) /\ Len(next) = Len(edges) + 1
                /\ next \in Seq(0 .. mm - 1) /\ next[Len(edges) + 1] = most
                /\ \A x \in 1 .. Len(edges) : next[x] = edges[x]
  BY <1>1, <1>3, <1>4, AppendProperties
<1>7. ToSet(edges) \subseteq ToSet(next) /\ next \in Seq(0 .. mm - 1)
      /\ Len(next) \in Nat /\ Len(next) >= Len(edges) /\ \A x \in 1 .. Len(edges) : next[x] = edges[x]
  <2>1. CASE queues
    <3>1. \A x \in 1 .. Len(edges) : x \in 1 .. Len(next)
      BY <1>1, <1>6, <2>1
    <3>2. next \in Seq(0 .. mm - 1) /\ \A x \in 1 .. Len(edges) : next[x] = edges[x]
      BY <1>6, <2>1
    <3>3. ToSet(edges) \subseteq ToSet(next)
      <4>1. \A y \in ToSet(edges) : \E x \in 1 .. Len(edges) : edges[x] = y
        BY <1>1, SeqElements
      <4>2. \A x \in 1 .. Len(next) : next[x] \in ToSet(next)
        BY <3>2, SeqElements
      <4> QED BY <3>1, <3>2, <4>1, <4>2
    <3>4. Len(next) \in Nat /\ Len(next) >= Len(edges)
      BY <1>1, <1>6, <2>1
    <3> QED BY <3>2, <3>3, <3>4
  <2>2. CASE ~queues
    BY <1>1, <1>3, <2>2
  <2> QED BY <2>1, <2>2
<1>8. ASSUME NEW d \in 0 .. mm - 1, d \notin ToSet(next), v \in ToSet(gr[d + 1])
      PROVE  Shared(gr, mm, d, v, removed)
  <2>1. d \notin ToSet(edges)
    BY <1>7, <1>8
  <2>2. d \notin removed
    <3>1. SUFFICES ASSUME d \in removed PROVE FALSE
      OBVIOUS
    <3>2. PICK y \in 1 .. Len(edges) : edges[y] = d
      BY <3>1 DEF Has
    <3> QED BY <1>1, <2>1, <3>2, SeqElements
  <2>3. d \in left
    BY <1>3, <1>8, <2>2
  <2>4. queues => most # d
    <3>1. SUFFICES ASSUME queues PROVE most # d
      OBVIOUS
    <3>2. Len(edges) + 1 \in 1 .. Len(next)
      BY <1>1, <1>6, <3>1
    <3>3. next[Len(edges) + 1] \in ToSet(next)
      BY <1>7, <3>2, SeqElements
    <3> QED BY <1>6, <1>8, <3>1, <3>3
  <2>5. PICK o \in left : o # d
    BY <1>5, <2>1, <2>3, <2>4
  <2> QED BY <1>3, <2>5 DEF Shared
<1>9. Once(mm, next)
  <2>1. CASE ~queues
    BY <1>3, <2>1
  <2>2. CASE queues
    <3>1. \A x \in 1 .. Len(next) : x \in 1 .. Len(edges) \/ x = Len(edges) + 1
      BY <1>1, <1>6, <2>2
    <3>2. \A x \in 1 .. Len(edges) : edges[x] # most
      BY <1>1, <1>4, <2>2, SeqElements
    <3>3. ASSUME NEW x \in 1 .. Len(next), NEW y \in 1 .. Len(next), next[x] = next[y] PROVE x = y
      BY <1>1, <1>6, <2>2, <3>1, <3>2, <3>3
    <3> QED BY <1>7, <3>3 DEF Once
  <2> QED BY <2>1, <2>2
<1>10. ASSUME Few(by, gr, mm) PROVE Peels(gr, mm, next)
  <2>1. CASE ~queues
    BY <1>3, <1>10, <2>1
  <2>2. CASE queues
    <3>1. left = {most} /\ most \in left
      BY <1>4, <1>10, <2>2
    <3>2. Len(next) = Len(edges) + 1 /\ next[Len(edges) + 1] = most
          /\ \A x \in 1 .. Len(edges) : next[x] = edges[x]
      BY <1>6, <2>2
    <3>3. \A x \in 1 .. Len(next) : x \in 1 .. Len(edges) \/ x = Len(edges) + 1
      BY <1>1, <3>2
    <3>4. ASSUME NEW x \in 1 .. Len(next)
          PROVE  \E u \in ToSet(gr[next[x] + 1]) : \A d \in 0 .. mm - 1 :
                   u \in ToSet(gr[d + 1]) => \E y \in 1 .. x : next[y] = d
      <4>1. CASE x \in 1 .. Len(edges)
        <5>1. PICK u \in ToSet(gr[edges[x] + 1]) : \A d \in 0 .. mm - 1 :
                u \in ToSet(gr[d + 1]) => \E y \in 1 .. x : edges[y] = d
          BY <1>10, <4>1 DEF Peels
        <5>2. \A y \in 1 .. x : next[y] = edges[y]
          <6>1. \A y \in 1 .. x : y \in 1 .. Len(edges)
            BY <1>1, <4>1
          <6> QED BY <3>2, <6>1
        <5>3. next[x] = edges[x]
          BY <3>2, <4>1
        <5> QED BY <5>1, <5>2, <5>3
      <4>2. CASE x = Len(edges) + 1
        <5>1. next[x] = most /\ v \in ToSet(gr[next[x] + 1])
          BY <1>3, <3>1, <3>2, <4>2
        <5>2. ASSUME NEW d \in 0 .. mm - 1, v \in ToSet(gr[d + 1])
              PROVE  \E y \in 1 .. x : next[y] = d
          <6>1. CASE d \in removed
            <7>1. PICK y \in 1 .. Len(edges) : edges[y] = d
              BY <6>1 DEF Has
            <7>2. y \in 1 .. x
              BY <1>1, <4>2, <7>1
            <7>3. next[y] = d
              BY <3>2, <7>1
            <7> QED BY <7>2, <7>3
          <6>2. CASE d \notin removed
            <7>1. d \in left
              BY <1>3, <5>2, <6>2
            <7>2. d = most
              BY <3>1, <7>1
            <7>3. x \in 1 .. x
              BY <1>1, <4>2
            <7> QED BY <5>1, <7>2, <7>3
          <6> QED BY <6>1, <6>2
        <5> QED BY <5>1, <5>2
      <4> QED BY <3>3, <4>1, <4>2
    <3> QED BY <1>9, <3>4 DEF Peels
  <2> QED BY <2>1, <2>2
<1> QED BY <1>7, <1>8, <1>9, <1>10 DEF StartsWith, LookedAt

LEMMA StartsThen ==
  ASSUME NEW S, NEW first \in Seq(S), NEW second \in Seq(S), NEW third \in Seq(S),
         StartsWith(second, first), StartsWith(third, second)
  PROVE  StartsWith(third, first)
<1>1. Len(first) \in Nat /\ Len(second) \in Nat /\ Len(third) \in Nat
  BY LenProperties
<1>2. Len(second) >= Len(first) /\ Len(third) >= Len(second)
  BY DEF StartsWith
<1>3. ASSUME NEW x \in 1 .. Len(first) PROVE third[x] = first[x]
  <2>1. x \in 1 .. Len(second)
    BY <1>1, <1>2
  <2> QED BY <2>1 DEF StartsWith
<1>4. Len(third) >= Len(first)
  BY <1>1, <1>2
<1> QED BY <1>1, <1>3, <1>4 DEF StartsWith

LEMMA StartsHas ==
  ASSUME NEW S, NEW first \in Seq(S), NEW second \in Seq(S), StartsWith(second, first),
         NEW some, Has(first, some)
  PROVE  Has(second, some) /\ ToSet(first) \subseteq ToSet(second)
<1>1. Len(first) \in Nat /\ Len(second) \in Nat /\ Len(second) >= Len(first)
  BY LenProperties DEF StartsWith
<1>2. \A x \in 1 .. Len(first) : x \in 1 .. Len(second) /\ second[x] = first[x]
  BY <1>1 DEF StartsWith
<1>3. Has(second, some)
  BY <1>2 DEF Has
<1>4. ASSUME NEW y \in ToSet(first) PROVE y \in ToSet(second)
  <2>1. PICK x \in 1 .. Len(first) : first[x] = y
    BY SeqElements
  <2>2. second[x] \in ToSet(second)
    BY <1>2, SeqElements
  <2> QED BY <1>2, <2>1, <2>2
<1> QED BY <1>3, <1>4

\* The first upto edges of the queue have been removed; the next one is, and
\* its three vertices are looked at.
Taken(edges, upto) == {edges[x] : x \in 1 .. upto}
Queued(by, gr, mm, edges, upto) ==
  Once(mm, edges) /\ (Few(by, gr, mm) => Peels(gr, mm, edges))
  /\ upto \in 0 .. Len(edges) /\ Complete(gr, mm, edges, Taken(edges, upto))
AfterNext(by, gr, mm, edges, upto) ==
  LET vs == gr[edges[upto + 1] + 1]
      more == Taken(edges, upto) \cup {edges[upto + 1]}
      one == WithLast(by, gr, mm, edges, vs[1], more)
      two == WithLast(by, gr, mm, one, vs[2], more)
  IN  WithLast(by, gr, mm, two, vs[3], more)

LEMMA RemovesNext ==
  ASSUME NEW by \in Nat, by > 1, NEW gr, NEW mm \in Nat, NEW nn, Triples(gr, mm, nn),
         NEW edges, NEW upto, Queued(by, gr, mm, edges, upto), upto < Len(edges)
  PROVE  Queued(by, gr, mm, AfterNext(by, gr, mm, edges, upto), upto + 1)
<1> DEFINE t == upto
           removed == Taken(edges, t)
           more == removed \cup {edges[t + 1]}
           vs == gr[edges[t + 1] + 1]
           v1 == vs[1]
           v2 == vs[2]
           v3 == vs[3]
           one == WithLast(by, gr, mm, edges, v1, more)
           two == WithLast(by, gr, mm, one, v2, more)
           three == WithLast(by, gr, mm, two, v3, more)
<1>1. /\ Once(mm, edges) /\ (Few(by, gr, mm) => Peels(gr, mm, edges)) /\ t \in 0 .. Len(edges) /\ t < Len(edges)
      /\ Complete(gr, mm, edges, removed)
  BY DEF Queued
<1>2. edges \in Seq(0 .. mm - 1) /\ Len(edges) \in Nat
  <2>1. edges \in Seq(0 .. mm - 1)
    BY <1>1 DEF Once
  <2> QED BY <2>1, LenProperties
<1>3. \A v \in ToSet(vs) : v \in {v1, v2, v3}
  <2>1. t + 1 \in 1 .. Len(edges)
    BY <1>1, <1>2
  <2>2. edges[t + 1] \in 0 .. mm - 1
    BY <1>2, <2>1, SeqElements
  <2>3. Triple(vs, nn)
    BY <2>2 DEF Triples
  <2> QED BY <2>3 DEF Triple
<1>4. \A d : d \in removed <=> \E x \in 1 .. t : edges[x] = d
  BY DEF Taken
<1>5. AfterNext(by, gr, mm, edges, upto) = three /\ more = removed \cup {edges[t + 1]}
  BY DEF AfterNext
<1>6. /\ one = WithLast(by, gr, mm, edges, v1, more) /\ two = WithLast(by, gr, mm, one, v2, more)
      /\ three = WithLast(by, gr, mm, two, v3, more) /\ t \in Nat
  BY <1>1
<1>7. \A v \in ToSet(gr[edges[t + 1] + 1]) : v \in {v1, v2, v3}
  BY <1>3
<1> HIDE DEF t, removed, more, vs, v1, v2, v3, one, two, three
<1>8. Len(edges) \in Nat /\ t + 1 \in 1 .. Len(edges) /\ t \in Nat
  BY <1>1, <1>2, <1>6
<1>9. Has(edges, more)
  <2>1. \A x \in 1 .. t : x \in 1 .. Len(edges)
    BY <1>8
  <2> QED BY <1>8, <1>4, <1>5, <2>1 DEF Has
<1>10. Once(mm, one) /\ (Few(by, gr, mm) => Peels(gr, mm, one))
      /\ StartsWith(one, edges) /\ LookedAt(gr, mm, one, v1, more)
  BY <1>9, <1>1, <1>6, QueuesLast
<1>11. edges \in Seq(0 .. mm - 1) /\ one \in Seq(0 .. mm - 1)
  BY <1>10, <1>2 DEF Once
<1>12. Has(one, more) /\ ToSet(edges) \subseteq ToSet(one)
  <2>1. Has(one, more)
    BY <1>9, <1>10, <1>11, StartsHas
  <2>2. ToSet(edges) \subseteq ToSet(one)
    BY <1>9, <1>10, <1>11, StartsHas
  <2> QED BY <2>1, <2>2
<1>13. Once(mm, two) /\ (Few(by, gr, mm) => Peels(gr, mm, two))
      /\ StartsWith(two, one) /\ LookedAt(gr, mm, two, v2, more)
  BY <1>10, <1>12, <1>6, QueuesLast
<1>14. two \in Seq(0 .. mm - 1)
  BY <1>13 DEF Once
<1>15. Has(two, more) /\ ToSet(one) \subseteq ToSet(two)
  <2>1. Has(two, more)
    BY <1>11, <1>12, <1>13, <1>14, StartsHas
  <2>2. ToSet(one) \subseteq ToSet(two)
    BY <1>11, <1>12, <1>13, <1>14, StartsHas
  <2> QED BY <2>1, <2>2
<1>16. Once(mm, three) /\ (Few(by, gr, mm) => Peels(gr, mm, three))
      /\ StartsWith(three, two) /\ LookedAt(gr, mm, three, v3, more)
  BY <1>13, <1>15, <1>6, QueuesLast
<1>17. three \in Seq(0 .. mm - 1)
  BY <1>16 DEF Once
<1>18. ToSet(two) \subseteq ToSet(three)
  BY <1>14, <1>15, <1>16, <1>17, StartsHas
<1>19. StartsWith(three, edges)
  <2>1. StartsWith(two, edges)
    BY <1>10, <1>11, <1>13, <1>14, StartsThen
  <2> QED BY <1>11, <1>14, <1>16, <1>17, <2>1, StartsThen
<1>20. Len(three) \in Nat /\ Len(three) >= Len(edges)
       /\ \A x \in 1 .. Len(edges) : three[x] = edges[x]
  BY <1>19 DEF StartsWith
<1>21. Complete(gr, mm, three, more)
  <2>1. SUFFICES ASSUME NEW d \in 0 .. mm - 1, d \notin ToSet(three), NEW v \in ToSet(gr[d + 1])
                 PROVE  Shared(gr, mm, d, v, more)
    BY DEF Complete
  <2>2. d \notin ToSet(edges) /\ d \notin ToSet(one) /\ d \notin ToSet(two)
    BY <1>12, <1>15, <1>18, <2>1
  <2>3. CASE v \in {v1, v2, v3}
    <3>1. v = v1 => Shared(gr, mm, d, v, more)
      BY <1>10, <2>1, <2>2 DEF LookedAt
    <3>2. v = v2 => Shared(gr, mm, d, v, more)
      BY <1>13, <2>1, <2>2 DEF LookedAt
    <3>3. v = v3 => Shared(gr, mm, d, v, more)
      BY <1>16, <2>1, <2>2 DEF LookedAt
    <3> QED BY <2>3, <3>1, <3>2, <3>3
  <2>4. CASE v \notin ToSet(gr[edges[t + 1] + 1])
    <3>1. Shared(gr, mm, d, v, removed)
      BY <1>1, <2>1, <2>2 DEF Complete
    <3>2. PICK o \in 0 .. mm - 1 : o # d /\ o \notin removed /\ v \in ToSet(gr[o + 1])
      BY <3>1 DEF Shared
    <3>3. o # edges[t + 1]
      BY <2>4, <3>2
    <3> QED BY <1>5, <3>2, <3>3 DEF Shared
  <2> QED BY <1>7, <2>3, <2>4
<1>22. t + 1 <= Len(three)
  BY <1>8, <1>20
<1>23. ASSUME NEW d PROVE d \in more <=> \E x \in 1 .. t + 1 : three[x] = d
  <2>1. \A x : x \in 1 .. t + 1 <=> x \in 1 .. t \/ x = t + 1
    BY <1>8
  <2>2. \A x \in 1 .. t + 1 : x \in 1 .. Len(edges)
    BY <1>8
  <2>3. d \in more <=> (\E x \in 1 .. t : edges[x] = d) \/ d = edges[t + 1]
    BY <1>4, <1>5
  <2> QED BY <1>20, <2>1, <2>2, <2>3
<1>24. more = Taken(three, t + 1)
  BY <1>23 DEF Taken
<1>25. t + 1 \in 0 .. Len(three)
  BY <1>8, <1>20, <1>22
<1> QED BY <1>16, <1>21, <1>24, <1>25, <1>5 DEF Queued, t

\* The queue begins with the edges that have a vertex of their own.
LEMMA FirstQueue ==
  ASSUME NEW by \in Nat, by > 1, NEW gr, NEW mm \in Nat, NEW first,
         first = {d \in 0 .. mm - 1 : \E v \in ToSet(gr[d + 1]) :
                    Cardinality(LeftAt(gr, mm, v, {})) % by = 1},
         NEW edges, edges = Ascending(first)
  PROVE  Queued(by, gr, mm, edges, 0)
<1>1. first \subseteq Int /\ IsFiniteSet(first) /\ first \subseteq 0 .. mm - 1
  <2>1. 0 \in Int /\ mm - 1 \in Int /\ first \in SUBSET (0 .. mm - 1)
    OBVIOUS
  <2>2. IsFiniteSet(0 .. mm - 1)
    BY <2>1, FS_Interval
  <2> QED BY <2>1, <2>2, FS_Subset
<1>2. /\ Cardinality(first) \in Nat /\ edges \in [1 .. Cardinality(first) -> first]
      /\ edges \in Bijection(1 .. Cardinality(first), first)
  BY <1>1, AscendingOnce
<1>3. /\ edges \in Seq(0 .. mm - 1) /\ Len(edges) = Cardinality(first)
      /\ \A x \in 1 .. Len(edges) : edges[x] \in first
  <2>1. edges \in [1 .. Cardinality(first) -> 0 .. mm - 1]
    BY <1>1, <1>2
  <2>2. edges \in Seq(0 .. mm - 1)
    BY <1>2, <2>1, IsASeq
  <2>3. Len(edges) = Cardinality(first)
    BY <1>2, <2>1, <2>2, LenProperties
  <2> QED BY <1>2, <2>2, <2>3
<1>4. \A x, y \in 1 .. Len(edges) : edges[x] = edges[y] => x = y
  BY <1>2, <1>3 DEF Bijection, Injection, IsInjective
<1>5. \A d \in first : \E x \in 1 .. Len(edges) : edges[x] = d
  BY <1>2, <1>3 DEF Bijection, Surjection
<1>6. ASSUME Few(by, gr, mm), NEW x \in 1 .. Len(edges)
      PROVE  \E v \in ToSet(gr[edges[x] + 1]) : \A d \in 0 .. mm - 1 :
               v \in ToSet(gr[d + 1]) => \E y \in 1 .. x : edges[y] = d
  <2>1. edges[x] \in 0 .. mm - 1
    BY <1>1, <1>3
  <2>2. PICK v \in ToSet(gr[edges[x] + 1]) : Cardinality(LeftAt(gr, mm, v, {})) % by = 1
    BY <1>3
  <2> DEFINE left == LeftAt(gr, mm, v, {})
  <2>3. \A d : d \in left <=> d \in 0 .. mm - 1 /\ v \in ToSet(gr[d + 1])
    BY DEF LeftAt
  <2>4. left = {Max(left)}
    <3>1. left = LeftAt(gr, mm, v, {}) /\ Cardinality(left) % by = 1
      BY <2>2
    <3> HIDE DEF left
    <3> QED BY <1>6, <3>1, LastLeft
  <2> HIDE DEF left
  <2>5. \A d \in 0 .. mm - 1 : v \in ToSet(gr[d + 1]) => d = Max(left)
    BY <2>3, <2>4
  <2>6. edges[x] = Max(left) /\ x \in 1 .. x
    BY <1>2, <1>3, <2>1, <2>2, <2>5
  <2> QED BY <2>2, <2>5, <2>6
<1>7. Once(mm, edges) /\ (Few(by, gr, mm) => Peels(gr, mm, edges))
  BY <1>3, <1>4, <1>6 DEF Peels, Once
<1>8. Complete(gr, mm, edges, {})
  <2>1. SUFFICES ASSUME NEW d \in 0 .. mm - 1, d \notin ToSet(edges), NEW v \in ToSet(gr[d + 1])
                 PROVE  Shared(gr, mm, d, v, {})
    BY DEF Complete
  <2>2. d \notin first
    <3>1. \A x \in 1 .. Len(edges) : edges[x] \in ToSet(edges)
      BY <1>3, SeqElements
    <3> QED BY <1>5, <2>1, <3>1
  <2>3. Cardinality(LeftAt(gr, mm, v, {})) % by # 1 /\ d \in LeftAt(gr, mm, v, {})
    BY <2>1, <2>2 DEF LeftAt
  <2> DEFINE left == LeftAt(gr, mm, v, {})
  <2>4. \A x \in left : Cardinality(left) % by # 1 => \E o \in left : o # x
    <3> HIDE DEF left
    <3>1. left = LeftAt(gr, mm, v, {})
      BY DEF left
    <3> QED BY <3>1, LastLeft
  <2> QED BY <2>3, <2>4 DEF LeftAt, Shared
<1>9. Taken(edges, 0) = {} /\ 0 \in 0 .. Len(edges)
  BY <1>2, <1>3 DEF Taken
<1> QED BY <1>7, <1>8, <1>9 DEF Queued
---------------------------------------------------------------------------
(* The edges get vertices of their own, in the reverse order of the queue. *)

\* The vertex that the values of the vertices point at.
Pointed(values, vs) == vs[((values[vs[1]] + values[vs[2]] + values[vs[3]]) % 3) + 1]

\* From the place from + 1 of the queue on the edges were dealt with: their
\* vertices are marked, the others have the value unset, and each of the
\* edges points at a vertex of its own, the value of which is not 3.
Dealt(gr, nn, edges, from, marked, values, unset) ==
  /\ marked = {v \in 0 .. nn - 1 : \E x \in from + 1 .. Len(edges) : v \in ToSet(gr[edges[x] + 1])}
  /\ values \in [0 .. nn - 1 -> 0 .. 3]
  /\ \A v \in 0 .. nn - 1 : v \notin marked => values[v] = unset
  /\ \A x \in from + 1 .. Len(edges) : values[Pointed(values, gr[edges[x] + 1])] # 3
  /\ \A x, y \in from + 1 .. Len(edges) :
       Pointed(values, gr[edges[x] + 1]) = Pointed(values, gr[edges[y] + 1]) => x = y

Free(vs, marked) == Min({x \in 1 .. 3 : vs[x] \notin marked} \cup {3})
ToPoint(values, vs, ch) == (5 + ch - (values[vs[1]] + values[vs[2]] + values[vs[3]] - values[vs[ch]])) % 3

LEMMA FirstFree ==
  ASSUME NEW vs, NEW marked, \E x \in 1 .. 3 : vs[x] \notin marked
  PROVE  /\ Free(vs, marked) \in 1 .. 3 /\ vs[Free(vs, marked)] \notin marked
         /\ \A x \in 1 .. 3 : x < Free(vs, marked) => vs[x] \in marked
<1> DEFINE some == {x \in 1 .. 3 : vs[x] \notin marked} \cup {3}
           ch == Free(vs, marked)
<1>1. some \subseteq 1 .. 3 /\ 3 \in some
  OBVIOUS
<1>2. /\ 1 \in some \/ 2 \in some \/ 3 \in some
      /\ (1 \in some <=> vs[1] \notin marked) /\ (2 \in some <=> vs[2] \notin marked)
      /\ (vs[3] \in marked => 1 \in some \/ 2 \in some)
  <2>1. \A x \in 1 .. 3 : x = 1 \/ x = 2 \/ x = 3
    OBVIOUS
  <2>2. 1 \in 1 .. 3 /\ 2 \in 1 .. 3 /\ 1 # 3 /\ 2 # 3
    OBVIOUS
  <2> QED BY <2>1, <2>2
<1>3. ch = CHOOSE x \in some : \A y \in some : x <= y
  BY DEF Free, Min
<1> HIDE DEF some
<1>4. \E x \in some : \A y \in some : x <= y
  <2>1. \A y \in some : y = 1 \/ y = 2 \/ y = 3
    BY <1>1
  <2>2. CASE 1 \in some
    BY <2>1, <2>2
  <2>3. CASE 1 \notin some /\ 2 \in some
    BY <2>1, <2>3
  <2>4. CASE 1 \notin some /\ 2 \notin some
    BY <1>1, <2>1, <2>4
  <2> QED BY <2>2, <2>3, <2>4
<1>5. ch \in some /\ \A y \in some : ch <= y
  BY <1>3, <1>4
<1> HIDE DEF ch
<1>6. ch = 1 \/ ch = 2 \/ ch = 3
  BY <1>1, <1>5
<1>7. (ch = 1 => 1 \in some) /\ (ch = 2 => 2 \in some /\ 1 \notin some)
      /\ (ch = 3 => 1 \notin some /\ 2 \notin some)
  BY <1>5
<1>8. \A x \in 1 .. 3 : x < ch => (x = 1 /\ (ch = 2 \/ ch = 3)) \/ (x = 2 /\ ch = 3)
  BY <1>6
<1>9. ch \in 1 .. 3 /\ vs[ch] \notin marked
  BY <1>2, <1>6, <1>7
<1>10. \A x \in 1 .. 3 : x < ch => vs[x] \in marked
  BY <1>2, <1>7, <1>8
<1> QED BY <1>9, <1>10 DEF ch

\* An edge has a vertex that none of the later ones has.
LEMMA HasOwnVertex ==
  ASSUME NEW gr, NEW mm \in Nat, NEW nn \in Nat, Triples(gr, mm, nn), NEW edges, Peels(gr, mm, edges),
         NEW from \in 1 .. Len(edges), NEW marked,
         marked = {v \in 0 .. nn - 1 : \E x \in from + 1 .. Len(edges) : v \in ToSet(gr[edges[x] + 1])}
  PROVE  \E x \in 1 .. 3 : gr[edges[from] + 1][x] \notin marked
<1> DEFINE vs == gr[edges[from] + 1]
<1>1. edges \in Seq(0 .. mm - 1) /\ Len(edges) \in Nat /\ edges[from] \in 0 .. mm - 1
  <2>1. edges \in Seq(0 .. mm - 1)
    BY DEF Peels, Once
  <2> QED BY <2>1, SeqElements, LenProperties
<1>2. PICK v \in ToSet(vs) : \A d \in 0 .. mm - 1 :
        v \in ToSet(gr[d + 1]) => \E y \in 1 .. from : edges[y] = d
  BY DEF Peels
<1>3. v = vs[1] \/ v = vs[2] \/ v = vs[3]
  <2>1. ToSet(vs) = {vs[1], vs[2], vs[3]}
    BY <1>1 DEF Triples, Triple
  <2> QED BY <2>1
<1>4. v \notin marked
  <2>1. SUFFICES ASSUME NEW x \in from + 1 .. Len(edges), v \in ToSet(gr[edges[x] + 1]) PROVE FALSE
    OBVIOUS
  <2>2. x \in 1 .. Len(edges) /\ x > from
    BY <1>1
  <2>3. edges[x] \in 0 .. mm - 1
    BY <1>1, <2>2, SeqElements
  <2>4. PICK y \in 1 .. from : edges[y] = edges[x]
    BY <1>2, <2>1, <2>3
  <2>5. y \in 1 .. Len(edges) /\ y < x
    BY <1>1, <2>2
  <2> QED BY <2>2, <2>4, <2>5 DEF Peels, Once
<1> HIDE DEF vs
<1>5. \E x \in 1 .. 3 : vs[x] \notin marked
  <2>1. 1 \in 1 .. 3 /\ 2 \in 1 .. 3 /\ 3 \in 1 .. 3
    OBVIOUS
  <2> QED BY <1>3, <1>4, <2>1
<1> QED BY <1>5 DEF vs

\* The edge at the place from is dealt with: its first vertex that is free
\* is what its vertices are made to point at.
Deals(gr, nn, edges, from, marked, values, unset) ==
  LET vs == gr[edges[from] + 1]
      ch == Free(vs, marked)
      p == ToPoint(values, vs, ch)
  IN  /\ vs[ch] \in 0 .. nn - 1 /\ values[vs[ch]] = unset /\ p \in 0 .. 2
      /\ Dealt(gr, nn, edges, from - 1, marked \cup {vs[x] : x \in ch .. 3},
               [values EXCEPT ![vs[ch]] = p], unset)

LEMMA DealsEdge ==
  ASSUME NEW gr, NEW mm \in Nat, NEW nn \in Nat, Triples(gr, mm, nn), NEW edges, Peels(gr, mm, edges),
         NEW from \in 1 .. Len(edges), NEW marked, NEW values, NEW unset \in {0, 3},
         Dealt(gr, nn, edges, from, marked, values, unset)
  PROVE  Deals(gr, nn, edges, from, marked, values, unset)
<1> DEFINE vs == gr[edges[from] + 1]
           ch == Free(vs, marked)
           p == ToPoint(values, vs, ch)
           next == [values EXCEPT ![vs[ch]] = p]
           more == marked \cup {vs[x] : x \in ch .. 3}
<1>1. edges \in Seq(0 .. mm - 1) /\ Len(edges) \in Nat /\ edges[from] \in 0 .. mm - 1 /\ from \in Nat
  <2>1. edges \in Seq(0 .. mm - 1)
    BY DEF Peels, Once
  <2>2. Len(edges) \in Nat
    BY <2>1, LenProperties
  <2> QED BY <2>1, <2>2, SeqElements
<1>2. /\ \A x \in 1 .. 3 : vs[x] \in 0 .. nn - 1
      /\ vs[1] # vs[2] /\ vs[1] # vs[3] /\ vs[2] # vs[3] /\ ToSet(vs) = {vs[1], vs[2], vs[3]}
  BY <1>1 DEF Triples, Triple
<1>3. \E x \in 1 .. 3 : vs[x] \notin marked
  <2>1. marked = {v \in 0 .. nn - 1 : \E x \in from + 1 .. Len(edges) : v \in ToSet(gr[edges[x] + 1])}
    BY DEF Dealt
  <2> QED BY <2>1, HasOwnVertex
<1>4. ch \in 1 .. 3 /\ vs[ch] \notin marked /\ \A x \in 1 .. 3 : x < ch => vs[x] \in marked
  BY <1>3, FirstFree
<1>5. vs[ch] \in 0 .. nn - 1 /\ values[vs[ch]] = unset
  BY <1>2, <1>4 DEF Dealt
<1>6. values \in [0 .. nn - 1 -> 0 .. 3]
  BY DEF Dealt
<1>7. /\ values[vs[1]] \in 0 .. 3 /\ values[vs[2]] \in 0 .. 3 /\ values[vs[3]] \in 0 .. 3
      /\ values[vs[ch]] = IF ch = 1 THEN values[vs[1]] ELSE IF ch = 2 THEN values[vs[2]] ELSE values[vs[3]]
  <2>1. 1 \in 1 .. 3 /\ 2 \in 1 .. 3 /\ 3 \in 1 .. 3 /\ (ch = 1 \/ ch = 2 \/ ch = 3)
    BY <1>4
  <2> QED BY <1>2, <1>6, <2>1
<1>8. /\ p \in 0 .. 2
      /\ ((values[vs[1]] + values[vs[2]] + values[vs[3]] - values[vs[ch]] + p) % 3) + 1 = ch
  <2> DEFINE a1 == values[vs[1]]
             a2 == values[vs[2]]
             a3 == values[vs[3]]
             a == values[vs[ch]]
  <2>1. p = (5 + ch - (a1 + a2 + a3 - a)) % 3
    BY DEF ToPoint
  <2>2. a1 \in 0 .. 3 /\ a2 \in 0 .. 3 /\ a3 \in 0 .. 3
        /\ a = IF ch = 1 THEN a1 ELSE IF ch = 2 THEN a2 ELSE a3
    BY <1>7
  <2> HIDE DEF a1, a2, a3, a
  <2>3. ch = 1 \/ ch = 2 \/ ch = 3
    BY <1>4
  <2>4. ch = 1 => p \in 0 .. 2 /\ ((a1 + a2 + a3 - a + p) % 3) + 1 = ch
    BY <2>1, <2>2
  <2>5. ch = 2 => p \in 0 .. 2 /\ ((a1 + a2 + a3 - a + p) % 3) + 1 = ch
    BY <2>1, <2>2
  <2>6. ch = 3 => p \in 0 .. 2 /\ ((a1 + a2 + a3 - a + p) % 3) + 1 = ch
    BY <2>1, <2>2
  <2> QED BY <2>3, <2>4, <2>5, <2>6 DEF a1, a2, a3, a
<1>9. next \in [0 .. nn - 1 -> 0 .. 3] /\ next[vs[ch]] = p
      /\ \A v \in 0 .. nn - 1 : v # vs[ch] => next[v] = values[v]
  <2>1. p \in 0 .. 3
    BY <1>8
  <2> QED BY <1>5, <1>6, <2>1
\* The edge points at its vertex.
<1>10. Pointed(next, vs) = vs[ch]
  <2>1. next[vs[1]] + next[vs[2]] + next[vs[3]]
          = values[vs[1]] + values[vs[2]] + values[vs[3]] - values[vs[ch]] + p
    <3>1. 1 \in 1 .. 3 /\ 2 \in 1 .. 3 /\ 3 \in 1 .. 3 /\ (ch = 1 \/ ch = 2 \/ ch = 3)
      BY <1>4
    <3> DEFINE a1 == values[vs[1]]
               a2 == values[vs[2]]
               a3 == values[vs[3]]
    <3>2. p \in Int /\ a1 \in Int /\ a2 \in Int /\ a3 \in Int
      BY <1>7, <1>8
    <3>3. CASE ch = 1
      <4>1. next[vs[1]] = p /\ next[vs[2]] = a2 /\ next[vs[3]] = a3 /\ values[vs[ch]] = a1
        BY <1>2, <1>9, <3>1, <3>3
      <4> HIDE DEF a1, a2, a3
      <4>2. p + a2 + a3 = a1 + a2 + a3 - a1 + p
        BY <3>2
      <4> QED BY <4>1, <4>2 DEF a1, a2, a3
    <3>4. CASE ch = 2
      <4>1. next[vs[2]] = p /\ next[vs[1]] = a1 /\ next[vs[3]] = a3 /\ values[vs[ch]] = a2
        BY <1>2, <1>9, <3>1, <3>4
      <4> HIDE DEF a1, a2, a3
      <4>2. a1 + p + a3 = a1 + a2 + a3 - a2 + p
        BY <3>2
      <4> QED BY <4>1, <4>2 DEF a1, a2, a3
    <3>5. CASE ch = 3
      <4>1. next[vs[3]] = p /\ next[vs[1]] = a1 /\ next[vs[2]] = a2 /\ values[vs[ch]] = a3
        BY <1>2, <1>9, <3>1, <3>5
      <4> HIDE DEF a1, a2, a3
      <4>2. a1 + a2 + p = a1 + a2 + a3 - a3 + p
        BY <3>2
      <4> QED BY <4>1, <4>2 DEF a1, a2, a3
    <3> QED BY <3>1, <3>3, <3>4, <3>5
  <2> QED BY <1>8, <2>1 DEF Pointed
\* The edges that were dealt with keep theirs.
<1>11. ASSUME NEW x \in from + 1 .. Len(edges)
       PROVE  /\ Pointed(next, gr[edges[x] + 1]) = Pointed(values, gr[edges[x] + 1])
              /\ Pointed(values, gr[edges[x] + 1]) \in 0 .. nn - 1
              /\ Pointed(values, gr[edges[x] + 1]) # vs[ch]
  <2> DEFINE us == gr[edges[x] + 1]
  <2>1. x \in 1 .. Len(edges) /\ edges[x] \in 0 .. mm - 1
    <3>1. x \in 1 .. Len(edges)
      BY <1>1
    <3> QED BY <1>1, <3>1, SeqElements
  <2>2. /\ \A y \in 1 .. 3 : us[y] \in 0 .. nn - 1
        /\ ToSet(us) = {us[1], us[2], us[3]}
    BY <2>1 DEF Triples, Triple
  <2> HIDE DEF us
  <2>3. us[1] \in 0 .. nn - 1 /\ us[2] \in 0 .. nn - 1 /\ us[3] \in 0 .. nn - 1
    <3>1. 1 \in 1 .. 3 /\ 2 \in 1 .. 3 /\ 3 \in 1 .. 3
      OBVIOUS
    <3> QED BY <2>2, <3>1
  <2>4. us[1] \in marked /\ us[2] \in marked /\ us[3] \in marked
    <3>1. \A v \in 0 .. nn - 1 : v \in ToSet(us) => v \in marked
      BY DEF Dealt, us
    <3> QED BY <2>2, <2>3, <3>1
  <2>5. /\ us[1] # vs[ch] /\ us[2] # vs[ch] /\ us[3] # vs[ch]
        /\ next[us[1]] = values[us[1]] /\ next[us[2]] = values[us[2]] /\ next[us[3]] = values[us[3]]
    BY <1>4, <1>9, <2>3, <2>4
  <2>6. Pointed(next, us) = Pointed(values, us)
    BY <2>5 DEF Pointed
  <2>7. Pointed(values, us) \in {us[1], us[2], us[3]}
    <3>1. values[us[1]] \in Int /\ values[us[2]] \in Int /\ values[us[3]] \in Int
      BY <1>6, <2>3
    <3>2. \A a \in Int : (a % 3) + 1 = 1 \/ (a % 3) + 1 = 2 \/ (a % 3) + 1 = 3
      OBVIOUS
    <3> DEFINE sum == values[us[1]] + values[us[2]] + values[us[3]]
    <3>3. sum \in Int
      BY <3>1
    <3>4. Pointed(values, us) = us[(sum % 3) + 1]
      BY DEF Pointed
    <3> HIDE DEF sum
    <3> QED BY <3>2, <3>3, <3>4
  <2> QED BY <2>3, <2>5, <2>6, <2>7 DEF us
<1>12. \A x : x \in from .. Len(edges) <=> x = from \/ x \in from + 1 .. Len(edges)
  BY <1>1
<1>13. ASSUME NEW x \in from .. Len(edges) PROVE next[Pointed(next, gr[edges[x] + 1])] # 3
  <2>1. CASE x = from
    <3>1. gr[edges[x] + 1] = vs
      BY <2>1
    <3>2. next[vs[ch]] # 3
      <4>1. p \in 0 .. 2 /\ next[vs[ch]] = p
        BY <1>8, <1>9
      <4> HIDE DEF vs, next, p
      <4> QED BY <4>1
    <3> HIDE DEF vs, next, p
    <3> QED BY <1>10, <3>1, <3>2
  <2>2. CASE x \in from + 1 .. Len(edges)
    <3>1. values[Pointed(values, gr[edges[x] + 1])] # 3
      BY <2>2 DEF Dealt
    <3> QED BY <1>9, <1>11, <2>2, <3>1
  <2> QED BY <1>12, <2>1, <2>2
<1>14. ASSUME NEW x \in from .. Len(edges), NEW y \in from .. Len(edges),
              Pointed(next, gr[edges[x] + 1]) = Pointed(next, gr[edges[y] + 1])
       PROVE  x = y
  <2>1. CASE x \in from + 1 .. Len(edges) /\ y \in from + 1 .. Len(edges)
    BY <1>11, <1>14, <2>1 DEF Dealt
  <2>2. CASE x = from /\ y \in from + 1 .. Len(edges)
    BY <1>10, <1>11, <1>14, <2>2
  <2>3. CASE x \in from + 1 .. Len(edges) /\ y = from
    BY <1>10, <1>11, <1>14, <2>3
  <2> QED BY <1>12, <2>1, <2>2, <2>3
<1>15. more = {v \in 0 .. nn - 1 : \E x \in from .. Len(edges) : v \in ToSet(gr[edges[x] + 1])}
  <2>1. ASSUME NEW v \in more
        PROVE  v \in 0 .. nn - 1 /\ \E x \in from .. Len(edges) : v \in ToSet(gr[edges[x] + 1])
    <3>1. CASE v \in marked
      BY <1>12, <3>1 DEF Dealt
    <3>2. CASE v \notin marked
      <4>1. PICK x \in ch .. 3 : v = vs[x]
        BY <3>2
      <4>2. x \in 1 .. 3 /\ (x = 1 \/ x = 2 \/ x = 3)
        BY <1>4, <4>1
      <4>3. from \in from .. Len(edges)
        BY <1>1
      <4> QED BY <1>2, <4>1, <4>2, <4>3
    <3> QED BY <3>1, <3>2
  <2>2. ASSUME NEW v \in 0 .. nn - 1, NEW x \in from .. Len(edges), v \in ToSet(gr[edges[x] + 1])
        PROVE  v \in more
    <3>1. CASE x \in from + 1 .. Len(edges)
      BY <2>2, <3>1 DEF Dealt
    <3>2. CASE x = from
      <4>1. v \in {vs[1], vs[2], vs[3]}
        BY <1>2, <2>2, <3>2
      <4>2. PICK y \in 1 .. 3 : v = vs[y]
        <5>1. 1 \in 1 .. 3 /\ 2 \in 1 .. 3 /\ 3 \in 1 .. 3
          OBVIOUS
        <5> QED BY <4>1, <5>1
      <4>3. y < ch \/ y \in ch .. 3
        BY <1>4
      <4> QED BY <1>4, <4>2, <4>3
    <3> QED BY <1>12, <3>1, <3>2
  <2> QED BY <2>1, <2>2
<1>16. ASSUME NEW v \in 0 .. nn - 1, v \notin more PROVE next[v] = unset
  <2>1. v \notin marked /\ v # vs[ch]
    <3>1. ch \in ch .. 3
      BY <1>4
    <3> QED BY <1>16, <3>1
  <2> QED BY <1>9, <2>1 DEF Dealt
<1>17. from - 1 + 1 = from
  BY <1>1
<1>18. Dealt(gr, nn, edges, from - 1, more, next, unset)
  BY <1>9, <1>13, <1>14, <1>15, <1>16, <1>17 DEF Dealt
<1> QED BY <1>5, <1>8, <1>18 DEF Deals

\* What was dealt with points at marked vertices.
LEMMA PointsAtMarked ==
  ASSUME NEW gr, NEW mm \in Nat, NEW nn \in Nat, Triples(gr, mm, nn), NEW edges, Peels(gr, mm, edges),
         NEW from \in 0 .. Len(edges), NEW marked, NEW values, NEW unset,
         Dealt(gr, nn, edges, from, marked, values, unset)
  PROVE  LET dealt == {edges[x] : x \in from + 1 .. Len(edges)}
         IN  /\ \A o \in dealt : /\ Pointed(values, gr[o + 1]) \in marked
                                 /\ values[Pointed(values, gr[o + 1])] # 3
             /\ \A d, o \in dealt : Pointed(values, gr[d + 1]) = Pointed(values, gr[o + 1]) => d = o
<1>1. edges \in Seq(0 .. mm - 1) /\ Len(edges) \in Nat
  <2>1. edges \in Seq(0 .. mm - 1)
    BY DEF Peels, Once
  <2> QED BY <2>1, LenProperties
<1>2. ASSUME NEW x \in from + 1 .. Len(edges) PROVE Pointed(values, gr[edges[x] + 1]) \in marked
  <2> DEFINE us == gr[edges[x] + 1]
  <2>1. edges[x] \in 0 .. mm - 1
    <3>1. x \in 1 .. Len(edges)
      BY <1>1
    <3> QED BY <1>1, <3>1, SeqElements
  <2>2. Triple(us, nn)
    BY <2>1 DEF Triples
  <2>3. us[1] \in 0 .. nn - 1 /\ us[2] \in 0 .. nn - 1 /\ us[3] \in 0 .. nn - 1
    <3>1. 1 \in 1 .. 3 /\ 2 \in 1 .. 3 /\ 3 \in 1 .. 3
      OBVIOUS
    <3> QED BY <2>2, <3>1 DEF Triple
  <2>4. \A v \in 0 .. nn - 1 : v \in ToSet(us) => v \in marked
    BY DEF Dealt
  <2>5. values \in [0 .. nn - 1 -> 0 .. 3] /\ ToSet(us) = {us[1], us[2], us[3]}
    BY <2>2 DEF Dealt, Triple
  <2> HIDE DEF us
  <2>6. Pointed(values, us) \in {us[1], us[2], us[3]}
    <3>1. values[us[1]] \in Int /\ values[us[2]] \in Int /\ values[us[3]] \in Int
      BY <2>3, <2>5
    <3>2. \A a \in Int : (a % 3) + 1 = 1 \/ (a % 3) + 1 = 2 \/ (a % 3) + 1 = 3
      OBVIOUS
    <3> DEFINE sum == values[us[1]] + values[us[2]] + values[us[3]]
    <3>3. sum \in Int
      BY <3>1
    <3>4. Pointed(values, us) = us[(sum % 3) + 1]
      BY DEF Pointed
    <3> HIDE DEF sum
    <3> QED BY <3>2, <3>3, <3>4
  <2> QED BY <2>3, <2>4, <2>5, <2>6 DEF us
<1>3. \A x \in from + 1 .. Len(edges) : values[Pointed(values, gr[edges[x] + 1])] # 3
  BY DEF Dealt
<1>4. \A x, y \in from + 1 .. Len(edges) :
        Pointed(values, gr[edges[x] + 1]) = Pointed(values, gr[edges[y] + 1]) => x = y
  BY DEF Dealt
<1> QED BY <1>2, <1>3, <1>4
---------------------------------------------------------------------------
(* Two tables that are the inverse of each other.                          *)

Inverses(rt, mt, mm) ==
  /\ rt \in [0 .. mm - 1 -> 0 .. mm - 1] /\ mt \in [0 .. mm - 1 -> 0 .. mm - 1]
  /\ \A v \in 0 .. mm - 1 : rt[mt[v]] = v /\ mt[rt[v]] = v

\* A permutation and what is found by looking for its values.
LEMMA InverseOf ==
  ASSUME NEW mm \in Nat, NEW rt \in [0 .. mm - 1 -> 0 .. mm - 1], IsInjective(rt), NEW mt,
         mt = [v \in 0 .. mm - 1 |-> CHOOSE x \in 0 .. mm - 1 : rt[x] = v]
  PROVE  Inverses(rt, mt, mm)
<1> DEFINE V == 0 .. mm - 1
<1>1. IsFiniteSet(V)
  <2>1. 0 \in Int /\ mm - 1 \in Int
    OBVIOUS
  <2> QED BY <2>1, FS_Interval
<1> HIDE DEF V
<1>2. rt \in [V -> V] /\ mt = [v \in V |-> CHOOSE x \in V : rt[x] = v]
  BY DEF V
<1>3. rt \in Injection(V, V)
  BY <1>2 DEF Injection, IsInjective
<1>4. rt \in Surjection(V, V)
  BY <1>1, <1>3, FS_Injection
<1>5. \A v \in V : \E x \in V : rt[x] = v
  BY <1>4 DEF Surjection
<1>6. ASSUME NEW v \in V PROVE mt[v] \in V /\ rt[mt[v]] = v
  <2>1. mt[v] = CHOOSE x \in V : rt[x] = v
    BY <1>2
  <2>2. \E x \in V : rt[x] = v
    BY <1>5
  <2> QED BY <2>1, <2>2
<1>7. \A x \in V : \A y \in V : rt[x] = rt[y] => x = y
  BY <1>3 DEF Injection, IsInjective
<1>8. \A x \in V : rt[x] \in V /\ mt[rt[x]] \in V
  BY <1>2, <1>6
<1>9. \A x \in V : mt[rt[x]] = x
  BY <1>6, <1>7, <1>8
<1>10. mt \in [V -> V]
  BY <1>2, <1>6
<1> QED BY <1>2, <1>6, <1>9, <1>10 DEF Inverses, V

\* A value is changed with the one at the place at.
SwappedTo(rt, mt, v, at) == [rt EXCEPT ![mt[v]] = rt[at], ![at] = v]
SwappedFrom(rt, mt, v, at) == [mt EXCEPT ![rt[at]] = mt[v], ![v] = at]
SwappedAt(rt, mt, v, at, mm) ==
  /\ Inverses(SwappedTo(rt, mt, v, at), SwappedFrom(rt, mt, v, at), mm)
  /\ SwappedTo(rt, mt, v, at)[at] = v
  /\ \A x \in 0 .. at - 1 : SwappedTo(rt, mt, v, at)[x] = rt[x]

LEMMA SwapsInverses ==
  ASSUME NEW mm \in Nat, NEW rt, NEW mt, Inverses(rt, mt, mm), NEW v \in 0 .. mm - 1,
         NEW at \in 0 .. mm - 1, mt[v] >= at
  PROVE  SwappedAt(rt, mt, v, at, mm)
<1> DEFINE V == 0 .. mm - 1
           p == mt[v]
           w == rt[at]
           rt2 == [rt EXCEPT ![p] = w, ![at] = v]
           mt2 == [mt EXCEPT ![w] = p, ![v] = at]
<1>1. /\ rt \in [V -> V] /\ mt \in [V -> V] /\ \A y \in V : rt[mt[y]] = y /\ mt[rt[y]] = y
      /\ v \in V /\ at \in V /\ p >= at
  BY DEF Inverses
<1>2. rt2 = SwappedTo(rt, mt, v, at) /\ mt2 = SwappedFrom(rt, mt, v, at)
  BY DEF SwappedTo, SwappedFrom
<1>3. \A x \in 0 .. at - 1 : x \in V /\ x # p /\ x # at
  <2>1. p \in Int /\ p >= at
    BY <1>1
  <2> HIDE DEF p
  <2> QED BY <2>1
<1> HIDE DEF V
<1>4. p \in V /\ w \in V /\ rt[p] = v /\ mt[w] = at
  BY <1>1
<1> HIDE DEF p, w
<1>5. rt2 \in [V -> V] /\ mt2 \in [V -> V]
  BY <1>1, <1>4
<1>6. /\ rt2[at] = v /\ (p # at => rt2[p] = w)
      /\ \A y \in V : y # p /\ y # at => rt2[y] = rt[y]
  BY <1>1, <1>4
<1>7. /\ mt2[v] = at /\ (w # v => mt2[w] = p)
      /\ \A y \in V : y # v /\ y # w => mt2[y] = mt[y]
  BY <1>1, <1>4
<1>8. p = at <=> w = v
  BY <1>1, <1>4 DEF w, p
<1>9. ASSUME NEW y \in V PROVE rt2[mt2[y]] = y
  <2>1. CASE y = v
    BY <1>6, <1>7, <2>1
  <2>2. CASE y # v /\ y = w
    BY <1>6, <1>7, <1>8, <2>2
  <2>3. CASE y # v /\ y # w
    <3>1. mt2[y] = mt[y] /\ mt[y] \in V /\ rt[mt[y]] = y
      BY <1>1, <1>7, <2>3
    <3>2. mt[y] # p /\ mt[y] # at
      BY <1>4, <2>3, <3>1 DEF w
    <3> QED BY <1>6, <3>1, <3>2
  <2> QED BY <2>1, <2>2, <2>3
<1>10. ASSUME NEW y \in V PROVE mt2[rt2[y]] = y
  <2>1. CASE y = at
    BY <1>6, <1>7, <2>1
  <2>2. CASE y # at /\ y = p
    BY <1>6, <1>7, <1>8, <2>2
  <2>3. CASE y # at /\ y # p
    <3>1. rt2[y] = rt[y] /\ rt[y] \in V /\ mt[rt[y]] = y
      BY <1>1, <1>6, <2>3
    <3>2. rt[y] # v /\ rt[y] # w
      BY <1>4, <2>3, <3>1 DEF p
    <3> QED BY <1>7, <3>1, <3>2
  <2> QED BY <2>1, <2>2, <2>3
<1>11. \A x \in 0 .. at - 1 : rt2[x] = rt[x]
  BY <1>3, <1>6 DEF p
<1>12. Inverses(rt2, mt2, mm)
  BY <1>5, <1>9, <1>10 DEF Inverses, V
<1> QED BY <1>2, <1>6, <1>11, <1>12 DEF SwappedAt
---------------------------------------------------------------------------
(* The keys 1 .. mm are in buckets, of which each has a place in an order. *)

\* The order has every bucket below nb once; the bucket of the key y is
\* where[y]; the keys of the first upto buckets.
Orders(order, nb) ==
  /\ order \in Seq(0 .. nb - 1) /\ Len(order) = nb
  /\ \A x, y \in 1 .. nb : order[x] = order[y] => x = y
KeysOf(where, mm, x) == {y \in 1 .. mm : where[y] = x}
KeysBefore(where, mm, order, upto) == {y \in 1 .. mm : \E x \in 1 .. upto : where[y] = order[x]}

LEMMA BucketMore ==
  ASSUME NEW mm \in Nat, NEW nb \in Nat, NEW order, Orders(order, nb), NEW where, NEW upto \in 0 .. nb - 1
  PROVE  /\ Cardinality(KeysBefore(where, mm, order, upto)) \in Nat
         /\ Cardinality(KeysOf(where, mm, order[upto + 1])) \in Nat
         /\ Cardinality(KeysBefore(where, mm, order, upto + 1))
              = Cardinality(KeysBefore(where, mm, order, upto))
                + Cardinality(KeysOf(where, mm, order[upto + 1]))
         /\ Cardinality(KeysBefore(where, mm, order, upto))
              + Cardinality(KeysOf(where, mm, order[upto + 1])) <= mm
<1> DEFINE A == KeysBefore(where, mm, order, upto)
           B == KeysOf(where, mm, order[upto + 1])
           C == KeysBefore(where, mm, order, upto + 1)
<1>1. IsFiniteSet(1 .. mm) /\ Cardinality(1 .. mm) = mm
  <2>1. 1 \in Int /\ mm \in Int
    OBVIOUS
  <2> QED BY <2>1, FS_Interval
<1>2. A \in SUBSET (1 .. mm) /\ B \in SUBSET (1 .. mm) /\ C \in SUBSET (1 .. mm)
  BY DEF KeysBefore, KeysOf
<1>3. A \cap B = {}
  <2>1. SUFFICES ASSUME NEW x \in 1 .. upto, order[x] = order[upto + 1] PROVE FALSE
    BY DEF KeysBefore, KeysOf
  <2>2. x \in 1 .. nb /\ upto + 1 \in 1 .. nb /\ x # upto + 1
    OBVIOUS
  <2> QED BY <2>1, <2>2 DEF Orders
<1>4. A \cup B = C
  <2>1. \A x : x \in 1 .. upto + 1 <=> x \in 1 .. upto \/ x = upto + 1
    OBVIOUS
  <2> QED BY <2>1 DEF KeysBefore, KeysOf
<1> HIDE DEF A, B, C
<1>5. IsFiniteSet(A) /\ IsFiniteSet(B) /\ Cardinality(A) \in Nat /\ Cardinality(B) \in Nat
  BY <1>1, <1>2, FS_Subset, FS_CardinalityType
<1>6. Cardinality(C) = Cardinality(A) + Cardinality(B) - Cardinality(A \cap B)
  BY <1>4, <1>5, FS_Union
<1>7. Cardinality(A \cap B) = 0
  BY <1>3, FS_EmptySet
<1>8. Cardinality(C) <= mm
  BY <1>1, <1>2, FS_Subset
<1>9. Cardinality(C) = Cardinality(A) + Cardinality(B)
  BY <1>5, <1>6, <1>7
<1> QED BY <1>5, <1>8, <1>9 DEF A, B, C

\* The buckets hold keys of S, which hv hashes.
Buckets(mm, nb, S, where, bs, order, hv) ==
  /\ mm \in Nat /\ nb \in Nat /\ Orders(order, nb) /\ hv \in [S -> Nat]
  /\ \A x \in 0 .. nb - 1 : bs[x] \in Seq(S) /\ Len(bs[x]) = Cardinality(KeysOf(where, mm, x))

\* The value of the key y of a sequence under a displacement, those of all
\* its keys, and those of the first upto buckets.
ValueOf(mm, hv, ks, y, disp) == (hv[ks[y]] + disp) % mm
ValuesOf(mm, hv, ks, disp) == {ValueOf(mm, hv, ks, y, disp) : y \in 1 .. Len(ks)}
ValuesBefore(mm, hv, bs, order, gg, upto) ==
  UNION {ValuesOf(mm, hv, bs[order[x]], gg[order[x]]) : x \in 1 .. upto}

\* The first ii buckets are placed, and jj keys of the next one: these are
\* the last of the filled values in use.
Placed(mm, nb, where, bs, order, hv, rt, mt, gg, filled, ii, zz, jj) ==
  /\ Inverses(rt, mt, mm) /\ gg \in [0 .. nb - 1 -> Int]
  /\ ii \in 0 .. nb /\ zz \in Nat /\ jj \in Nat /\ filled \in jj .. mm
  /\ filled - jj = Cardinality(KeysBefore(where, mm, order, ii))
  /\ jj # 0 => ii < nb /\ jj < Len(bs[order[ii + 1]])
  /\ jj = 0 /\ ii < nb /\ Len(bs[order[ii + 1]]) > 0 => filled + zz < mm
  /\ {rt[x] : x \in 0 .. filled - jj - 1} = ValuesBefore(mm, hv, bs, order, gg, ii)
  /\ \A x \in 1 .. jj : rt[filled - jj + x - 1]
                          = ValueOf(mm, hv, bs[order[ii + 1]], x, gg[order[ii + 1]])

\* The displacement that is tried, and the value of the next key.
Tried(mm, hv, bs, order, rt, gg, filled, ii, zz, jj) ==
  IF jj = 0 THEN (mm + rt[filled + zz] - hv[bs[order[ii + 1]][1]]) % mm ELSE gg[order[ii + 1]]
TriedAt(mm, hv, bs, order, rt, gg, filled, ii, zz, jj) ==
  ValueOf(mm, hv, bs[order[ii + 1]], jj + 1, Tried(mm, hv, bs, order, rt, gg, filled, ii, zz, jj))

LEMMA TriedTyped ==
  ASSUME NEW mm, NEW nb, NEW S, NEW where, NEW bs, NEW order, NEW hv,
         Buckets(mm, nb, S, where, bs, order, hv),
         NEW rt, NEW mt, NEW gg, NEW filled, NEW ii, NEW zz, NEW jj,
         Placed(mm, nb, where, bs, order, hv, rt, mt, gg, filled, ii, zz, jj),
         ii < nb, Len(bs[order[ii + 1]]) > 0
  PROVE  /\ order[ii + 1] \in 0 .. nb - 1 /\ bs[order[ii + 1]] \in Seq(S)
         /\ Tried(mm, hv, bs, order, rt, gg, filled, ii, zz, jj) \in Int
         /\ TriedAt(mm, hv, bs, order, rt, gg, filled, ii, zz, jj) \in 0 .. mm - 1
<1> DEFINE bucket == order[ii + 1]
           ks == bs[bucket]
           disp == Tried(mm, hv, bs, order, rt, gg, filled, ii, zz, jj)
<1>1. /\ mm \in Nat /\ nb \in Nat /\ ii \in 0 .. nb /\ zz \in Nat /\ jj \in Nat /\ filled \in jj .. mm
      /\ (jj # 0 => jj < Len(ks)) /\ (jj = 0 => filled + zz < mm)
      /\ rt \in [0 .. mm - 1 -> 0 .. mm - 1] /\ gg \in [0 .. nb - 1 -> Int] /\ hv \in [S -> Nat]
      /\ order \in Seq(0 .. nb - 1) /\ Len(order) = nb
  BY DEF Buckets, Placed, Orders, Inverses
<1>2. bucket \in 0 .. nb - 1
  <2>1. ii + 1 \in 1 .. Len(order)
    BY <1>1
  <2> QED BY <1>1, <2>1, SeqElements
<1>3. ks \in Seq(S)
  BY <1>2 DEF Buckets
<1>4. Len(ks) \in Nat /\ Len(ks) > 0
  BY <1>3, LenProperties
<1> HIDE DEF ks
<1>5. /\ 1 \in 1 .. Len(ks) /\ jj + 1 \in 1 .. Len(ks) /\ mm > 0
  BY <1>1, <1>4
<1>6. hv[ks[1]] \in Nat /\ hv[ks[jj + 1]] \in Nat
  <2>1. ks[1] \in S /\ ks[jj + 1] \in S
    BY <1>3, <1>5, SeqElements
  <2> QED BY <1>1, <2>1
<1>7. \A a \in Int : a % mm \in 0 .. mm - 1
  <2>1. mm \in Nat \ {0}
    BY <1>1, <1>5
  <2> QED BY <2>1
<1>8. disp \in Int
  <2>1. CASE jj = 0
    <3>1. filled + zz \in 0 .. mm - 1
      BY <1>1, <2>1
    <3>2. rt[filled + zz] \in Int
      BY <1>1, <3>1
    <3>3. mm + rt[filled + zz] - hv[ks[1]] \in Int
      <4>1. \A a, a1, a2 \in Int : a + a1 - a2 \in Int
        OBVIOUS
      <4>2. mm \in Int /\ hv[ks[1]] \in Int
        BY <1>1, <1>6
      <4> QED BY <3>2, <4>1, <4>2
    <3>4. disp = (mm + rt[filled + zz] - hv[ks[1]]) % mm
      BY <2>1 DEF Tried, ks
    <3> QED BY <1>7, <3>3, <3>4
  <2>2. CASE jj # 0
    BY <1>1, <1>2, <2>2 DEF Tried
  <2> QED BY <2>1, <2>2
<1>9. TriedAt(mm, hv, bs, order, rt, gg, filled, ii, zz, jj) = (hv[ks[jj + 1]] + disp) % mm
  BY DEF TriedAt, ValueOf, ks
<1> HIDE DEF disp
<1>10. hv[ks[jj + 1]] + disp \in Int
  BY <1>6, <1>8
<1> QED BY <1>2, <1>3, <1>7, <1>8, <1>9, <1>10 DEF disp, ks

\* The values of the buckets before do not depend on the displacement of this one.
With(gg, order, ii, disp) == [gg EXCEPT ![order[ii + 1]] = disp]
Kept(nb, mm, hv, bs, order, gg, ii, disp) ==
  /\ With(gg, order, ii, disp) \in [0 .. nb - 1 -> Int]
  /\ With(gg, order, ii, disp)[order[ii + 1]] = disp
  /\ ValuesBefore(mm, hv, bs, order, With(gg, order, ii, disp), ii)
       = ValuesBefore(mm, hv, bs, order, gg, ii)

LEMMA BeforeKept ==
  ASSUME NEW nb \in Nat, NEW order, Orders(order, nb), NEW ii \in 0 .. nb - 1,
         NEW gg \in [0 .. nb - 1 -> Int], NEW disp \in Int, NEW mm, NEW hv, NEW bs
  PROVE  Kept(nb, mm, hv, bs, order, gg, ii, disp)
<1> DEFINE gg2 == With(gg, order, ii, disp)
<1>1. order[ii + 1] \in 0 .. nb - 1 /\ \A x \in 1 .. ii : order[x] \in 0 .. nb - 1 /\ order[x] # order[ii + 1]
  <2>1. order \in Seq(0 .. nb - 1) /\ Len(order) = nb
    BY DEF Orders
  <2>2. ii + 1 \in 1 .. nb /\ \A x \in 1 .. ii : x \in 1 .. nb /\ x # ii + 1
    OBVIOUS
  <2>3. \A x \in 1 .. nb : order[x] \in 0 .. nb - 1
    BY <2>1, SeqElements
  <2> QED BY <2>2, <2>3 DEF Orders
<1>2. gg2 \in [0 .. nb - 1 -> Int] /\ gg2[order[ii + 1]] = disp
  BY <1>1 DEF With
<1>3. \A x \in 1 .. ii : gg2[order[x]] = gg[order[x]]
  BY <1>1 DEF With
<1> HIDE DEF gg2
<1>4. ValuesBefore(mm, hv, bs, order, gg2, ii) = ValuesBefore(mm, hv, bs, order, gg, ii)
  BY <1>3 DEF ValuesBefore
<1> QED BY <1>2, <1>4 DEF gg2, Kept

\* The next key is placed, the last of its bucket or not.
PlacedNext(mm, nb, where, bs, order, hv, rt, mt, gg, filled, ii, zz, jj) ==
  LET v == TriedAt(mm, hv, bs, order, rt, gg, filled, ii, zz, jj)
      to == SwappedTo(rt, mt, v, filled)
      back == SwappedFrom(rt, mt, v, filled)
      values == With(gg, order, ii, Tried(mm, hv, bs, order, rt, gg, filled, ii, zz, jj))
  IN  IF jj + 1 = Len(bs[order[ii + 1]])
        THEN Placed(mm, nb, where, bs, order, hv, to, back, values, filled + 1, ii + 1, 0, 0)
        ELSE Placed(mm, nb, where, bs, order, hv, to, back, values, filled + 1, ii, zz, jj + 1)

LEMMA KeyIsPlaced ==
  ASSUME NEW mm, NEW nb, NEW S, NEW where, NEW bs, NEW order, NEW hv,
         Buckets(mm, nb, S, where, bs, order, hv),
         NEW rt, NEW mt, NEW gg, NEW filled, NEW ii, NEW zz, NEW jj,
         Placed(mm, nb, where, bs, order, hv, rt, mt, gg, filled, ii, zz, jj),
         ii < nb, Len(bs[order[ii + 1]]) > 0,
         mt[TriedAt(mm, hv, bs, order, rt, gg, filled, ii, zz, jj)] >= filled
  PROVE  PlacedNext(mm, nb, where, bs, order, hv, rt, mt, gg, filled, ii, zz, jj)
<1> DEFINE bucket == order[ii + 1]
           ks == bs[bucket]
           disp == Tried(mm, hv, bs, order, rt, gg, filled, ii, zz, jj)
           v == TriedAt(mm, hv, bs, order, rt, gg, filled, ii, zz, jj)
           rt2 == SwappedTo(rt, mt, v, filled)
           mt2 == SwappedFrom(rt, mt, v, filled)
           gg2 == With(gg, order, ii, disp)
           base == filled - jj
<1>1. /\ mm \in Nat /\ nb \in Nat /\ ii \in 0 .. nb - 1 /\ zz \in Nat /\ jj \in Nat /\ filled \in jj .. mm
      /\ (jj # 0 => jj < Len(ks)) /\ Len(ks) > 0 /\ Orders(order, nb)
      /\ gg \in [0 .. nb - 1 -> Int] /\ Inverses(rt, mt, mm)
      /\ base = Cardinality(KeysBefore(where, mm, order, ii))
      /\ {rt[x] : x \in 0 .. base - 1} = ValuesBefore(mm, hv, bs, order, gg, ii)
      /\ \A x \in 1 .. jj : rt[base + x - 1] = ValueOf(mm, hv, ks, x, gg[bucket])
  BY DEF Buckets, Placed
<1>2. bucket \in 0 .. nb - 1 /\ ks \in Seq(S) /\ disp \in Int /\ v \in 0 .. mm - 1
  BY TriedTyped
<1>3. Len(ks) = Cardinality(KeysOf(where, mm, bucket)) /\ Len(ks) \in Nat
  BY <1>2, LenProperties DEF Buckets
<1>4. filled \in 0 .. mm - 1 /\ base \in Nat /\ filled = base + jj
  <2>1. mt[v] \in 0 .. mm - 1 /\ mt[v] >= filled
    BY <1>1, <1>2 DEF Inverses
  <2>2. \A x \in 0 .. mm - 1 : x >= filled => filled \in 0 .. mm - 1 /\ filled - jj \in Nat
                                               /\ filled = filled - jj + jj
    <3>1. mm \in Nat /\ jj \in Nat /\ filled \in jj .. mm
      BY <1>1
    <3> QED BY <3>1
  <2> HIDE DEF v
  <2> QED BY <2>1, <2>2
<1>5. Inverses(rt2, mt2, mm) /\ rt2[filled] = v /\ \A x \in 0 .. filled - 1 : rt2[x] = rt[x]
  <2>1. mt[v] >= filled
    OBVIOUS
  <2>2. SwappedAt(rt, mt, v, filled, mm)
    <3> HIDE DEF v, base, ks, bucket, disp
    <3> QED BY <1>1, <1>2, <1>4, <2>1, SwapsInverses
  <2> QED BY <2>2 DEF SwappedAt
<1>6. rt2[filled] = v /\ \A x \in 0 .. filled - 1 : rt2[x] = rt[x]
  BY <1>5
<1>7. /\ gg2 \in [0 .. nb - 1 -> Int] /\ gg2[bucket] = disp
      /\ ValuesBefore(mm, hv, bs, order, gg2, ii) = ValuesBefore(mm, hv, bs, order, gg, ii)
  <2>1. Kept(nb, mm, hv, bs, order, gg, ii, disp)
    <3> HIDE DEF disp, bucket, ks, base
    <3> QED BY <1>1, <1>2, BeforeKept
  <2> QED BY <2>1 DEF Kept
<1>8. v = ValueOf(mm, hv, ks, jj + 1, disp)
  BY DEF TriedAt
<1>9. jj # 0 => disp = gg[bucket]
  BY DEF Tried
<1>10. PlacedNext(mm, nb, where, bs, order, hv, rt, mt, gg, filled, ii, zz, jj) <=>
         IF jj + 1 = Len(ks)
           THEN Placed(mm, nb, where, bs, order, hv, rt2, mt2, gg2, filled + 1, ii + 1, 0, 0)
           ELSE Placed(mm, nb, where, bs, order, hv, rt2, mt2, gg2, filled + 1, ii, zz, jj + 1)
  BY DEF PlacedNext
<1> HIDE DEF disp, v, rt2, mt2, gg2
<1>11. {rt2[x] : x \in 0 .. base - 1} = ValuesBefore(mm, hv, bs, order, gg2, ii)
  <2>1. \A x \in 0 .. base - 1 : x \in 0 .. filled - 1
    <3> HIDE DEF base
    <3> QED BY <1>1, <1>4
  <2>2. {rt2[x] : x \in 0 .. base - 1} = {rt[x] : x \in 0 .. base - 1}
    BY <1>6, <2>1
  <2> QED BY <1>1, <1>7, <2>2
<1> HIDE DEF base
<1> DEFINE l == Len(ks)
<1>0. /\ mm \in Nat /\ nb \in Nat /\ ii \in Nat /\ ii < nb /\ jj \in Nat /\ base \in Nat
      /\ filled = base + jj /\ filled < mm /\ l \in Nat /\ l > 0 /\ (jj # 0 => jj < l)
  BY <1>1, <1>3, <1>4
<1> HIDE DEF l
<1>12. ASSUME NEW x \in 1 .. jj + 1 PROVE rt2[base + x - 1] = ValueOf(mm, hv, ks, x, disp)
  <2>1. CASE x = jj + 1
    <3>1. base + x - 1 = filled
      BY <1>0, <2>1
    <3> QED BY <1>6, <1>8, <2>1, <3>1
  <2>2. CASE x # jj + 1
    <3>1. x \in 1 .. jj /\ base + x - 1 \in 0 .. filled - 1 /\ jj # 0
      BY <1>0, <2>2
    <3> QED BY <1>1, <1>6, <1>9, <3>1
  <2> QED BY <2>1, <2>2
<1>13. CASE jj + 1 # Len(ks)
  <2>1. filled + 1 - (jj + 1) = base /\ filled + 1 \in jj + 1 .. mm /\ jj + 1 \in Nat /\ jj + 1 < l
        /\ jj + 1 # 0
    <3>1. jj + 1 # l
      BY <1>13 DEF l
    <3> QED BY <1>0, <3>1
  <2>2. ii \in 0 .. nb /\ ii < nb
    BY <1>1
  <2> HIDE DEF bucket
  <2>3. \A x \in 1 .. jj + 1 : rt2[base + x - 1] = ValueOf(mm, hv, bs[bucket], x, gg2[bucket])
    BY <1>7, <1>12
  <2>4. jj + 1 < Len(bs[bucket]) /\ zz \in Nat /\ base = Cardinality(KeysBefore(where, mm, order, ii))
    BY <1>1, <2>1 DEF l
  <2>5. Placed(mm, nb, where, bs, order, hv, rt2, mt2, gg2, filled + 1, ii, zz, jj + 1)
    BY <1>5, <1>7, <1>11, <2>1, <2>2, <2>3, <2>4 DEF Placed, bucket
  <2> QED BY <1>10, <1>13, <2>5
<1>14. CASE jj + 1 = Len(ks)
  <2>1. /\ Cardinality(KeysBefore(where, mm, order, ii + 1)) = base + Len(ks)
        /\ base + Len(ks) <= mm
    BY <1>1, <1>3, BucketMore
  <2>2. filled + 1 = Cardinality(KeysBefore(where, mm, order, ii + 1)) /\ filled + 1 \in 0 .. mm
        /\ filled + 1 - 0 = filled + 1 /\ ii + 1 \in 0 .. nb
    <3>1. base + l = Cardinality(KeysBefore(where, mm, order, ii + 1)) /\ base + l <= mm /\ jj + 1 = l
      BY <1>14, <2>1 DEF l
    <3>2. filled + 1 = base + l /\ filled + 1 \in 0 .. mm /\ filled + 1 - 0 = filled + 1 /\ ii + 1 \in 0 .. nb
      BY <1>0, <3>1
    <3> QED BY <3>1, <3>2
  <2>3. ASSUME ii + 1 < nb, Len(bs[order[ii + 2]]) > 0 PROVE filled + 1 < mm
    <3>1. ii + 1 \in 0 .. nb - 1 /\ ii + 1 + 1 = ii + 2 /\ ii + 2 \in 1 .. nb
      BY <1>1, <2>3
    <3>2. order[ii + 2] \in 0 .. nb - 1
      BY <3>1, SeqElements DEF Orders, Buckets
    <3>3. Len(bs[order[ii + 2]]) = Cardinality(KeysOf(where, mm, order[ii + 2]))
          /\ Len(bs[order[ii + 2]]) \in Nat
      BY <3>2, LenProperties DEF Buckets
    <3>4. Cardinality(KeysBefore(where, mm, order, ii + 1))
            + Cardinality(KeysOf(where, mm, order[ii + 1 + 1])) <= mm
      BY <1>1, <3>1, BucketMore
    <3> DEFINE more == Len(bs[order[ii + 2]])
    <3>5. filled + 1 + more <= mm /\ more \in Nat /\ more > 0
      BY <2>2, <2>3, <3>1, <3>3, <3>4
    <3> HIDE DEF more
    <3> QED BY <1>0, <3>5
  <2>4. {rt2[x] : x \in 0 .. filled} = ValuesBefore(mm, hv, bs, order, gg2, ii + 1)
    <3>1. {rt2[x] : x \in 0 .. filled}
            = {rt2[x] : x \in 0 .. base - 1} \cup {rt2[base + x - 1] : x \in 1 .. jj + 1}
      <4>1. \A x \in 0 .. filled : x \in 0 .. base - 1 \/ \E y \in 1 .. jj + 1 : x = base + y - 1
        <5> SUFFICES ASSUME NEW x \in 0 .. filled, x \notin 0 .. base - 1
                     PROVE  \E y \in 1 .. jj + 1 : x = base + y - 1
          OBVIOUS
        <5>1. x - base + 1 \in 1 .. jj + 1 /\ x = base + (x - base + 1) - 1
          BY <1>0
        <5> QED BY <5>1
      <4>2. \A x \in 0 .. base - 1 : x \in 0 .. filled
        BY <1>0
      <4>3. \A y \in 1 .. jj + 1 : base + y - 1 \in 0 .. filled
        BY <1>0
      <4> QED BY <4>1, <4>2, <4>3
    <3>2. {rt2[base + x - 1] : x \in 1 .. jj + 1} = ValuesOf(mm, hv, ks, gg2[bucket])
      BY <1>7, <1>12, <1>14 DEF ValuesOf
    <3>3. ValuesBefore(mm, hv, bs, order, gg2, ii + 1)
            = ValuesBefore(mm, hv, bs, order, gg2, ii) \cup ValuesOf(mm, hv, ks, gg2[bucket])
      <4>1. \A x : x \in 1 .. ii + 1 <=> x \in 1 .. ii \/ x = ii + 1
        BY <1>0
      <4> QED BY <4>1 DEF ValuesBefore
    <3> QED BY <1>11, <3>1, <3>2, <3>3
  <2>5. filled + 1 - 0 - 1 = filled /\ 0 \in Nat /\ ii + 1 + 1 = ii + 2 /\ filled + 1 + 0 = filled + 1
    BY <1>0
  <2>6. Placed(mm, nb, where, bs, order, hv, rt2, mt2, gg2, filled + 1, ii + 1, 0, 0)
    BY <1>5, <1>7, <2>2, <2>3, <2>4, <2>5 DEF Placed
  <2> QED BY <1>10, <1>14, <2>6
<1> QED BY <1>13, <1>14
\* The keys of the bucket are taken back, and the next value is tried.
LEMMA KeysTakenBack ==
  ASSUME NEW mm, NEW nb, NEW S, NEW where, NEW bs, NEW order, NEW hv,
         Buckets(mm, nb, S, where, bs, order, hv),
         NEW rt, NEW mt, NEW gg, NEW filled, NEW ii, NEW zz, NEW jj,
         Placed(mm, nb, where, bs, order, hv, rt, mt, gg, filled, ii, zz, jj),
         NEW disp \in Int, ii < nb, zz + 1 < mm - (filled - jj)
  PROVE  Placed(mm, nb, where, bs, order, hv, rt, mt, With(gg, order, ii, disp),
                filled - jj, ii, zz + 1, 0)
<1> DEFINE base == filled - jj
           gg2 == With(gg, order, ii, disp)
<1>1. /\ mm \in Nat /\ nb \in Nat /\ ii \in 0 .. nb /\ zz \in Nat /\ jj \in Nat /\ filled \in jj .. mm
      /\ Orders(order, nb) /\ gg \in [0 .. nb - 1 -> Int] /\ Inverses(rt, mt, mm)
      /\ base = Cardinality(KeysBefore(where, mm, order, ii))
      /\ {rt[x] : x \in 0 .. base - 1} = ValuesBefore(mm, hv, bs, order, gg, ii)
  BY DEF Buckets, Placed
<1>2. ii \in 0 .. nb - 1 /\ zz + 1 \in Nat /\ base \in Nat /\ base <= mm /\ zz + 1 < mm - base
  BY <1>1
<1>3. Kept(nb, mm, hv, bs, order, gg, ii, disp)
  BY <1>1, <1>2, BeforeKept
<1>4. gg2 \in [0 .. nb - 1 -> Int]
      /\ ValuesBefore(mm, hv, bs, order, gg2, ii) = ValuesBefore(mm, hv, bs, order, gg, ii)
  BY <1>3 DEF Kept
<1> HIDE DEF base, gg2
<1>5. base - 0 = base /\ base \in 0 .. mm /\ base + (zz + 1) < mm /\ 0 \in Nat /\ ~(0 # 0)
  BY <1>1, <1>2
<1>6. \A x \in 1 .. 0 : FALSE
  OBVIOUS
<1>7. Placed(mm, nb, where, bs, order, hv, rt, mt, gg2, base, ii, zz + 1, 0)
  BY <1>1, <1>2, <1>4, <1>5, <1>6 DEF Placed
<1> QED BY <1>7 DEF base, gg2

\* Before the first bucket.
LEMMA NothingPlaced ==
  ASSUME NEW mm, NEW nb, NEW S, NEW where, NEW bs, NEW order, NEW hv,
         Buckets(mm, nb, S, where, bs, order, hv),
         NEW rt, NEW mt, Inverses(rt, mt, mm), NEW gg \in [0 .. nb - 1 -> Int]
  PROVE  Placed(mm, nb, where, bs, order, hv, rt, mt, gg, 0, 0, 0, 0)
<1>1. mm \in Nat /\ nb \in Nat /\ Orders(order, nb)
  BY DEF Buckets
<1>2. KeysBefore(where, mm, order, 0) = {} /\ ValuesBefore(mm, hv, bs, order, gg, 0) = {}
  BY DEF KeysBefore, ValuesBefore
<1>3. Cardinality(KeysBefore(where, mm, order, 0)) = 0
  BY <1>2, FS_EmptySet
<1>4. ASSUME 0 < nb, Len(bs[order[0 + 1]]) > 0 PROVE 0 < mm
  <2>1. 0 \in 0 .. nb - 1 /\ 0 + 1 \in 1 .. nb
    BY <1>1, <1>4
  <2>2. order[0 + 1] \in 0 .. nb - 1
    BY <1>1, <2>1, SeqElements DEF Orders
  <2>3. Len(bs[order[0 + 1]]) = Cardinality(KeysOf(where, mm, order[0 + 1]))
    BY <2>2 DEF Buckets
  <2>4. Cardinality(KeysBefore(where, mm, order, 0))
          + Cardinality(KeysOf(where, mm, order[0 + 1])) <= mm
        /\ Cardinality(KeysOf(where, mm, order[0 + 1])) \in Nat
    BY <1>1, <2>1, BucketMore
  <2> DEFINE more == Cardinality(KeysOf(where, mm, order[0 + 1]))
  <2>5. more > 0 /\ 0 + more <= mm /\ more \in Nat
    BY <1>3, <1>4, <2>3, <2>4
  <2> HIDE DEF more
  <2> QED BY <1>1, <2>5
<1>5. {rt[x] : x \in 0 .. 0 - 0 - 1} = {}
  OBVIOUS
<1>6. 0 \in 0 .. nb /\ 0 \in Nat /\ 0 \in 0 .. mm /\ 0 - 0 = 0 /\ 0 + 0 = 0 /\ \A x \in 1 .. 0 : FALSE
  BY <1>1
<1> QED BY <1>1, <1>2, <1>3, <1>4, <1>5, <1>6 DEF Placed

\* The values in use, each of which has one key.
Filled(mm, hv, bs, order, rt, mt, gg, filled, ii, jj) ==
  /\ \A v \in 0 .. mm - 1 : rt[mt[v]] = v
  /\ {rt[x] : x \in 0 .. filled - 1}
       = ValuesBefore(mm, hv, bs, order, gg, ii)
         \cup {ValueOf(mm, hv, bs[order[ii + 1]], x, gg[order[ii + 1]]) : x \in 1 .. jj}
  /\ Cardinality({rt[x] : x \in 0 .. filled - 1}) = filled

LEMMA FilledAre ==
  ASSUME NEW mm, NEW nb, NEW S, NEW where, NEW bs, NEW order, NEW hv,
         Buckets(mm, nb, S, where, bs, order, hv),
         NEW rt, NEW mt, NEW gg, NEW filled, NEW ii, NEW zz, NEW jj,
         Placed(mm, nb, where, bs, order, hv, rt, mt, gg, filled, ii, zz, jj)
  PROVE  Filled(mm, hv, bs, order, rt, mt, gg, filled, ii, jj)
<1> DEFINE base == filled - jj
<1>1. /\ mm \in Nat /\ jj \in Nat /\ filled \in jj .. mm /\ Inverses(rt, mt, mm)
      /\ {rt[x] : x \in 0 .. base - 1} = ValuesBefore(mm, hv, bs, order, gg, ii)
      /\ \A x \in 1 .. jj : rt[base + x - 1]
                              = ValueOf(mm, hv, bs[order[ii + 1]], x, gg[order[ii + 1]])
  BY DEF Buckets, Placed
<1>2. \A v \in 0 .. mm - 1 : rt[mt[v]] = v /\ mt[rt[v]] = v
  BY <1>1 DEF Inverses
<1>3. base \in Nat /\ filled = base + jj
  BY <1>1
<1> HIDE DEF base
<1>4. {rt[x] : x \in 0 .. filled - 1}
        = {rt[x] : x \in 0 .. base - 1} \cup {rt[base + x - 1] : x \in 1 .. jj}
  <2>1. \A x \in 0 .. filled - 1 : x \in 0 .. base - 1 \/ \E y \in 1 .. jj : x = base + y - 1
    <3> SUFFICES ASSUME NEW x \in 0 .. filled - 1, x \notin 0 .. base - 1
                 PROVE  \E y \in 1 .. jj : x = base + y - 1
      OBVIOUS
    <3>1. x - base + 1 \in 1 .. jj /\ x = base + (x - base + 1) - 1
      BY <1>1, <1>3
    <3> QED BY <3>1
  <2>2. \A x \in 0 .. base - 1 : x \in 0 .. filled - 1
    BY <1>1, <1>3
  <2>3. \A y \in 1 .. jj : base + y - 1 \in 0 .. filled - 1
    BY <1>1, <1>3
  <2> QED BY <2>1, <2>2, <2>3
<1>5. {rt[base + x - 1] : x \in 1 .. jj}
        = {ValueOf(mm, hv, bs[order[ii + 1]], x, gg[order[ii + 1]]) : x \in 1 .. jj}
  BY <1>1
<1> DEFINE A == 0 .. filled - 1
           B == {rt[x] : x \in A}
           f == [x \in A |-> rt[x]]
<1>6. \A x \in A : x \in 0 .. mm - 1
  BY <1>1
<1>7. IsFiniteSet(A) /\ Cardinality(A) = filled
  <2>1. 0 \in Int /\ filled - 1 \in Int /\ filled \in Nat
    BY <1>1
  <2>2. IsFiniteSet(A) /\ Cardinality(A) = IF 0 > filled - 1 THEN 0 ELSE filled - 1 - 0 + 1
    BY <2>1, FS_Interval
  <2> QED BY <2>1, <2>2
<1> HIDE DEF A
<1>8. f \in Bijection(A, B)
  <2>1. \A x, y \in A : f[x] = f[y] => x = y
    BY <1>2, <1>6
  <2>2. f \in [A -> B] /\ \A v \in B : \E x \in A : f[x] = v
    OBVIOUS
  <2> HIDE DEF f, B
  <2>3. DOMAIN f = A
    BY <2>2
  <2> QED BY <2>1, <2>2, <2>3 DEF Bijection, Injection, Surjection, IsInjective
<1>9. Cardinality(B) = filled
  <2> HIDE DEF f, B
  <2> QED BY <1>7, <1>8, FS_Bijection DEF ExistsBijection
<1> QED BY <1>1, <1>2, <1>4, <1>5, <1>9 DEF A, Filled
---------------------------------------------------------------------------
(* The buckets by their sizes.                                             *)

\* A sequence that has each element of a set once.
Lists(w, T) ==
  /\ w \in Seq(T)
  /\ \A x, y \in 1 .. Len(w) : w[x] = w[y] => x = y
  /\ \A v \in T : \E x \in 1 .. Len(w) : w[x] = v

LEMMA AscendingLists ==
  ASSUME NEW T, T \subseteq Int, IsFiniteSet(T)
  PROVE  Lists(Ascending(T), T) /\ Len(Ascending(T)) = Cardinality(T)
<1> DEFINE a == Ascending(T)
           l == Cardinality(T)
<1>1. l \in Nat /\ a \in [1 .. l -> T] /\ a \in Bijection(1 .. l, T)
  BY AscendingOnce
<1> HIDE DEF a, l
<1>2. a \in Seq(T) /\ Len(a) = l
  BY <1>1, SeqDef, LenProperties
<1>3. \A x, y \in 1 .. l : a[x] = a[y] => x = y
  BY <1>1 DEF Bijection, Injection, IsInjective
<1>4. \A v \in T : \E x \in 1 .. l : a[x] = v
  BY <1>1 DEF Bijection, Surjection
<1> QED BY <1>2, <1>3, <1>4 DEF Lists, a, l

LEMMA ListsSized ==
  ASSUME NEW T, IsFiniteSet(T), NEW w, Lists(w, T)
  PROVE  Len(w) = Cardinality(T)
<1>1. w \in Seq(T) /\ Len(w) \in Nat
  BY LenProperties DEF Lists
<1>2. w \in [1 .. Len(w) -> T] /\ DOMAIN w = 1 .. Len(w)
  BY <1>1, LenProperties
<1>3. w \in Bijection(1 .. Len(w), T)
  BY <1>2 DEF Lists, Bijection, Injection, Surjection, IsInjective
<1>4. IsFiniteSet(1 .. Len(w)) /\ Cardinality(1 .. Len(w)) = Len(w)
  <2> DEFINE l == Len(w)
  <2>1. 1 \in Int /\ l \in Int /\ l \in Nat
    BY <1>1
  <2> HIDE DEF l
  <2>2. IsFiniteSet(1 .. l) /\ Cardinality(1 .. l) = IF 1 > l THEN 0 ELSE l - 1 + 1
    BY <2>1, FS_Interval
  <2>3. IsFiniteSet(1 .. l) /\ Cardinality(1 .. l) = l
    BY <2>1, <2>2
  <2> QED BY <2>3 DEF l
<1>5. Cardinality(T) = Cardinality(1 .. Len(w))
  BY <1>3, <1>4, FS_Bijection DEF ExistsBijection
<1> QED BY <1>4, <1>5

LEMMA ListsJoined ==
  ASSUME NEW T, NEW U, NEW s, NEW t, Lists(s, T), Lists(t, U), T \cap U = {}, NEW w, IsJoin(w, s, t)
  PROVE  Lists(w, T \cup U)
<1> DEFINE S == T \cup U
<1>1. s \in Seq(S) /\ t \in Seq(S)
  <2>1. s \in Seq(T) /\ t \in Seq(U)
    BY DEF Lists
  <2>2. Len(s) \in Nat /\ Len(t) \in Nat /\ s \in [1 .. Len(s) -> T] /\ t \in [1 .. Len(t) -> U]
    BY <2>1, LenProperties
  <2>3. s \in [1 .. Len(s) -> S] /\ t \in [1 .. Len(t) -> S]
    BY <2>2
  <2> HIDE DEF S
  <2> QED BY <2>2, <2>3, SeqDef
<1> HIDE DEF S
<1>2. w \in Seq(S) /\ Len(w) = Len(s) + Len(t)
      /\ (\A x \in 1 .. Len(s) : w[x] = s[x]) /\ \A x \in 1 .. Len(t) : w[Len(s) + x] = t[x]
  BY <1>1, JoinElements
<1>3. Len(s) \in Nat /\ Len(t) \in Nat
  BY <1>1, LenProperties
<1>4. \A x \in 1 .. Len(w) : x \in 1 .. Len(s) \/ (x - Len(s) \in 1 .. Len(t) /\ x = Len(s) + (x - Len(s)))
  <2> DEFINE ls == Len(s)
             lt == Len(t)
  <2>1. ls \in Nat /\ lt \in Nat /\ Len(w) = ls + lt
    BY <1>2, <1>3
  <2> HIDE DEF ls, lt
  <2>2. \A x \in 1 .. ls + lt : x \in 1 .. ls \/ (x - ls \in 1 .. lt /\ x = ls + (x - ls))
    BY <2>1
  <2> QED BY <2>1, <2>2 DEF ls, lt
<1>5. (\A x \in 1 .. Len(s) : s[x] \in T) /\ \A x \in 1 .. Len(t) : t[x] \in U
  BY SeqElements DEF Lists
<1>6. ASSUME NEW x \in 1 .. Len(w), NEW y \in 1 .. Len(w), w[x] = w[y] PROVE x = y
  <2>1. CASE x \in 1 .. Len(s) /\ y \in 1 .. Len(s)
    BY <1>2, <1>6, <2>1 DEF Lists
  <2>2. CASE x \notin 1 .. Len(s) /\ y \notin 1 .. Len(s)
    <3>1. w[x] = t[x - Len(s)] /\ w[y] = t[y - Len(s)]
      BY <1>2, <1>4, <2>2
    <3>2. x - Len(s) = y - Len(s)
      BY <1>4, <1>6, <2>2, <3>1 DEF Lists
    <3> QED BY <1>3, <3>2
  <2>3. CASE x \in 1 .. Len(s) /\ y \notin 1 .. Len(s)
    <3>1. w[x] \in T /\ w[y] \in U
      BY <1>2, <1>4, <1>5, <2>3
    <3> QED BY <1>6, <3>1
  <2>4. CASE x \notin 1 .. Len(s) /\ y \in 1 .. Len(s)
    <3>1. w[x] \in U /\ w[y] \in T
      BY <1>2, <1>4, <1>5, <2>4
    <3> QED BY <1>6, <3>1
  <2> QED BY <2>1, <2>2, <2>3, <2>4
<1>7. ASSUME NEW v \in S PROVE \E x \in 1 .. Len(w) : w[x] = v
  <2>1. \A x \in 1 .. Len(s) : x \in 1 .. Len(w)
    BY <1>2, <1>3
  <2>2. \A x \in 1 .. Len(t) : Len(s) + x \in 1 .. Len(w)
    BY <1>2, <1>3
  <2>3. CASE v \in T
    BY <1>2, <2>1, <2>3 DEF Lists
  <2>4. CASE v \in U
    <3>1. PICK x \in 1 .. Len(t) : t[x] = v
      BY <2>4 DEF Lists
    <3>2. Len(s) + x \in 1 .. Len(w) /\ w[Len(s) + x] = v
      BY <1>2, <2>2, <3>1
    <3> QED BY <3>2
  <2> QED BY <2>3, <2>4 DEF S
<1> QED BY <1>2, <1>6, <1>7 DEF Lists, S

\* The elements below nb whose size is less than mm + 1 by s.
OfSize(nb, mm, bs, s) == {x \in 0 .. nb - 1 : Len(bs[x]) = mm + 1 - s}
BySize(nb, mm, bs) == [s \in 1 .. mm + 1 |-> Ascending(OfSize(nb, mm, bs, s))]

LEMMA OrdersBySize ==
  ASSUME NEW nb \in Nat, NEW mm \in Nat, NEW bs, \A x \in 0 .. nb - 1 : Len(bs[x]) \in 0 .. mm
  PROVE  Orders(FlattenSeq(BySize(nb, mm, bs)), nb)
<1> DEFINE S == 0 .. nb - 1
           pieces == BySize(nb, mm, bs)
           upto(s) == {x \in S : Len(bs[x]) >= mm + 1 - s}
<1>1. IsFiniteSet(S) /\ Cardinality(S) = nb /\ S \subseteq Int
  <2>1. 0 \in Int /\ nb - 1 \in Int /\ nb \in Nat
    OBVIOUS
  <2>2. IsFiniteSet(S) /\ Cardinality(S) = IF 0 > nb - 1 THEN 0 ELSE nb - 1 - 0 + 1
    BY <2>1, FS_Interval
  <2> QED BY <2>1, <2>2
<1>2. \A x \in S : Len(bs[x]) \in 0 .. mm
  OBVIOUS
<1> HIDE DEF S
<1>3. ASSUME NEW s \in 1 .. mm + 1
      PROVE  Lists(pieces[s], OfSize(nb, mm, bs, s)) /\ OfSize(nb, mm, bs, s) \in SUBSET S
  <2>1. OfSize(nb, mm, bs, s) \in SUBSET S
    BY DEF OfSize, S
  <2>2. pieces[s] = Ascending(OfSize(nb, mm, bs, s))
    BY DEF BySize
  <2>3. IsFiniteSet(OfSize(nb, mm, bs, s)) /\ OfSize(nb, mm, bs, s) \subseteq Int
    BY <1>1, <2>1, FS_Subset
  <2> QED BY <2>1, <2>2, <2>3, AscendingLists
<1>4. pieces \in Seq(Seq(S)) /\ Len(pieces) = mm + 1
  <2>1. \A s \in 1 .. mm + 1 : pieces[s] \in Seq(S)
    <3> SUFFICES ASSUME NEW s \in 1 .. mm + 1 PROVE pieces[s] \in Seq(S)
      OBVIOUS
    <3> DEFINE T == OfSize(nb, mm, bs, s)
    <3>1. pieces[s] \in Seq(T) /\ T \in SUBSET S
      BY <1>3 DEF Lists
    <3> HIDE DEF T, pieces
    <3>2. Len(pieces[s]) \in Nat /\ pieces[s] \in [1 .. Len(pieces[s]) -> T]
      BY <3>1, LenProperties
    <3>3. pieces[s] \in [1 .. Len(pieces[s]) -> S]
      BY <3>1, <3>2
    <3> QED BY <3>2, <3>3, SeqDef
  <2>2. pieces = [s \in 1 .. mm + 1 |-> pieces[s]] /\ mm + 1 \in Nat
    BY DEF BySize
  <2>3. pieces \in [1 .. mm + 1 -> Seq(S)]
    BY <2>1 DEF BySize
  <2> HIDE DEF pieces
  <2> QED BY <2>2, <2>3, SeqDef, LenProperties
<1>5. PICK join \in [0 .. Len(pieces) -> Seq(S)] :
        /\ join[0] = <<>> /\ \A s \in 1 .. Len(pieces) : join[s] = join[s - 1] \o pieces[s]
        /\ FlattenSeq(pieces) = join[Len(pieces)]
  <2> HIDE DEF pieces
  <2> QED BY <1>4, FlattenUnfolds
<1> HIDE DEF pieces
<1> DEFINE Done == {s \in Nat : s <= mm + 1 => Lists(join[s], upto(s))}
<1>6. 0 \in Done
  <2>1. upto(0) = {}
    <3>1. \A l \in 0 .. mm : ~(l >= mm + 1 - 0)
      OBVIOUS
    <3> QED BY <1>2, <3>1
  <2>2. Lists(<<>>, {})
    <3>1. <<>> \in Seq({}) /\ Len(<<>>) = 0
      OBVIOUS
    <3> QED BY <3>1 DEF Lists
  <2> HIDE DEF upto
  <2> QED BY <1>5, <2>1, <2>2
<1>7. ASSUME NEW s \in Nat, s \in Done PROVE s + 1 \in Done
  <2> HIDE DEF upto
  <2> SUFFICES ASSUME s + 1 <= mm + 1 PROVE Lists(join[s + 1], upto(s + 1))
    OBVIOUS
  <2>1. s + 1 \in 1 .. mm + 1 /\ (s + 1) - 1 = s /\ s <= mm + 1
    OBVIOUS
  <2>2. Lists(join[s], upto(s))
    BY <1>7, <2>1
  <2>3. IsJoin(join[s + 1], join[s], pieces[s + 1])
    BY <1>4, <1>5, <2>1 DEF IsJoin
  <2>4. Lists(pieces[s + 1], OfSize(nb, mm, bs, s + 1))
    BY <1>3, <2>1
  <2>5. \A l \in 0 .. mm : /\ ~(l >= mm + 1 - s /\ l = mm + 1 - (s + 1))
                           /\ (l >= mm + 1 - (s + 1) <=> l >= mm + 1 - s \/ l = mm + 1 - (s + 1))
    <3>1. \A l, u, v \in Int : /\ ~(l >= u + 1 - v /\ l = u + 1 - (v + 1))
                               /\ (l >= u + 1 - (v + 1) <=> l >= u + 1 - v \/ l = u + 1 - (v + 1))
      OBVIOUS
    <3>2. mm \in Int /\ s \in Int /\ \A l \in 0 .. mm : l \in Int
      OBVIOUS
    <3> QED BY <3>1, <3>2
  <2>6. upto(s) \cap OfSize(nb, mm, bs, s + 1) = {}
        /\ upto(s + 1) = upto(s) \cup OfSize(nb, mm, bs, s + 1)
    BY <1>2, <2>5 DEF OfSize, S, upto
  <2>7. Lists(join[s + 1], upto(s) \cup OfSize(nb, mm, bs, s + 1))
    BY <2>2, <2>3, <2>4, <2>6, ListsJoined
  <2> QED BY <2>6, <2>7
<1>8. Lists(join[mm + 1], upto(mm + 1))
  <2>1. mm + 1 \in Done
    <3> HIDE DEF Done
    <3>1. mm + 1 \in Nat
      OBVIOUS
    <3> QED BY <1>6, <1>7, <3>1, SetInduction
  <2>2. mm + 1 <= mm + 1
    OBVIOUS
  <2> HIDE DEF upto
  <2> QED BY <2>1, <2>2
<1>9. upto(mm + 1) = S
  <2>1. \A l \in 0 .. mm : l >= mm + 1 - (mm + 1)
    OBVIOUS
  <2> QED BY <1>2, <2>1
<1> HIDE DEF upto
<1>10. Lists(FlattenSeq(pieces), S)
  BY <1>4, <1>5, <1>8, <1>9
<1>11. Len(FlattenSeq(pieces)) = nb
  BY <1>1, <1>10, ListsSized
<1> QED BY <1>10, <1>11 DEF Lists, Orders, S, pieces

\* A bucket has the keys that are hashed to it.
BucketOf(ks, where, mm, x) ==
  LET own == Ascending(KeysOf(where, mm, x)) IN [y \in DOMAIN own |-> ks[own[y]]]

LEMMA BucketHolds ==
  ASSUME NEW mm \in Nat, NEW S, NEW ks \in Seq(S), Len(ks) = mm, NEW where, NEW x
  PROVE  /\ BucketOf(ks, where, mm, x) \in Seq(S)
         /\ Len(BucketOf(ks, where, mm, x)) = Cardinality(KeysOf(where, mm, x))
         /\ Len(BucketOf(ks, where, mm, x)) \in 0 .. mm
<1> DEFINE T == KeysOf(where, mm, x)
           own == Ascending(T)
           l == Cardinality(T)
           bk == BucketOf(ks, where, mm, x)
<1>1. IsFiniteSet(1 .. mm) /\ Cardinality(1 .. mm) = mm
  <2>1. 1 \in Int /\ mm \in Int
    OBVIOUS
  <2> QED BY <2>1, FS_Interval
<1>2. T \in SUBSET (1 .. mm) /\ T \subseteq Int
  BY DEF KeysOf
<1>3. bk = [y \in DOMAIN own |-> ks[own[y]]]
  BY DEF BucketOf
<1> HIDE DEF T, bk
<1>4. IsFiniteSet(T) /\ l <= mm /\ l \in Nat
  BY <1>1, <1>2, FS_Subset, FS_CardinalityType
<1>5. own \in [1 .. l -> T]
  BY <1>2, <1>4, AscendingOnce
<1> HIDE DEF own, l
<1>6. \A y \in 1 .. mm : ks[y] \in S
  BY SeqElements
<1>7. bk \in [1 .. l -> S]
  BY <1>2, <1>3, <1>5, <1>6
<1>8. bk \in Seq(S) /\ Len(bk) = l
  BY <1>4, <1>7, SeqDef, LenProperties
<1>9. l \in 0 .. mm
  BY <1>4
<1> QED BY <1>8, <1>9 DEF bk, l, T
=============================================================================
