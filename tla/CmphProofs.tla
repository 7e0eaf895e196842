----------------------------- MODULE CmphProofs -----------------------------
(***************************************************************************)
(* Theorems about Cmph for every source, every hash function and every     *)
(* choice of its client: the keys that the algorithms work on, the tables  *)
(* of FCH, the queue of BDZ and BDZ_PH and what they assign.               *)
(***************************************************************************)
EXTENDS Cmph, CmphLemmas

---------------------------------------------------------------------------
(* The operators that a component has from the library are those of the    *)
(* library.                                                                *)

LEMMA SameAscending ==
  ASSUME NEW S
  PROVE  Source!Ascending(S) = Ascending(S) /\ Fch!Ascending(S) = Ascending(S)
         /\ Bdz!Ascending(S) = Ascending(S) /\ BdzPh!Graph3!Ascending(S) = Ascending(S)
BY DEF Source!Ascending, Fch!Ascending, Bdz!Ascending, BdzPh!Graph3!Ascending, Ascending,
       Source!Cardinality, Fch!Cardinality, Bdz!Cardinality, BdzPh!Graph3!Cardinality, Cardinality

---------------------------------------------------------------------------
(* The keys. *)

Contents == Source!Contents(source)

\* What a chunk of a file is and the lines of the file.
LEMMA SourceIs ==
  ASSUME NEW file, NEW pos, NEW chunk
  PROVE  /\ Source!Chunk(file, pos) = ChunkIn(file, NL, BUFSIZ - 1, pos)
         /\ Source!EndsLine(chunk) <=> EndsIn(chunk, NL)
         /\ Source!feof(chunk) <=> Len(chunk) < BUFSIZ - 1 /\ ~EndsIn(chunk, NL)
         /\ Source!Lines(file) = LinesIn(file, NL)
<1> DEFINE limit == IF pos + BUFSIZ - 1 < Len(file) THEN pos + BUFSIZ - 1 ELSE Len(file)
           rest == SubSeq(file, pos + 1, limit)
           Found == {x \in 1 .. Len(rest) : rest[x] = NL}
<1>1. Source!Contains(rest, NL) <=> Found # {}
  BY DEF Source!Contains
<1>2. Source!SelectInSeq(rest, LAMBDA ch : ch = NL) = IF Found # {} THEN Min(Found) ELSE 0
  BY DEF Source!SelectInSeq, Source!Min, Min
<1>3. Source!Chunk(file, pos)
        = IF Source!Contains(rest, NL)
            THEN SubSeq(rest, 1, Source!SelectInSeq(rest, LAMBDA ch : ch = NL)) ELSE rest
  BY DEF Source!Chunk, limit
<1>4. Source!Chunk(file, pos) = IF Found # {} THEN SubSeq(rest, 1, Min(Found)) ELSE rest
  BY <1>1, <1>2, <1>3
<1>5. Source!Chunk(file, pos) = ChunkIn(file, NL, BUFSIZ - 1, pos)
  BY <1>4 DEF ChunkIn
<1>6. Source!Lines(file) = LinesIn(file, NL)
  BY SameAscending DEF Source!Lines, LinesIn, Ends
<1> QED BY <1>5, <1>6 DEF Source!EndsLine, Source!feof, Source!Last, EndsIn

\* While the lines of a file are counted, and while the keys are read.
Counts ==
  pc = "counting" =>
    /\ source.kind = "nlfile" /\ keys = <<>> /\ key = <<>>
    /\ position \in 0 .. Len(source.data)
    /\ nkeys = Cardinality({x \in Ends(source.data, NL) : x <= position})

ReadsALine(l) ==
  /\ position \in Start(source.data, NL, l) .. Start(source.data, NL, l + 1) - 1
  /\ key = SubSeq(source.data, Start(source.data, NL, l) + 1, position)

ReadsInOrder ==
  pc = "reading" =>
    /\ nkeys = Len(Contents)
    /\ \E l \in 0 .. nkeys :
         /\ keys = SubSeq(Contents, 1, l)
         /\ IF source.kind = "nlfile" THEN l < nkeys => ReadsALine(l) ELSE position = l

Beyond == pc \notin {"counting", "reading"}

KeyInv ==
  /\ source \in Sources /\ Counts /\ ReadsInOrder
  /\ Beyond => keys = Contents

LEMMA ContentsTyped ==
  ASSUME NEW src \in Sources
  PROVE  /\ Source!Contents(src) \in Seq(ToSet(Source!Contents(src)))
         /\ src.kind = "nlfile" => src.data \in Seq(ToSet(src.data))
<1>1. CASE src.kind = "nlfile"
  <2>1. src.data \in Seq(ToSet(src.data))
    BY <1>1, SourcesAssumption
  <2> DEFINE ks == Source!Lines(src.data)
  <2>2. ks \in Seq(Seq(ToSet(src.data)))
    <3>1. ks = LinesIn(src.data, NL)
      BY SourceIs
    <3> QED BY <2>1, <3>1, LinesOf
  <2> HIDE DEF ks
  <2>3. ks \in [1 .. Len(ks) -> Seq(ToSet(src.data))] /\ Len(ks) \in Nat /\ DOMAIN ks = 1 .. Len(ks)
    BY <2>2, LenProperties
  <2>4. ks \in [1 .. Len(ks) -> ToSet(ks)]
    BY <2>3 DEF ToSet
  <2>5. ks \in Seq(ToSet(ks))
    BY <2>3, <2>4, IsASeq
  <2>6. Source!Contents(src) = ks
    BY <1>1 DEF Source!Contents, ks
  <2> QED BY <2>1, <2>5, <2>6
<1>2. CASE src.kind # "nlfile"
  BY <1>2, SourcesAssumption DEF Source!Contents
<1> QED BY <1>1, <1>2

LEMMA KeyInvInit == Init => KeyInv
<1> SUFFICES ASSUME Init PROVE KeyInv
  OBVIOUS
<1> USE DEF Init, Source!Init
<1>1. source \in Sources /\ Contents \in Seq(ToSet(Contents))
  BY ContentsTyped DEF Contents
<1>2. CASE source.kind = "nlfile"
  <2>1. pc = "counting" /\ nkeys = 0 /\ position = 0 /\ keys = <<>> /\ key = <<>>
    BY <1>2
  <2>2. source.data \in Seq(ToSet(source.data)) /\ Len(source.data) \in Nat
    BY <1>1, <1>2, ContentsTyped, LenProperties
  <2>3. {x \in Ends(source.data, NL) : x <= position} = {}
    BY <2>1, <2>2 DEF Ends
  <2>4. Counts
    <3>1. nkeys = Cardinality({x \in Ends(source.data, NL) : x <= position})
      BY <2>1, <2>3, FS_EmptySet
    <3>2. position \in 0 .. Len(source.data)
      BY <2>1, <2>2
    <3> QED BY <1>2, <2>1, <3>1, <3>2 DEF Counts
  <2> QED BY <1>1, <2>1, <2>4 DEF KeyInv, ReadsInOrder, Beyond
<1>3. CASE source.kind # "nlfile"
  <2>1. pc = "reading" /\ nkeys = source.nkeys /\ position = 0 /\ keys = <<>>
    BY <1>3
  <2>2. nkeys = Len(Contents) /\ nkeys \in Nat
    BY <1>1, <1>3, <2>1, SourcesAssumption, LenProperties DEF Contents, Source!Contents
  <2>3. 0 \in 0 .. nkeys /\ keys = SubSeq(Contents, 1, 0)
    BY <1>1, <2>1, <2>2, NoKeyYet
  <2> QED BY <1>1, <1>3, <2>1, <2>2, <2>3 DEF KeyInv, Counts, ReadsInOrder, Beyond
<1> QED BY <1>2, <1>3
\* The chunk that is read next.
LEMMA ChunkRead ==
  ASSUME NEW src \in Sources, src.kind = "nlfile", NEW pos \in 0 .. Len(src.data),
         NEW chunk, chunk = Source!Chunk(src.data, pos), NEW upto, upto = pos + Len(chunk)
  PROVE  /\ src.data \in Seq(ToSet(src.data)) /\ upto \in pos .. Len(src.data)
         /\ chunk = SubSeq(src.data, pos + 1, upto)
         /\ \A x \in pos + 1 .. upto - 1 : src.data[x] # NL
         /\ Source!EndsLine(chunk) <=> upto > pos /\ src.data[upto] = NL
         /\ Source!feof(chunk) =>
              ~Source!EndsLine(chunk) /\ \A x \in pos + 1 .. Len(src.data) : src.data[x] # NL
<1>1. src.data \in Seq(ToSet(src.data)) /\ BUFSIZ - 1 \in Nat \ {0}
  BY ContentsTyped, SourcesAssumption
<1>2. chunk = ChunkIn(src.data, NL, BUFSIZ - 1, pos)
  BY SourceIs
<1>3. /\ chunk \in Seq(ToSet(src.data)) /\ upto \in pos .. Len(src.data)
      /\ chunk = SubSeq(src.data, pos + 1, upto)
      /\ \A x \in pos + 1 .. upto - 1 : src.data[x] # NL
      /\ EndsIn(chunk, NL) <=> Len(chunk) > 0 /\ src.data[upto] = NL
      /\ Len(chunk) < BUFSIZ - 1 /\ ~EndsIn(chunk, NL) =>
           \A x \in pos + 1 .. Len(src.data) : src.data[x] # NL
  <2> DEFINE file == src.data
             room == BUFSIZ - 1
  <2>1. file \in Seq(ToSet(file)) /\ pos \in 0 .. Len(file) /\ room \in Nat \ {0}
        /\ chunk = ChunkIn(file, NL, room, pos)
    BY <1>1, <1>2
  <2> HIDE DEF file, room
  <2>2. /\ chunk \in Seq(ToSet(file)) /\ pos + Len(chunk) \in pos .. Len(file)
        /\ chunk = SubSeq(file, pos + 1, pos + Len(chunk))
        /\ \A x \in pos + 1 .. pos + Len(chunk) - 1 : file[x] # NL
        /\ EndsIn(chunk, NL) <=> Len(chunk) > 0 /\ file[pos + Len(chunk)] = NL
        /\ Len(chunk) < room /\ ~EndsIn(chunk, NL) => \A x \in pos + 1 .. Len(file) : file[x] # NL
    BY <2>1, ChunkOf
  <2> QED BY <2>2 DEF file, room
<1>4. Len(chunk) \in Nat /\ Len(src.data) \in Nat /\ (Len(chunk) > 0 <=> upto > pos)
  <2>1. Len(chunk) \in Nat /\ Len(src.data) \in Nat
    BY <1>1, <1>3, LenProperties
  <2> QED BY <2>1
<1> QED BY <1>1, <1>3, <1>4, SourceIs

LEMMA KeyInvCounts == KeyInv /\ Source!count_nlfile_keys => KeyInv'
<1> SUFFICES ASSUME KeyInv, Source!count_nlfile_keys PROVE KeyInv'
  OBVIOUS
<1> DEFINE chunk == Source!Chunk(source.data, position)
           upto == position + Len(chunk)
<1>1. /\ pc = "counting" /\ source \in Sources /\ source' = source /\ key' = key /\ keys' = keys
      /\ source.kind = "nlfile" /\ keys = <<>> /\ key = <<>> /\ position \in 0 .. Len(source.data)
      /\ nkeys = Cardinality({x \in Ends(source.data, NL) : x <= position})
  BY DEF KeyInv, Counts, Source!count_nlfile_keys
<1>2. IF Source!feof(chunk)
        THEN pc' = "reading" /\ position' = 0 /\ nkeys' = nkeys
        ELSE /\ position' = upto /\ pc' = pc
             /\ nkeys' = IF Source!EndsLine(chunk) THEN nkeys + 1 ELSE nkeys
  BY DEF Source!count_nlfile_keys
<1> HIDE DEF chunk, upto
<1>3. /\ source.data \in Seq(ToSet(source.data)) /\ upto \in position .. Len(source.data)
      /\ \A x \in position + 1 .. upto - 1 : source.data[x] # NL
      /\ Source!EndsLine(chunk) <=> upto > position /\ source.data[upto] = NL
      /\ Source!feof(chunk) => \A x \in position + 1 .. Len(source.data) : source.data[x] # NL
  BY <1>1, ChunkRead DEF chunk, upto
<1> DEFINE To(y) == Cardinality({x \in Ends(source.data, NL) : x <= y})
<1>4. /\ To(position) \in Nat
      /\ To(upto) = To(position) + (IF upto > position /\ source.data[upto] = NL THEN 1 ELSE 0)
      /\ (\A x \in position + 1 .. Len(source.data) : source.data[x] # NL) =>
           {x \in Ends(source.data, NL) : x <= position} = Ends(source.data, NL)
  BY <1>1, <1>3, CountsOn
<1>5. CASE ~Source!feof(chunk)
  <2>1. position' = upto /\ pc' = "counting" /\ nkeys' = To(upto)
    <3> HIDE DEF To
    <3>1. nkeys = To(position)
      BY <1>1 DEF To
    <3> QED BY <1>1, <1>2, <1>3, <1>4, <1>5, <3>1
  <2>2. upto \in 0 .. Len(source.data)
    BY <1>1, <1>3
  <2>3. Counts'
    BY <1>1, <2>1, <2>2 DEF Counts
  <2> QED BY <1>1, <2>1, <2>3 DEF KeyInv, ReadsInOrder, Beyond
<1>6. CASE Source!feof(chunk)
  <2>1. /\ pc' = "reading" /\ position' = 0 /\ nkeys' = Cardinality(Ends(source.data, NL))
    BY <1>1, <1>2, <1>3, <1>4, <1>6
  <2>2. /\ Contents = LinesIn(source.data, NL) /\ nkeys' = Len(Contents) /\ nkeys' \in Nat
        /\ Contents \in Seq(ToSet(Contents)) /\ Contents' = Contents
    <3>1. Contents = LinesIn(source.data, NL) /\ Contents' = Contents
      BY <1>1, SourceIs DEF Contents, Source!Contents
    <3>2. Contents \in Seq(ToSet(Contents))
      BY <1>1, ContentsTyped DEF Contents
    <3> QED BY <1>3, <2>1, <3>1, <3>2, LinesOf
  <2>3. 0 \in 0 .. nkeys' /\ keys' = SubSeq(Contents, 1, 0)
    BY <1>1, <2>2, NoKeyYet
  <2>4. ASSUME 0 < nkeys' PROVE ReadsALine(0)'
    <3>1. 0 \in 0 .. Cardinality(Ends(source.data, NL)) - 1
      BY <2>1, <2>2, <2>4
    <3>2. Start(source.data, NL, 0) = 0
      BY DEF Start
    <3>3. 0 \in 0 .. Cardinality(Ends(source.data, NL)) /\ 0 + 1 \in 0 .. Cardinality(Ends(source.data, NL))
      BY <2>1, <2>2, <2>4
    <3>4. Start(source.data, NL, 0 + 1) \in 0 .. Len(source.data)
          /\ Start(source.data, NL, 0) < Start(source.data, NL, 0 + 1)
      BY <1>3, <3>1, <3>3, LinesOf
    <3>5. 0 \in Start(source.data, NL, 0) .. Start(source.data, NL, 0 + 1) - 1
      BY <3>2, <3>4
    <3>6. SubSeq(source.data, Start(source.data, NL, 0) + 1, 0) = <<>>
      BY <1>3, <3>2, SubSeqEmpty
    <3> QED BY <1>1, <2>1, <3>5, <3>6 DEF ReadsALine
  <2>5. ReadsInOrder'
    BY <1>1, <2>1, <2>2, <2>3, <2>4 DEF ReadsInOrder
  <2> QED BY <1>1, <2>1, <2>5 DEF KeyInv, Counts, Beyond
<1> QED BY <1>5, <1>6
\* While keys are missing, l of them have been read.
LEMMA KeysSoFar ==
  ASSUME KeyInv, pc = "reading"
  PROVE  /\ source \in Sources /\ Contents \in Seq(ToSet(Contents)) /\ nkeys = Len(Contents)
         /\ nkeys \in Nat
         /\ \E l \in 0 .. nkeys :
              /\ keys = SubSeq(Contents, 1, l) /\ Len(keys) = l
              /\ IF source.kind = "nlfile" THEN l < nkeys => ReadsALine(l) ELSE position = l
<1>1. /\ source \in Sources /\ nkeys = Len(Contents)
      /\ \E l \in 0 .. nkeys :
           /\ keys = SubSeq(Contents, 1, l)
           /\ IF source.kind = "nlfile" THEN l < nkeys => ReadsALine(l) ELSE position = l
  BY DEF KeyInv, ReadsInOrder
<1>2. Contents \in Seq(ToSet(Contents)) /\ nkeys \in Nat
  BY <1>1, ContentsTyped, LenProperties DEF Contents
<1>3. PICK l \in 0 .. nkeys :
        /\ keys = SubSeq(Contents, 1, l)
        /\ IF source.kind = "nlfile" THEN l < nkeys => ReadsALine(l) ELSE position = l
  BY <1>1
<1>4. Len(keys) = l
  <2>1. CASE l = nkeys
    BY <1>1, <1>2, <1>3, <2>1, SubSeqFull
  <2>2. CASE l # nkeys
    <3>1. l \in 0 .. Len(Contents) - 1
      BY <1>1, <1>2, <2>2
    <3> QED BY <1>2, <1>3, <3>1, OneKeyMore
  <2> QED BY <2>1, <2>2
<1> QED BY <1>1, <1>2, <1>3, <1>4

LEMMA KeyInvLine == KeyInv /\ Source!key_nlfile_read => KeyInv'
<1> SUFFICES ASSUME KeyInv, Source!key_nlfile_read PROVE KeyInv'
  OBVIOUS
<1> DEFINE chunk == Source!Chunk(source.data, position)
           upto == position + Len(chunk)
           file == source.data
<1>1. /\ pc = "reading" /\ source.kind = "nlfile" /\ Len(keys) < nkeys
      /\ source' = source /\ nkeys' = nkeys /\ pc' = pc /\ position' = upto
      /\ IF Source!feof(chunk) THEN keys' = Append(keys, key) /\ key' = <<>>
         ELSE IF Source!EndsLine(chunk)
         THEN keys' = Append(keys, key \o SubSeq(chunk, 1, Len(chunk) - 1)) /\ key' = <<>>
         ELSE key' = key \o chunk /\ keys' = keys
  BY DEF Source!key_nlfile_read, Source!Front
<1>2. /\ source \in Sources /\ Contents \in Seq(ToSet(Contents)) /\ nkeys = Len(Contents)
      /\ nkeys \in Nat
  BY <1>1, KeysSoFar
<1>3. PICK l \in 0 .. nkeys : keys = SubSeq(Contents, 1, l) /\ Len(keys) = l
                              /\ (l < nkeys => ReadsALine(l))
  BY <1>1, KeysSoFar
<1>4. /\ l \in 0 .. nkeys - 1 /\ position \in Start(file, NL, l) .. Start(file, NL, l + 1) - 1
      /\ key = SubSeq(file, Start(file, NL, l) + 1, position)
  BY <1>1, <1>2, <1>3 DEF ReadsALine
<1> HIDE DEF chunk, upto, file
<1>5. file \in Seq(ToSet(file)) /\ Contents = LinesIn(file, NL) /\ Contents' = Contents
  <2>1. Contents = LinesIn(file, NL) /\ Contents' = Contents
    BY <1>1, SourceIs DEF Contents, Source!Contents, file
  <2> QED BY <1>1, <1>2, <2>1, ContentsTyped DEF file
<1>6. nkeys = Cardinality(Ends(file, NL))
  BY <1>2, <1>5, LinesOf
<1>7. /\ Start(file, NL, l) \in 0 .. Len(file) /\ Start(file, NL, l + 1) \in 0 .. Len(file)
      /\ Start(file, NL, l) < Start(file, NL, l + 1)
      /\ Contents[l + 1] = SubSeq(file, Start(file, NL, l) + 1, Start(file, NL, l + 1) - 1)
      /\ Len(file) \in Nat
  <2>1. l \in 0 .. Cardinality(Ends(file, NL)) /\ l + 1 \in 0 .. Cardinality(Ends(file, NL))
        /\ l \in 0 .. Cardinality(Ends(file, NL)) - 1
    BY <1>2, <1>4, <1>6
  <2>2. Len(file) \in Nat
    BY <1>5, LenProperties
  <2>3. \A x \in 0 .. Cardinality(Ends(file, NL)) : Start(file, NL, x) \in 0 .. Len(file)
    BY <1>5, LinesOf
  <2>4. \A x \in 0 .. Cardinality(Ends(file, NL)) - 1 :
          /\ Start(file, NL, x) < Start(file, NL, x + 1)
          /\ LinesIn(file, NL)[x + 1] = SubSeq(file, Start(file, NL, x) + 1, Start(file, NL, x + 1) - 1)
    BY <1>5, LinesOf
  <2> QED BY <1>5, <2>1, <2>2, <2>3, <2>4
<1>8. position \in Start(file, NL, l) .. Len(file) /\ position \in 0 .. Len(file)
  BY <1>4, <1>7
<1>9. /\ upto \in position .. Len(file) /\ chunk = SubSeq(file, position + 1, upto)
      /\ \A x \in position + 1 .. upto - 1 : file[x] # NL
      /\ Source!EndsLine(chunk) <=> upto > position /\ file[upto] = NL
      /\ Source!feof(chunk) => \A x \in position + 1 .. Len(file) : file[x] # NL
  <2>1. position \in 0 .. Len(source.data)
    BY <1>8 DEF file
  <2> QED BY <1>1, <1>2, <2>1, ChunkRead DEF chunk, upto, file
<1>10. /\ Source!EndsLine(chunk) => upto = Start(file, NL, l + 1) /\ upto > position
       /\ ~Source!EndsLine(chunk) => upto <= Start(file, NL, l + 1) - 1
       /\ ~Source!feof(chunk)
  <2>1. l \in 0 .. Cardinality(Ends(file, NL)) - 1
    BY <1>4, <1>6
  <2>2. /\ upto > position /\ file[upto] = NL => upto = Start(file, NL, l + 1)
        /\ ~(upto > position /\ file[upto] = NL) => upto <= Start(file, NL, l + 1) - 1
        /\ ~\A x \in position + 1 .. Len(file) : file[x] # NL
    BY <1>4, <1>5, <1>9, <2>1, LineOn
  <2> QED BY <1>9, <2>2
<1>11. /\ key \o chunk = SubSeq(file, Start(file, NL, l) + 1, upto)
       /\ upto > position => key \o SubSeq(chunk, 1, Len(chunk) - 1)
                               = SubSeq(file, Start(file, NL, l) + 1, upto - 1)
  <2> DEFINE from == Start(file, NL, l)
  <2>1. from \in 0 .. Len(file) /\ position \in from .. Len(file)
    BY <1>7, <1>8
  <2> HIDE DEF from
  <2>2. /\ SubSeq(file, from + 1, position) \o chunk = SubSeq(file, from + 1, upto)
        /\ upto > position => SubSeq(file, from + 1, position) \o SubSeq(chunk, 1, Len(chunk) - 1)
                                 = SubSeq(file, from + 1, upto - 1)
    <3>1. JoinedTo(file, from, position, chunk, upto)
      BY <1>5, <1>9, <2>1, ReadsOn
    <3> QED BY <3>1 DEF JoinedTo
  <2> QED BY <1>4, <2>2 DEF from
<1>12. CASE ~Source!EndsLine(chunk)
  <2>1. keys' = keys /\ key' = SubSeq(file, Start(file, NL, l) + 1, upto)
    BY <1>1, <1>10, <1>11, <1>12
  <2>2. upto \in Start(file, NL, l) .. Start(file, NL, l + 1) - 1
    BY <1>7, <1>8, <1>9, <1>10, <1>12
  <2>3. ReadsALine(l)'
    BY <1>1, <2>1, <2>2 DEF ReadsALine, file
  <2>4. ReadsInOrder'
    BY <1>1, <1>2, <1>3, <1>5, <2>1, <2>3 DEF ReadsInOrder
  <2> QED BY <1>1, <1>2, <2>4 DEF KeyInv, Counts, Beyond
<1>13. CASE Source!EndsLine(chunk)
  <2>1. keys' = SubSeq(Contents, 1, l + 1) /\ key' = <<>>
    <3>1. keys' = Append(keys, Contents[l + 1]) /\ key' = <<>>
      BY <1>1, <1>7, <1>10, <1>11, <1>13
    <3>2. l \in 0 .. Len(Contents) - 1
      BY <1>2, <1>4
    <3> QED BY <1>2, <1>3, <3>1, <3>2, OneKeyMore
  <2>2. l + 1 \in 0 .. nkeys /\ l + 1 \in Nat
    BY <1>2, <1>4
  <2>3. ASSUME l + 1 < nkeys PROVE ReadsALine(l + 1)'
    <3>1. Start(file, NL, l + 1) < Start(file, NL, (l + 1) + 1)
          /\ Start(file, NL, (l + 1) + 1) \in 0 .. Len(file)
      <4>1. l + 1 \in 0 .. Cardinality(Ends(file, NL)) - 1
            /\ (l + 1) + 1 \in 0 .. Cardinality(Ends(file, NL))
        BY <1>2, <1>6, <2>2, <2>3
      <4> QED BY <1>5, <4>1, LinesOf
    <3>2. upto \in Start(file, NL, l + 1) .. Start(file, NL, (l + 1) + 1) - 1
      BY <1>7, <1>10, <1>13, <3>1
    <3>3. SubSeq(file, Start(file, NL, l + 1) + 1, upto) = <<>>
      BY <1>7, <1>10, <1>13, SubSeqEmpty
    <3> QED BY <1>1, <2>1, <3>2, <3>3 DEF ReadsALine, file
  <2>4. ReadsInOrder'
    BY <1>1, <1>2, <1>5, <2>1, <2>2, <2>3 DEF ReadsInOrder
  <2> QED BY <1>1, <1>2, <2>4 DEF KeyInv, Counts, Beyond
<1> QED BY <1>12, <1>13

LEMMA KeyInvElement == KeyInv /\ Source!ReadElement => KeyInv'
<1> SUFFICES ASSUME KeyInv, Source!ReadElement PROVE KeyInv'
  OBVIOUS
<1>1. /\ pc = "reading" /\ source.kind # "nlfile" /\ Len(keys) < nkeys
      /\ source' = source /\ nkeys' = nkeys /\ pc' = pc /\ position' = position + 1
      /\ keys' = Append(keys, Source!Element(source, position))
  BY DEF Source!ReadElement
<1>2. /\ source \in Sources /\ Contents \in Seq(ToSet(Contents)) /\ nkeys = Len(Contents)
      /\ nkeys \in Nat /\ Contents' = Contents
  BY <1>1, KeysSoFar DEF Contents
<1>3. PICK l \in 0 .. nkeys : keys = SubSeq(Contents, 1, l) /\ Len(keys) = l /\ position = l
  BY <1>1, KeysSoFar
<1>4. l \in 0 .. Len(Contents) - 1 /\ l + 1 \in 0 .. nkeys /\ (l + 1) - 1 = l /\ l + 1 \in 1 .. nkeys
  BY <1>1, <1>2, <1>3
<1>5. Source!Element(source, position) = Contents[l + 1]
  <2>1. /\ nkeys = source.nkeys /\ Contents = source.keys
        /\ \A x \in 1 .. source.nkeys : Source!Element(source, x - 1) = source.keys[x]
    BY <1>1, <1>2, SourcesAssumption DEF Contents, Source!Contents
  <2> QED BY <1>3, <1>4, <2>1
<1>6. keys' = SubSeq(Contents, 1, l + 1)
  BY <1>1, <1>2, <1>3, <1>4, <1>5, OneKeyMore
<1>7. ReadsInOrder'
  BY <1>1, <1>2, <1>3, <1>4, <1>6 DEF ReadsInOrder
<1> QED BY <1>1, <1>2, <1>7 DEF KeyInv, Counts, Beyond

LEMMA KeyInvRewind == KeyInv /\ Source!Rewind => KeyInv'
<1> SUFFICES ASSUME KeyInv, Source!Rewind PROVE KeyInv'
  OBVIOUS
<1>1. /\ pc = "reading" /\ Len(keys) = nkeys /\ pc' = "config" /\ source' = source /\ keys' = keys
  BY DEF Source!Rewind
<1>2. /\ source \in Sources /\ Contents \in Seq(ToSet(Contents)) /\ nkeys = Len(Contents)
      /\ keys = SubSeq(Contents, 1, nkeys)
  BY <1>1, KeysSoFar
<1>3. keys' = Contents'
  BY <1>1, <1>2, SubSeqFull DEF Contents
<1> QED BY <1>1, <1>2, <1>3 DEF KeyInv, Counts, ReadsInOrder, Beyond
---------------------------------------------------------------------------
(* Whatever algorithm goes on does so when the keys have been read, and    *)
(* never comes to read them again.                                         *)

LEMMA ChmGoes == Chm!chm_new => Beyond /\ Beyond'
<1>1. Chm!Called => Beyond /\ Beyond'
  BY DEF Chm!Called, Beyond
<1>2. Chm!Mapping => Beyond /\ Beyond'
  BY DEF Chm!Mapping, Beyond
<1>3. Chm!StartsTree => Beyond /\ Beyond'
  BY DEF Chm!StartsTree, Beyond
<1>4. Chm!chm_traverse => Beyond /\ Beyond'
  BY DEF Chm!chm_traverse, Beyond
<1>5. Chm!Finish => Beyond /\ Beyond'
  BY DEF Chm!Finish, Beyond
<1> QED BY <1>1, <1>2, <1>3, <1>4, <1>5 DEF Chm!chm_new

LEMMA BmzGoes == Bmz!bmz_new => Beyond /\ Beyond'
<1>1. Bmz!Called => Beyond /\ Beyond'
  BY DEF Bmz!Called, Beyond
<1>2. Bmz!Mapping => Beyond /\ Beyond'
  BY DEF Bmz!Mapping, Beyond
<1>3. Bmz!StartsComponent => Beyond /\ Beyond'
  BY DEF Bmz!StartsComponent, Beyond
<1>4. Bmz!Label => Beyond /\ Beyond'
  BY DEF Bmz!Label, Beyond
<1>5. Bmz!Dequeue => Beyond /\ Beyond'
  BY DEF Bmz!Dequeue, Beyond
<1>6. Bmz!EndOfCritical => Beyond /\ Beyond'
  BY DEF Bmz!EndOfCritical, Beyond
<1>7. Bmz!RestartMapping => Beyond /\ Beyond'
  BY DEF Bmz!RestartMapping, Beyond
<1>8. Bmz!ScanEdge => Beyond /\ Beyond'
  BY DEF Bmz!ScanEdge, Beyond
<1>9. Bmz!ScanVertex => Beyond /\ Beyond'
  BY DEF Bmz!ScanVertex, Beyond
<1>10. Bmz!bmz_traverse => Beyond /\ Beyond'
  BY DEF Bmz!bmz_traverse, Beyond
<1>11. Bmz!Finish => Beyond /\ Beyond'
  BY DEF Bmz!Finish, Beyond
<1> QED BY <1>1, <1>2, <1>3, <1>4, <1>5, <1>6, <1>7, <1>8, <1>9, <1>10, <1>11 DEF Bmz!bmz_new,
     Bmz!bmz_traverse_critical_nodes, Bmz!bmz_traverse_non_critical_nodes

LEMMA Bmz8Goes == Bmz8!bmz8_new => Beyond /\ Beyond'
<1>1. Bmz8!TooMany => Beyond /\ Beyond'
  BY DEF Bmz8!TooMany, Beyond
<1>2. Bmz8!Called => Beyond /\ Beyond'
  BY DEF Bmz8!Called, Bmz8!Bytes!Called, Beyond
<1>3. Bmz8!DividesByZero => Beyond /\ Beyond'
  BY DEF Bmz8!DividesByZero, Beyond
<1>4. Bmz8!Bytes!Mapping => Beyond /\ Beyond'
  BY DEF Bmz8!Bytes!Mapping, Beyond
<1>5. Bmz8!Bytes!StartsComponent => Beyond /\ Beyond'
  BY DEF Bmz8!Bytes!StartsComponent, Beyond
<1>6. Bmz8!Bytes!Label => Beyond /\ Beyond'
  BY DEF Bmz8!Bytes!Label, Beyond
<1>7. Bmz8!Bytes!Dequeue => Beyond /\ Beyond'
  BY DEF Bmz8!Bytes!Dequeue, Beyond
<1>8. Bmz8!Bytes!EndOfCritical => Beyond /\ Beyond'
  BY DEF Bmz8!Bytes!EndOfCritical, Beyond
<1>9. Bmz8!Bytes!RestartMapping => Beyond /\ Beyond'
  BY DEF Bmz8!Bytes!RestartMapping, Beyond
<1>10. Bmz8!Bytes!ScanEdge => Beyond /\ Beyond'
  BY DEF Bmz8!Bytes!ScanEdge, Beyond
<1>11. Bmz8!Bytes!ScanVertex => Beyond /\ Beyond'
  BY DEF Bmz8!Bytes!ScanVertex, Beyond
<1>12. Bmz8!Bytes!bmz_traverse => Beyond /\ Beyond'
  BY DEF Bmz8!Bytes!bmz_traverse, Beyond
<1>13. Bmz8!Bytes!Finish => Beyond /\ Beyond'
  BY DEF Bmz8!Bytes!Finish, Beyond
<1> QED BY <1>1, <1>2, <1>3, <1>4, <1>5, <1>6, <1>7, <1>8, <1>9, <1>10, <1>11, <1>12, <1>13 DEF Bmz8!bmz8_new,
     Bmz8!bmz8_gen_edges, Bmz8!bmz8_traverse_critical_nodes, Bmz8!bmz8_restart,
     Bmz8!bmz8_traverse_non_critical_nodes, Bmz8!bmz8_traverse

LEMMA FchGoes == Fch!fch_new => Beyond /\ Beyond'
<1>1. Fch!Called => Beyond /\ Beyond'
  BY DEF Fch!Called, Beyond
<1>2. Fch!mapping => Beyond /\ Beyond'
  BY DEF Fch!mapping, Beyond
<1>3. Fch!generate_h2 => Beyond /\ Beyond'
  BY DEF Fch!generate_h2, Fch!Again, Beyond
<1>4. Fch!PlaceKey => Beyond /\ Beyond'
  BY DEF Fch!PlaceKey, Beyond
<1>5. Fch!KeyCollides => Beyond /\ Beyond'
  BY DEF Fch!KeyCollides, Fch!Again, Beyond
<1>6. Fch!Finish => Beyond /\ Beyond'
  BY DEF Fch!Finish, Beyond
<1> QED BY <1>1, <1>2, <1>3, <1>4, <1>5, <1>6 DEF Fch!fch_new, Fch!searching

LEMMA BdzGoes == Bdz!bdz_new => Beyond /\ Beyond'
<1>1. Bdz!Called => Beyond /\ Beyond'
  BY DEF Bdz!Called, Beyond
<1>2. Bdz!bdz_mapping => Beyond /\ Beyond'
  BY DEF Bdz!bdz_mapping, Beyond
<1>3. Bdz!bdz_remove_edge => Beyond /\ Beyond'
  BY DEF Bdz!bdz_remove_edge, Beyond
<1>4. Bdz!QueueEnds => Beyond /\ Beyond'
  BY DEF Bdz!QueueEnds, Beyond
<1>5. Bdz!assigning => Beyond /\ Beyond'
  BY DEF Bdz!assigning, Beyond
<1>6. Bdz!ranking => Beyond /\ Beyond'
  BY DEF Bdz!ranking, Beyond
<1> QED BY <1>1, <1>2, <1>3, <1>4, <1>5, <1>6 DEF Bdz!bdz_new

LEMMA BdzPhGoes == BdzPh!bdz_ph_new => Beyond /\ Beyond'
<1>1. BdzPh!Graph3!Called => Beyond /\ Beyond'
  BY DEF BdzPh!Graph3!Called, Beyond
<1>2. BdzPh!Graph3!bdz_mapping => Beyond /\ Beyond'
  BY DEF BdzPh!Graph3!bdz_mapping, Beyond
<1>3. BdzPh!Graph3!bdz_remove_edge => Beyond /\ Beyond'
  BY DEF BdzPh!Graph3!bdz_remove_edge, Beyond
<1>4. BdzPh!QueueEnds => Beyond /\ Beyond'
  BY DEF BdzPh!QueueEnds, Beyond
<1>5. BdzPh!assigning => Beyond /\ Beyond'
  BY DEF BdzPh!assigning, Beyond
<1>6. BdzPh!Finish => Beyond /\ Beyond'
  BY DEF BdzPh!Finish, Beyond
<1> QED BY <1>1, <1>2, <1>3, <1>4, <1>5, <1>6 DEF BdzPh!bdz_ph_new, BdzPh!Called,
     BdzPh!bdz_ph_mapping, BdzPh!bdz_ph_remove_edge

LEMMA BrzGoes == Brz!brz_new => Beyond /\ Beyond'
<1>1. Brz!Called => Beyond /\ Beyond'
  BY DEF Brz!Called, Brz!Attempt, Beyond
<1>2. Brz!PartitionsKey => Beyond /\ Beyond'
  BY DEF Brz!PartitionsKey, Brz!Retries, Brz!Attempt, Beyond
<1>3. Brz!StartsMerge => Beyond /\ Beyond'
  BY DEF Brz!StartsMerge, Brz!Retries, Brz!Attempt, Beyond
<1>4. Brz!MergesKey => Beyond /\ Beyond'
  BY DEF Brz!MergesKey, Brz!TakesFromRun, Beyond
<1>5. Brz!EndsRun => Beyond /\ Beyond'
  BY DEF Brz!EndsRun, Brz!TakesFromRun, Beyond
<1>6. Brz!Corrupts => Beyond /\ Beyond'
  BY DEF Brz!Corrupts, Beyond
<1>7. Brz!WritesFunction => Beyond /\ Beyond'
  BY DEF Brz!WritesFunction, Beyond
<1>8. Brz!BucketFails => Beyond /\ Beyond'
  BY DEF Brz!BucketFails, Brz!Retries, Brz!Attempt, Beyond
<1>9. Brz!Finish => Beyond /\ Beyond'
  BY DEF Brz!Finish, Beyond
<1> QED BY <1>1, <1>2, <1>3, <1>4, <1>5, <1>6, <1>7, <1>8, <1>9 DEF Brz!brz_new, Brz!brz_gen_mphf

LEMMA ChdGoes == Chd!chd_new => Beyond /\ Beyond'
<1>1. Chd!Called => Beyond /\ Beyond'
  BY DEF Chd!Called, Beyond
<1>2. Chd!chd_ph_mapping => Beyond /\ Beyond'
  BY DEF Chd!chd_ph_mapping, Beyond
<1>3. Chd!chd_ph_ordering => Beyond /\ Beyond'
  BY DEF Chd!chd_ph_ordering, Beyond
<1>4. Chd!place_bucket_probe => Beyond /\ Beyond'
  BY DEF Chd!place_bucket_probe, Beyond
<1>5. Chd!NextProbe => Beyond /\ Beyond'
  BY DEF Chd!NextProbe, Chd!AtEndOfList, Beyond
<1>6. Chd!SearchFails => Beyond /\ Beyond'
  BY DEF Chd!SearchFails, Chd!AtEndOfList, Beyond
<1>7. Chd!NextSize => Beyond /\ Beyond'
  BY DEF Chd!NextSize, Beyond
<1>8. Chd!Compresses => Beyond /\ Beyond'
  BY DEF Chd!Compresses, Beyond
<1>9. Chd!Ranks => Beyond /\ Beyond'
  BY DEF Chd!Ranks, Beyond
<1> QED BY <1>1, <1>2, <1>3, <1>4, <1>5, <1>6, <1>7, <1>8, <1>9 DEF Chd!chd_new, Chd!Searches,
     Chd!chd_ph_searching

LEMMA BuildsGoes == Builds => /\ Beyond /\ Beyond'
                                   /\ UNCHANGED <<source, keys, algo, c, b>>
<1>1. Builds => Beyond /\ Beyond'
  BY ChmGoes, BmzGoes, Bmz8Goes, FchGoes, BdzGoes, BdzPhGoes, BrzGoes, ChdGoes DEF Builds
<1> QED BY <1>1 DEF Builds, sourceVars, config
\* The client chooses, or has a function that it uses; the keys stay.
Chooses ==
  \/ cmph_config_set_algo \/ cmph_config_set_graphsize \/ cmph_config_set_b
  \/ cmph_config_set_keys_per_bin \/ cmph_config_set_memory_availability \/ cmph_new

LEMMA ChoosesGoes ==
  Chooses => /\ pc = "config" /\ pc' \in {"config", "new"} /\ UNCHANGED <<source, keys>>
BY DEF Chooses, cmph_config_set_algo, cmph_config_set_graphsize, cmph_config_set_b,
       cmph_config_set_keys_per_bin, cmph_config_set_memory_availability, cmph_new, sourceVars

LEMMA UsesGoes ==
  Uses => /\ pc \in {"done", "dumped", "loaded"} /\ pc' \in {"dumped", "loaded", "aborted", "packed"}
          /\ UNCHANGED <<source, keys, algo, c, b>>
<1>1. cmph_dump => /\ pc = "done" /\ pc' = "dumped" /\ UNCHANGED <<source, keys, algo, c, b>>
  BY DEF cmph_dump, sourceVars, config
<1>2. cmph_load => /\ pc = "dumped" /\ pc' \in {"loaded", "aborted"}
                   /\ UNCHANGED <<source, keys, algo, c, b>>
  BY DEF cmph_load, sourceVars, config
<1>3. cmph_pack => /\ pc \in {"done", "loaded"} /\ pc' = "packed"
                   /\ UNCHANGED <<source, keys, algo, c, b>>
  BY DEF cmph_pack, sourceVars, config
<1> QED BY <1>1, <1>2, <1>3 DEF Uses

LEMMA ReadsGoes ==
  ReadsKeys => /\ pc \in {"counting", "reading"} /\ pc' \in {"counting", "reading", "config"}
               /\ UNCHANGED <<source, algo, c, b>>
<1>1. ReadsKeys => Source!Reads /\ UNCHANGED <<algo, c, b>>
  BY DEF ReadsKeys, config
<1>2. Source!Reads => /\ pc \in {"counting", "reading"} /\ pc' \in {"counting", "reading", "config"}
                      /\ source' = source
  BY DEF Source!Reads, Source!count_nlfile_keys, Source!key_nlfile_read, Source!ReadElement,
         Source!Rewind
<1> QED BY <1>1, <1>2

LEMMA NextIs == Next <=> ReadsKeys \/ Chooses \/ Builds \/ Uses
BY DEF Next, Chooses

LEMMA KeyInvNext == KeyInv /\ [Next]_vars => KeyInv'
<1> SUFFICES ASSUME KeyInv, [Next]_vars PROVE KeyInv'
  OBVIOUS
<1>1. CASE ReadsKeys
  <2>1. Source!Reads
    BY <1>1 DEF ReadsKeys
  <2> QED BY <2>1, KeyInvCounts, KeyInvLine, KeyInvElement, KeyInvRewind DEF Source!Reads
<1>2. CASE Chooses \/ Builds \/ Uses
  <2>1. Beyond /\ Beyond' /\ source' = source /\ keys' = keys
    BY <1>2, ChoosesGoes, BuildsGoes, UsesGoes DEF Beyond
  <2>2. Contents' = Contents
    BY <2>1 DEF Contents
  <2> QED BY <2>1, <2>2 DEF KeyInv, Counts, ReadsInOrder, Beyond
<1>3. CASE UNCHANGED vars
  <2>1. pc' = pc /\ UNCHANGED <<source, nkeys, position, key, keys>>
    BY <1>3 DEF vars, sourceVars
  <2>2. Contents' = Contents
    BY <2>1 DEF Contents
  <2>3. \A l : ReadsALine(l)' <=> ReadsALine(l)
    BY <2>1 DEF ReadsALine
  <2>4. Counts' /\ ReadsInOrder'
    BY <2>1, <2>2, <2>3 DEF KeyInv, Counts, ReadsInOrder
  <2> QED BY <2>1, <2>2, <2>4 DEF KeyInv, Beyond
<1> QED BY <1>1, <1>2, <1>3, NextIs

\* Whatever the source, once its keys have been read the algorithms work on
\* exactly those that the client sees, in their order: the lines of a file
\* are neither split by the ends of the chunks nor joined, and what follows
\* the last end of a line is no key.
KeysAreThoseOfTheSource == pc \notin {"counting", "reading"} => keys = Source!Contents(source)

THEOREM KeysAreRead == Spec => []KeysAreThoseOfTheSource
<1>1. KeyInv => KeysAreThoseOfTheSource
  BY DEF KeyInv, Beyond, Contents, KeysAreThoseOfTheSource
<1> QED BY KeyInvInit, KeyInvNext, <1>1, PTL DEF Spec
---------------------------------------------------------------------------
(* The hypergraphs of BDZ and BDZ_PH. *)

Third == Bdz!Third(c, Len(keys))

\* Both algorithms have the operators of Bdz.
LEMMA SameGraph ==
  /\ Bdz!r = Third /\ BdzPh!Graph3!r = Third
  /\ Bdz!m = Len(keys) /\ BdzPh!Graph3!m = Len(keys)
  /\ Bdz!Vertices = 0 .. 3 * Third - 1 /\ BdzPh!Vertices = 0 .. 3 * Third - 1
  /\ Bdz!UNASSIGNED = 3 /\ BdzPh!Graph3!UNASSIGNED = 3
<1>1. Bdz!Third(c, Len(keys)) = BdzPh!Graph3!Third(c, Len(keys))
  BY DEF Bdz!Third, BdzPh!Graph3!Third
<1> QED BY <1>1 DEF Bdz!r, BdzPh!Graph3!r, Third, Bdz!m, BdzPh!Graph3!m, Bdz!Vertices,
     BdzPh!Vertices, Bdz!n, BdzPh!n, BdzPh!Graph3!n, Bdz!UNASSIGNED, BdzPh!Graph3!UNASSIGNED

LEMMA EdgesAtIs ==
  ASSUME NEW gr, NEW v, NEW removed
  PROVE  /\ Bdz!EdgesAt(gr, v, removed) = LeftAt(gr, Len(gr), v, removed)
         /\ BdzPh!Graph3!EdgesAt(gr, v, removed) = LeftAt(gr, Len(gr), v, removed)
BY DEF Bdz!EdgesAt, BdzPh!Graph3!EdgesAt, LeftAt, Bdz!ToSet, BdzPh!Graph3!ToSet, ToSet

LEMMA SameSizes ==
  ASSUME NEW S
  PROVE  /\ Bdz!Cardinality(S) = Cardinality(S) /\ BdzPh!Graph3!Cardinality(S) = Cardinality(S)
         /\ Bdz!Max(S) = Max(S) /\ BdzPh!Graph3!Max(S) = Max(S)
BY DEF Bdz!Cardinality, BdzPh!Graph3!Cardinality, Cardinality, Bdz!Max, BdzPh!Graph3!Max, Max

LEMMA DegreeIs ==
  ASSUME NEW gr, NEW v, NEW removed
  PROVE  /\ Bdz!vert_degree(gr, v, removed)
               = Cardinality(LeftAt(gr, Len(gr), v, removed)) % ByteLimit
         /\ Bdz!first_edge(gr, v, removed) = Max(LeftAt(gr, Len(gr), v, removed))
         /\ BdzPh!Graph3!vert_degree(gr, v, removed)
               = Cardinality(LeftAt(gr, Len(gr), v, removed)) % ByteLimit
         /\ BdzPh!Graph3!first_edge(gr, v, removed) = Max(LeftAt(gr, Len(gr), v, removed))
BY EdgesAtIs, SameSizes DEF Bdz!vert_degree, BdzPh!Graph3!vert_degree,
   Bdz!first_edge, BdzPh!Graph3!first_edge

LEMMA QueuesIs ==
  ASSUME NEW edges, NEW v, NEW removed
  PROVE  /\ Bdz!Queues(edges, v, removed)
               = WithLast(ByteLimit, graph, Len(graph), edges, v, removed)
         /\ BdzPh!Graph3!Queues(edges, v, removed)
               = WithLast(ByteLimit, graph, Len(graph), edges, v, removed)
BY DegreeIs DEF Bdz!Queues, BdzPh!Graph3!Queues, WithLast, Bdz!ToSet, BdzPh!Graph3!ToSet, ToSet

LEMMA ThirdIs ==
  ASSUME NEW cc \in Nat, NEW mm \in Nat PROVE Bdz!Third(cc, mm) \in Nat \ {0}
<1> DEFINE by == IF cc = 0 THEN 123 ELSE cc
           third == (by * mm + 299) \div 300
<1>1. by \in Nat
  OBVIOUS
<1> HIDE DEF by
<1>2. by * mm \in Nat
  BY <1>1
<1>3. \A a \in Nat : (a + 299) \div 300 \in Nat
  OBVIOUS
<1>4. third \in Nat
  BY <1>2, <1>3
<1>5. Bdz!Third(cc, mm) = IF third % 2 = 0 THEN third + 1 ELSE third
  BY DEF Bdz!Third, by
<1> HIDE DEF third
<1>6. third % 2 # 0 => third # 0
  BY <1>4
<1> QED BY <1>4, <1>5, <1>6

\* A key makes an edge of three vertices, one of each third.
LEMMA EdgeOfKey ==
  ASSUME NEW seed, NEW ky, seed[ky] \in Nat \X Nat \X Nat, NEW rr \in Nat \ {0},
         NEW vs, vs = Bdz!HashVector(Bdz!hash_state_new(seed), ky, rr)
  PROVE  Triple(vs, 3 * rr)
<1> DEFINE h == seed[ky]
<1>1. vs = <<h[1] % rr, (h[2] % rr) + rr, (h[3] % rr) + 2 * rr>>
  BY DEF Bdz!HashVector, Bdz!hash, Bdz!hash_state_new
<1>2. h[1] \in Nat /\ h[2] \in Nat /\ h[3] \in Nat
  OBVIOUS
<1> HIDE DEF h
<1>3. \A x \in Nat : x % rr \in 0 .. rr - 1
  OBVIOUS
<1>4. h[1] % rr \in 0 .. rr - 1 /\ h[2] % rr \in 0 .. rr - 1 /\ h[3] % rr \in 0 .. rr - 1
  BY <1>2, <1>3
<1>5. \A x \in 1 .. 3 : x = 1 \/ x = 2 \/ x = 3
  OBVIOUS
<1>6. DOMAIN vs = {1, 2, 3}
  BY <1>1
<1>7. ToSet(vs) = {vs[1], vs[2], vs[3]}
  BY <1>6 DEF ToSet
<1>8. vs[1] = h[1] % rr /\ vs[2] = (h[2] % rr) + rr /\ vs[3] = (h[3] % rr) + 2 * rr
  BY <1>1
<1>9. vs[1] \in 0 .. rr - 1 /\ vs[2] \in rr .. 2 * rr - 1 /\ vs[3] \in 2 * rr .. 3 * rr - 1
  BY <1>4, <1>8
<1>10. vs[1] # vs[2] /\ vs[1] # vs[3] /\ vs[2] # vs[3]
  BY <1>9
<1>11. \A x \in 1 .. 3 : vs[x] \in 0 .. 3 * rr - 1
  BY <1>5, <1>9
<1> QED BY <1>7, <1>10, <1>11 DEF Triple
---------------------------------------------------------------------------
(* What the client chose. *)

ChoiceInv ==
  /\ ~Beyond => algo = "chm" /\ c = 0
  /\ Beyond => algo \in {"chm"} \cup Algorithms(keys) /\ c \in GraphSizesFor(keys, algo)

LEMMA ChoiceInvInit == Init => ChoiceInv
<1> SUFFICES ASSUME Init PROVE ChoiceInv
  OBVIOUS
<1>1. pc \in {"counting", "reading"}
  BY DEF Init, Source!Init
<1> QED BY <1>1 DEF Init, ChoiceInv, Beyond

LEMMA ChoiceInvNext == ChoiceInv /\ [Next]_vars => ChoiceInv'
<1> SUFFICES ASSUME ChoiceInv, [Next]_vars PROVE ChoiceInv'
  OBVIOUS
<1>1. CASE ReadsKeys
  <2>1. /\ pc \in {"counting", "reading"} /\ pc' \in {"counting", "reading", "config"}
        /\ algo' = algo /\ c' = c
    BY <1>1, ReadsGoes
  <2>2. algo' = "chm" /\ c' = 0
    BY <2>1 DEF ChoiceInv, Beyond
  <2> QED BY <2>2 DEF ChoiceInv, GraphSizesFor
<1>2. CASE Builds \/ Uses
  <2>1. Beyond /\ Beyond' /\ algo' = algo /\ c' = c /\ keys' = keys
    BY <1>2, BuildsGoes, UsesGoes DEF Beyond
  <2> QED BY <2>1 DEF ChoiceInv, GraphSizesFor
<1>3. CASE Chooses
  <2>1. Beyond /\ Beyond' /\ keys' = keys
    BY <1>3, ChoosesGoes DEF Beyond
  <2>2. CASE cmph_config_set_algo
    BY <2>1, <2>2 DEF ChoiceInv, GraphSizesFor, cmph_config_set_algo
  <2>3. CASE cmph_config_set_graphsize
    BY <2>1, <2>3 DEF ChoiceInv, GraphSizesFor, cmph_config_set_graphsize
  <2>4. CASE ~cmph_config_set_algo /\ ~cmph_config_set_graphsize
    <3>1. algo' = algo /\ c' = c
      BY <1>3, <2>4 DEF Chooses, cmph_config_set_b, cmph_config_set_keys_per_bin,
         cmph_config_set_memory_availability, cmph_new, config
    <3> QED BY <2>1, <3>1 DEF ChoiceInv, GraphSizesFor
  <2> QED BY <2>2, <2>3, <2>4
<1>4. CASE UNCHANGED vars
  BY <1>4 DEF ChoiceInv, Beyond, GraphSizesFor, vars, config, sourceVars
<1> QED BY <1>1, <1>2, <1>3, <1>4, NextIs

---------------------------------------------------------------------------
(* The queue of BDZ and BDZ_PH, and what they assign. *)

Unset == IF algo = "bdz" THEN 3 ELSE 0
Hypergraph == algo \in {"bdz", "bdz_ph"}

GraphIs ==
  /\ Len(graph) = Len(keys) /\ Triples(graph, Len(keys), 3 * Third)

Queueing == GraphIs /\ Queued(ByteLimit, graph, Len(keys), queue, queue_tail)

\* No vertex has more edges than its byte counts.
AllCounted == Few(ByteLimit, graph, Len(keys))

Assigning ==
  /\ GraphIs /\ Len(queue) = Len(keys) /\ i \in 0 .. Len(keys)
  /\ AllCounted => /\ Peels(graph, Len(keys), queue)
                   /\ Dealt(graph, 3 * Third, queue, i, marked_vertices, g, Unset)

BdzInv ==
  Hypergraph => /\ pc = "queueing" => Queueing
                /\ pc = "assigning" => Assigning

\* The configuration while a function is built.
LEMMA Configured ==
  ASSUME KeyInv, ChoiceInv, Beyond, Hypergraph
  PROVE  /\ Len(keys) \in Nat /\ keys \in Seq(ToSet(keys)) /\ Third \in Nat \ {0}
         /\ BdzSeeds(keys, Third) \subseteq [ToSet(keys) -> Nat \X Nat \X Nat]
<1>1. keys = Contents /\ source \in Sources
  BY DEF KeyInv
<1>2. keys \in Seq(ToSet(keys)) /\ Len(keys) \in Nat
  BY <1>1, ContentsTyped, LenProperties DEF Contents
<1>3. algo \in {"bdz", "bdz_ph"} \cap Algorithms(keys) /\ c \in GraphSizesFor(keys, algo)
  BY DEF ChoiceInv, Hypergraph
<1>4. \A a \in {"bdz", "bdz_ph"} \cap Algorithms(keys) : \A size_c \in GraphSizesFor(keys, a) :
         /\ size_c \in Nat
         /\ BdzSeeds(keys, Bdz!Third(size_c, Len(keys))) \subseteq [ToSet(keys) -> Nat \X Nat \X Nat]
  BY <1>1, HashAssumption DEF Contents
<1>5. c \in Nat /\ BdzSeeds(keys, Third) \subseteq [ToSet(keys) -> Nat \X Nat \X Nat]
  BY <1>3, <1>4 DEF Third
<1>6. Third \in Nat \ {0}
  BY <1>2, <1>5, ThirdIs DEF Third
<1> QED BY <1>2, <1>5, <1>6

\* The keys make the edges.
Mapped ==
  \E seed \in BdzSeeds(keys, Third) :
    /\ graph' = [x \in 1 .. Len(keys) |-> Bdz!HashVector(Bdz!hash_state_new(seed), keys[x], Third)]
    /\ queue_tail' = 0
    /\ queue' = Ascending({d \in 0 .. Len(keys) - 1 : \E v \in ToSet(graph'[d + 1]) :
                             Cardinality(LeftAt(graph', Len(keys), v, {})) % ByteLimit = 1})

LEMMA MapsAll ==
  ASSUME KeyInv, ChoiceInv, Beyond, Hypergraph, Mapped, keys' = keys, c' = c
  PROVE  Queueing'
<1>1. /\ Len(keys) \in Nat /\ keys \in Seq(ToSet(keys)) /\ Third \in Nat \ {0}
      /\ BdzSeeds(keys, Third) \subseteq [ToSet(keys) -> Nat \X Nat \X Nat]
  BY Configured
<1>2. PICK seed \in BdzSeeds(keys, Third) :
        graph' = [x \in 1 .. Len(keys) |-> Bdz!HashVector(Bdz!hash_state_new(seed), keys[x], Third)]
  BY DEF Mapped
<1> DEFINE mm == Len(keys)
           first == {d \in 0 .. mm - 1 : \E v \in ToSet(graph'[d + 1]) :
                       Cardinality(LeftAt(graph', mm, v, {})) % ByteLimit = 1}
<1>3. queue_tail' = 0 /\ queue' = Ascending(first)
  BY DEF Mapped
<1>4. seed \in [ToSet(keys) -> Nat \X Nat \X Nat]
  BY <1>1, <1>2
<1>5. Len(graph') = mm
  <2> DEFINE S == {graph'[x] : x \in 1 .. mm}
  <2>1. graph' \in Seq(S)
    <3>1. graph' \in [1 .. mm -> S] /\ mm \in Nat
      BY <1>1, <1>2
    <3> HIDE DEF mm, S
    <3> QED BY <3>1, IsASeq
  <2>2. DOMAIN graph' = 1 .. mm
    BY <1>2
  <2>3. Len(graph') \in Nat /\ DOMAIN graph' = 1 .. Len(graph')
    BY <2>1, LenProperties
  <2> HIDE DEF mm, S
  <2>4. \A x \in Nat : \A y \in Nat : 1 .. x = 1 .. y => x = y
    <3> SUFFICES ASSUME NEW x \in Nat, NEW y \in Nat, 1 .. x = 1 .. y PROVE x = y
      OBVIOUS
    <3>1. x # 0 => x \in 1 .. y
      OBVIOUS
    <3>2. y # 0 => y \in 1 .. x
      OBVIOUS
    <3> QED BY <3>1, <3>2
  <2>5. mm \in Nat
    BY <1>1 DEF mm
  <2> QED BY <2>2, <2>3, <2>4, <2>5
<1>6. Triples(graph', mm, 3 * Third)
  <2>1. SUFFICES ASSUME NEW d \in 0 .. mm - 1, NEW vs, vs = graph'[d + 1]
                 PROVE  Triple(vs, 3 * Third)
    BY DEF Triples
  <2>2. d + 1 \in 1 .. Len(keys)
    BY <1>1
  <2>3. vs = Bdz!HashVector(Bdz!hash_state_new(seed), keys[d + 1], Third)
    BY <1>2, <2>1, <2>2
  <2>4. keys[d + 1] \in ToSet(keys)
    BY <1>1, <2>2, SeqElements
  <2> DEFINE ky == keys[d + 1]
             rr == Third
  <2>5. seed[ky] \in Nat \X Nat \X Nat /\ rr \in Nat \ {0}
    BY <1>1, <1>4, <2>4
  <2>6. vs = Bdz!HashVector(Bdz!hash_state_new(seed), ky, rr)
    BY <2>3
  <2> HIDE DEF ky, rr
  <2>7. Triple(vs, 3 * rr)
    BY <2>5, <2>6, EdgeOfKey
  <2> QED BY <2>7 DEF rr
<1> HIDE DEF mm
<1>7. mm \in Nat
  BY <1>1 DEF mm
<1>8. Queued(ByteLimit, graph', mm, queue', queue_tail')
  BY <1>3, <1>7, ByteAssumption, FirstQueue
<1>9. Third' = Third
  BY DEF Third, Bdz!Third
<1> QED BY <1>5, <1>6, <1>8, <1>9 DEF Queueing, GraphIs, mm

\* The edge at the front of the queue is removed.
Removes ==
  /\ queue_tail < Len(queue) /\ queue_tail' = queue_tail + 1 /\ graph' = graph
  /\ queue' = AfterNext(ByteLimit, graph, Len(graph), queue, queue_tail)

LEMMA RemovesOne ==
  ASSUME KeyInv, ChoiceInv, Beyond, Hypergraph, Queueing, Removes, keys' = keys, c' = c
  PROVE  Queueing'
<1> DEFINE mm == Len(keys)
           nn == 3 * Third
<1>1. mm \in Nat
  BY Configured
<1>2. Triples(graph, mm, nn) /\ Len(graph) = mm
      /\ Queued(ByteLimit, graph, mm, queue, queue_tail)
  BY DEF Queueing, GraphIs
<1>3. /\ queue_tail < Len(queue) /\ queue_tail' = queue_tail + 1 /\ graph' = graph
      /\ queue' = AfterNext(ByteLimit, graph, mm, queue, queue_tail)
  BY <1>2 DEF Removes
<1>4. Third' = Third /\ Len(keys') = mm
  BY DEF Third, Bdz!Third
<1> HIDE DEF mm, nn
<1>5. Queued(ByteLimit, graph, mm, queue', queue_tail')
  BY <1>1, <1>2, <1>3, ByteAssumption, RemovesNext
<1> QED BY <1>2, <1>3, <1>4, <1>5 DEF Queueing, GraphIs, mm, nn

\* All the edges have been queued.
Starts ==
  /\ queue_tail = Len(queue) /\ Len(queue) = Len(keys) /\ i' = Len(queue) /\ marked_vertices' = {}
  /\ g' = [v \in 0 .. 3 * Third - 1 |-> Unset]
  /\ graph' = graph /\ queue' = queue

LEMMA StartsToAssign ==
  ASSUME KeyInv, ChoiceInv, Beyond, Hypergraph, Queueing, Starts, UNCHANGED <<keys, algo, c>>
  PROVE  Assigning'
<1>1. Len(keys) \in Nat
  BY Configured
<1>2. Third' = Third /\ Unset' = Unset
  BY DEF Third, Bdz!Third, Unset
<1>3. GraphIs' /\ (AllCounted' => Peels(graph', Len(keys'), queue'))
  BY <1>2 DEF Starts, Queueing, GraphIs, Queued, AllCounted
<1>4. i' \in 0 .. Len(keys') /\ Len(queue') = Len(keys')
  BY <1>1 DEF Starts
<1>5. Dealt(graph', 3 * Third', queue', i', marked_vertices', g', Unset')
  <2> DEFINE nn == 3 * Third
  <2>1. i' + 1 .. Len(queue') = {}
    BY <1>1 DEF Starts
  <2>2. g' = [v \in 0 .. nn - 1 |-> Unset] /\ Unset \in 0 .. 3 /\ marked_vertices' = {}
    BY DEF Starts, Unset
  <2> HIDE DEF nn
  <2>3. Dealt(graph', nn, queue', i', marked_vertices', g', Unset)
    BY <2>1, <2>2 DEF Dealt
  <2> QED BY <1>2, <2>3 DEF nn
<1> QED BY <1>3, <1>4, <1>5 DEF Assigning

\* The last of the edges that are left gets its vertex.
Assigns ==
  LET vs == graph[queue[i] + 1]
      ch == Free(vs, marked_vertices)
      p == ToPoint(g, vs, ch)
  IN  /\ i > 0 /\ i' = i - 1
      /\ vs[ch] \in 0 .. 3 * Third - 1 /\ g[vs[ch]] = Unset /\ p \in 0 .. 2 =>
           g' = [g EXCEPT ![vs[ch]] = p]
      /\ marked_vertices' = marked_vertices \cup {vs[x] : x \in ch .. 3}
      /\ graph' = graph /\ queue' = queue

LEMMA AssignsOne ==
  ASSUME KeyInv, ChoiceInv, Beyond, Hypergraph, Assigning, Assigns, UNCHANGED <<keys, algo, c>>
  PROVE  Assigning'
<1> DEFINE mm == Len(keys)
           nn == 3 * Third
           unset == Unset
<1>1. mm \in Nat /\ nn \in Nat /\ unset \in {0, 3}
  BY Configured DEF Unset
<1>2. /\ Triples(graph, mm, nn) /\ Len(queue) = mm /\ i \in 0 .. mm
      /\ AllCounted => /\ Peels(graph, mm, queue)
                       /\ Dealt(graph, nn, queue, i, marked_vertices, g, unset)
  BY DEF Assigning, GraphIs
<1>3. i > 0 /\ i' = i - 1 /\ graph' = graph /\ queue' = queue
  BY DEF Assigns
<1>4. i \in 1 .. Len(queue) /\ i - 1 \in 0 .. mm
  <2> HIDE DEF mm
  <2> QED BY <1>1, <1>2, <1>3
<1>5. AllCounted => Deals(graph, nn, queue, i, marked_vertices, g, unset)
  <2> HIDE DEF mm, nn, unset
  <2> QED BY <1>1, <1>2, <1>4, DealsEdge
<1>6. ASSUME AllCounted PROVE Dealt(graph, nn, queue, i - 1, marked_vertices', g', unset)
  <2> DEFINE vs == graph[queue[i] + 1]
             ch == Free(vs, marked_vertices)
             p == ToPoint(g, vs, ch)
  <2>1. /\ vs[ch] \in 0 .. nn - 1 /\ g[vs[ch]] = unset /\ p \in 0 .. 2
        /\ Dealt(graph, nn, queue, i - 1, marked_vertices \cup {vs[x] : x \in ch .. 3},
                 [g EXCEPT ![vs[ch]] = p], unset)
    BY <1>5, <1>6 DEF Deals
  <2>2. /\ vs[ch] \in 0 .. nn - 1 /\ g[vs[ch]] = unset /\ p \in 0 .. 2 =>
             g' = [g EXCEPT ![vs[ch]] = p]
        /\ marked_vertices' = marked_vertices \cup {vs[x] : x \in ch .. 3}
    BY DEF Assigns
  <2> HIDE DEF vs, ch, p, nn, unset
  <2> QED BY <2>1, <2>2
<1>7. Third' = Third /\ Unset' = Unset
  BY DEF Third, Bdz!Third, Unset
<1>8. /\ GraphIs' /\ Len(queue') = Len(keys') /\ (AllCounted' <=> AllCounted)
      /\ AllCounted => Peels(graph', Len(keys'), queue')
  BY <1>3, <1>7 DEF Assigning, GraphIs, AllCounted
<1>9. i' \in 0 .. Len(keys')
  BY <1>3, <1>4
<1>10. AllCounted => Dealt(graph', 3 * Third', queue', i', marked_vertices', g', Unset')
  BY <1>3, <1>6, <1>7
<1> QED BY <1>8, <1>9, <1>10 DEF Assigning

\* The steps of the two algorithms are those.
Edges(seed) == [x \in 1 .. Len(keys) |-> Bdz!HashVector(Bdz!hash_state_new(seed), keys[x], Third)]
Own(gr) == {d \in 0 .. Len(keys) - 1 : \E v \in ToSet(gr[d + 1]) :
              Cardinality(LeftAt(gr, Len(keys), v, {})) % ByteLimit = 1}

LEMMA EdgesTyped ==
  ASSUME NEW seed, Len(keys) \in Nat PROVE Len(Edges(seed)) = Len(keys)
<1> DEFINE gr == Edges(seed)
           mm == Len(keys)
           S == {gr[x] : x \in 1 .. mm}
<1>1. gr \in [1 .. mm -> S] /\ mm \in Nat
  BY DEF Edges
<1> HIDE DEF gr, mm, S
<1>2. gr \in Seq(S)
  BY <1>1, IsASeq
<1>3. Len(gr) = mm
  BY <1>1, <1>2, LenProperties
<1> QED BY <1>3 DEF gr, mm

LEMMA BdzMaps ==
  ASSUME Bdz!bdz_mapping, Len(keys) \in Nat PROVE Mapped
<1> DEFINE Own1(gr) == {d \in 0 .. Bdz!m - 1 : \E v \in Bdz!ToSet(gr[d + 1]) : Bdz!vert_degree(gr, v, {}) = 1}
           Edges1(seed) == [x \in 1 .. Bdz!m |-> Bdz!HashVector(Bdz!hash_state_new(seed), keys[x], Bdz!r)]
<1>1. PICK seed \in BdzSeeds(keys, Bdz!r) :
        graph' = Edges1(seed) /\ queue_tail' = 0 /\ queue' = Bdz!Ascending(Own1(Edges1(seed)))
  BY DEF Bdz!bdz_mapping
<1>2. Edges1(seed) = Edges(seed) /\ seed \in BdzSeeds(keys, Third)
  BY <1>1, SameGraph DEF Edges
<1>3. ASSUME NEW gr, Len(gr) = Len(keys) PROVE Own1(gr) = Own(gr)
  <2>1. \A v : Bdz!vert_degree(gr, v, {}) = Cardinality(LeftAt(gr, Len(keys), v, {})) % ByteLimit
    BY <1>3, DegreeIs
  <2>2. \A vs : Bdz!ToSet(vs) = ToSet(vs)
    BY DEF Bdz!ToSet, ToSet
  <2> QED BY <2>1, <2>2, SameGraph DEF Own
<1> HIDE DEF Own1, Edges1
<1>4. queue' = Ascending(Own(graph'))
  BY <1>1, <1>2, <1>3, EdgesTyped, SameAscending
<1> QED BY <1>1, <1>2, <1>4 DEF Mapped, Edges, Own

LEMMA BdzPhMaps ==
  ASSUME BdzPh!bdz_ph_mapping, Len(keys) \in Nat PROVE Mapped
<1> DEFINE Own1(gr) == {d \in 0 .. BdzPh!Graph3!m - 1 : \E v \in BdzPh!Graph3!ToSet(gr[d + 1]) :
                          BdzPh!Graph3!vert_degree(gr, v, {}) = 1}
           Edges1(seed) == [x \in 1 .. BdzPh!Graph3!m |->
             BdzPh!Graph3!HashVector(BdzPh!Graph3!hash_state_new(seed), keys[x], BdzPh!Graph3!r)]
<1>1. PICK seed \in BdzSeeds(keys, BdzPh!Graph3!r) :
        graph' = Edges1(seed) /\ queue_tail' = 0
        /\ queue' = BdzPh!Graph3!Ascending(Own1(Edges1(seed)))
  BY DEF BdzPh!bdz_ph_mapping, BdzPh!Graph3!bdz_mapping
<1>2. Edges1(seed) = Edges(seed) /\ seed \in BdzSeeds(keys, Third)
  <2>1. \A sd, ky, rr : BdzPh!Graph3!HashVector(BdzPh!Graph3!hash_state_new(sd), ky, rr)
                          = Bdz!HashVector(Bdz!hash_state_new(sd), ky, rr)
    BY DEF BdzPh!Graph3!HashVector, BdzPh!Graph3!hash_state_new, BdzPh!Graph3!hash,
       Bdz!HashVector, Bdz!hash_state_new, Bdz!hash,
       BdzPh!Graph3!CMPH_HASH_JENKINS, Bdz!CMPH_HASH_JENKINS
  <2> QED BY <1>1, <2>1, SameGraph DEF Edges
<1>3. ASSUME NEW gr, Len(gr) = Len(keys) PROVE Own1(gr) = Own(gr)
  <2>1. \A v : BdzPh!Graph3!vert_degree(gr, v, {}) = Cardinality(LeftAt(gr, Len(keys), v, {})) % ByteLimit
    BY <1>3, DegreeIs
  <2>2. \A vs : BdzPh!Graph3!ToSet(vs) = ToSet(vs)
    BY DEF BdzPh!Graph3!ToSet, ToSet
  <2> QED BY <2>1, <2>2, SameGraph DEF Own
<1> HIDE DEF Own1, Edges1
<1>4. queue' = Ascending(Own(graph'))
  BY <1>1, <1>2, <1>3, EdgesTyped, SameAscending
<1> QED BY <1>1, <1>2, <1>4 DEF Mapped, Edges, Own

LEMMA BdzRemoves ==
  ASSUME Bdz!bdz_remove_edge \/ BdzPh!bdz_ph_remove_edge PROVE Removes
<1> DEFINE vs == graph[queue[queue_tail + 1] + 1]
           more == Taken(queue, queue_tail) \cup {queue[queue_tail + 1]}
           one == WithLast(ByteLimit, graph, Len(graph), queue, vs[1], more)
           two == WithLast(ByteLimit, graph, Len(graph), one, vs[2], more)
<1>1. AfterNext(ByteLimit, graph, Len(graph), queue, queue_tail)
        = WithLast(ByteLimit, graph, Len(graph), two, vs[3], more)
  BY DEF AfterNext
<1>2. CASE Bdz!bdz_remove_edge
  <2>1. Bdz!Removed \cup {queue[queue_tail + 1]} = more
    BY DEF Bdz!Removed, Taken
  <2>2. Bdz!Freed(queue[queue_tail + 1])
          = Bdz!Queues(Bdz!Queues(Bdz!Queues(queue, vs[1], more), vs[2], more), vs[3], more)
    BY <2>1 DEF Bdz!Freed
  <2>3. Bdz!Freed(queue[queue_tail + 1]) = WithLast(ByteLimit, graph, Len(graph), two, vs[3], more)
    <3> HIDE DEF vs, more
    <3> QED BY <2>2, QueuesIs
  <2> QED BY <1>1, <1>2, <2>3 DEF Bdz!bdz_remove_edge, Removes
<1>3. CASE BdzPh!bdz_ph_remove_edge
  <2>1. BdzPh!Graph3!Removed \cup {queue[queue_tail + 1]} = more
    BY DEF BdzPh!Graph3!Removed, Taken
  <2>2. BdzPh!Graph3!Freed(queue[queue_tail + 1])
          = BdzPh!Graph3!Queues(BdzPh!Graph3!Queues(BdzPh!Graph3!Queues(queue, vs[1], more),
                                                    vs[2], more), vs[3], more)
    BY <2>1 DEF BdzPh!Graph3!Freed
  <2>3. BdzPh!Graph3!Freed(queue[queue_tail + 1]) = WithLast(ByteLimit, graph, Len(graph), two, vs[3], more)
    <3> HIDE DEF vs, more
    <3> QED BY <2>2, QueuesIs
  <2> QED BY <1>1, <1>3, <2>3 DEF BdzPh!bdz_ph_remove_edge, BdzPh!Graph3!bdz_remove_edge, Removes
<1> QED BY <1>2, <1>3

LEMMA BdzStarts ==
  ASSUME \/ Bdz!QueueEnds /\ algo = "bdz"
         \/ BdzPh!QueueEnds /\ algo = "bdz_ph"
  PROVE  (Starts /\ pc' = "assigning") \/ pc' \in {"mapping", "failed"}
<1>1. CASE Bdz!QueueEnds /\ algo = "bdz"
  <2>1. CASE Bdz!Emptied
    BY <1>1, <2>1, SameGraph DEF Bdz!QueueEnds, Starts, Unset, Bdz!Emptied
  <2>2. CASE ~Bdz!Emptied
    BY <1>1, <2>2 DEF Bdz!QueueEnds
  <2> QED BY <2>1, <2>2
<1>2. CASE BdzPh!QueueEnds /\ algo = "bdz_ph"
  <2>1. CASE BdzPh!Graph3!Emptied
    BY <1>2, <2>1, SameGraph DEF BdzPh!QueueEnds, Starts, Unset, BdzPh!Graph3!Emptied
  <2>2. CASE ~BdzPh!Graph3!Emptied
    BY <1>2, <2>2 DEF BdzPh!QueueEnds
  <2> QED BY <2>1, <2>2
<1> QED BY <1>1, <1>2

\* Writing two bits where none is cleared, or none set, gives the value.
LEMMA ValueIsSet ==
  ASSUME NEW p \in 0 .. 2 PROVE Bdz!SETVALUE1(3, p) = p /\ BdzPh!SETVALUE0(0, p) = p
<1>1. p = 0 \/ p = 1 \/ p = 2
  OBVIOUS
<1> QED BY <1>1 DEF Bdz!SETVALUE1, BdzPh!SETVALUE0

LEMMA BdzAssigns ==
  ASSUME \/ Bdz!assigning /\ algo = "bdz"
         \/ BdzPh!assigning /\ algo = "bdz_ph"
  PROVE  Assigns
<1> DEFINE vs == graph[queue[i] + 1]
           ch == Free(vs, marked_vertices)
           p == ToPoint(g, vs, ch)
<1>1. CASE Bdz!assigning /\ algo = "bdz"
  <2>1. Bdz!Chosen(queue[i]) = ch
    BY DEF Bdz!Chosen, Free, Bdz!Min, Min
  <2>2. Bdz!Pointer(queue[i]) = p /\ Bdz!Marks(queue[i]) = {vs[x] : x \in ch .. 3}
    BY <2>1 DEF Bdz!Pointer, Bdz!Marks, ToPoint
  <2>3. /\ g' = [g EXCEPT ![vs[ch]] = Bdz!SETVALUE1(g[vs[ch]], p)]
        /\ marked_vertices' = marked_vertices \cup {vs[x] : x \in ch .. 3}
        /\ i > 0 /\ i' = i - 1 /\ graph' = graph /\ queue' = queue
    BY <1>1, <2>1, <2>2 DEF Bdz!assigning
  <2>4. Unset = 3
    BY <1>1 DEF Unset
  <2> HIDE DEF vs, ch, p
  <2>5. g[vs[ch]] = Unset /\ p \in 0 .. 2 => Bdz!SETVALUE1(g[vs[ch]], p) = p
    BY <2>4, ValueIsSet
  <2> QED BY <2>3, <2>5 DEF Assigns, vs, ch, p
<1>2. CASE BdzPh!assigning /\ algo = "bdz_ph"
  <2>1. BdzPh!Graph3!Chosen(queue[i]) = ch
    BY DEF BdzPh!Graph3!Chosen, Free, BdzPh!Graph3!Min, Min
  <2>2. BdzPh!Graph3!Pointer(queue[i]) = p /\ BdzPh!Graph3!Marks(queue[i]) = {vs[x] : x \in ch .. 3}
    BY <2>1 DEF BdzPh!Graph3!Pointer, BdzPh!Graph3!Marks, ToPoint
  <2>3. /\ g' = [g EXCEPT ![vs[ch]] = BdzPh!SETVALUE0(g[vs[ch]], p)]
        /\ marked_vertices' = marked_vertices \cup {vs[x] : x \in ch .. 3}
        /\ i > 0 /\ i' = i - 1 /\ graph' = graph /\ queue' = queue
    BY <1>2, <2>1, <2>2 DEF BdzPh!assigning
  <2>4. Unset = 0
    BY <1>2 DEF Unset
  <2> HIDE DEF vs, ch, p
  <2>5. g[vs[ch]] = Unset /\ p \in 0 .. 2 => BdzPh!SETVALUE0(g[vs[ch]], p) = p
    BY <2>4, ValueIsSet
  <2> QED BY <2>3, <2>5 DEF Assigns, vs, ch, p
<1> QED BY <1>1, <1>2

LEMMA BdzGoesOn ==
  ASSUME KeyInv, ChoiceInv, BdzInv, Builds, Hypergraph PROVE BdzInv'
<1>1. Beyond /\ UNCHANGED <<keys, algo, c>> /\ Len(keys) \in Nat
  BY BuildsGoes, Configured
<1>2. Hypergraph' <=> Hypergraph
  BY <1>1 DEF Hypergraph
<1>3. (algo = "bdz" /\ Bdz!bdz_new) \/ (algo = "bdz_ph" /\ BdzPh!bdz_ph_new)
  BY DEF Builds, Hypergraph
<1>4. CASE Bdz!bdz_mapping \/ BdzPh!bdz_ph_mapping
  <2>1. Mapped
    BY <1>1, <1>4, BdzMaps, BdzPhMaps
  <2>2. pc' = "queueing"
    BY <1>4 DEF Bdz!bdz_mapping, BdzPh!bdz_ph_mapping, BdzPh!Graph3!bdz_mapping
  <2>3. Queueing'
    BY <1>1, <2>1, MapsAll
  <2> QED BY <2>2, <2>3 DEF BdzInv
<1>5. CASE Bdz!bdz_remove_edge \/ BdzPh!bdz_ph_remove_edge
  <2>1. Removes
    BY <1>5, BdzRemoves
  <2>2. pc = "queueing" /\ pc' = "queueing"
    BY <1>5 DEF Bdz!bdz_remove_edge, BdzPh!bdz_ph_remove_edge, BdzPh!Graph3!bdz_remove_edge
  <2>3. Queueing'
    BY <1>1, <2>1, <2>2, RemovesOne DEF BdzInv
  <2> QED BY <2>2, <2>3 DEF BdzInv
<1>6. CASE (Bdz!QueueEnds /\ algo = "bdz") \/ (BdzPh!QueueEnds /\ algo = "bdz_ph")
  <2>1. (Starts /\ pc' = "assigning") \/ pc' \in {"mapping", "failed"}
    BY <1>6, BdzStarts
  <2>2. pc = "queueing"
    BY <1>6 DEF Bdz!QueueEnds, BdzPh!QueueEnds
  <2>3. Starts => Assigning'
    BY <1>1, <2>2, StartsToAssign DEF BdzInv
  <2> QED BY <2>1, <2>3 DEF BdzInv
<1>7. CASE (Bdz!assigning /\ algo = "bdz") \/ (BdzPh!assigning /\ algo = "bdz_ph")
  <2>1. Assigns
    BY <1>7, BdzAssigns
  <2>2. pc = "assigning" /\ pc' = "assigning"
    BY <1>7 DEF Bdz!assigning, BdzPh!assigning
  <2>3. Assigning'
    BY <1>1, <2>1, <2>2, AssignsOne DEF BdzInv
  <2> QED BY <2>2, <2>3 DEF BdzInv
<1>8. CASE Bdz!Called \/ Bdz!ranking \/ BdzPh!Called \/ BdzPh!Finish
  <2>1. pc' \in {"mapping", "done"}
    BY <1>8 DEF Bdz!Called, Bdz!ranking, BdzPh!Called, BdzPh!Graph3!Called, BdzPh!Finish
  <2> QED BY <2>1 DEF BdzInv
<1> QED BY <1>3, <1>4, <1>5, <1>6, <1>7, <1>8 DEF Bdz!bdz_new, BdzPh!bdz_ph_new

LEMMA BdzInvNext ==
  ASSUME KeyInv, ChoiceInv, BdzInv, [Next]_vars PROVE BdzInv'
<1>1. CASE ReadsKeys \/ Chooses \/ Uses
  <2>1. pc' \notin {"queueing", "assigning"}
    BY <1>1, ReadsGoes, ChoosesGoes, UsesGoes
  <2> QED BY <2>1 DEF BdzInv
<1>2. CASE Builds
  <2>1. Hypergraph' <=> Hypergraph
    BY <1>2, BuildsGoes DEF Hypergraph
  <2>2. ~Hypergraph => BdzInv'
    BY <2>1 DEF BdzInv
  <2> QED BY <1>2, <2>2, BdzGoesOn
<1>3. CASE UNCHANGED vars
  <2>1. UNCHANGED <<keys, algo, c, pc, graph, queue, queue_tail, i, marked_vertices, g>>
    BY <1>3 DEF vars, sourceVars, config, work, graphVars, bdzVars
  <2>2. Third' = Third /\ Unset' = Unset /\ (Hypergraph' <=> Hypergraph)
    BY <2>1 DEF Third, Bdz!Third, Unset, Hypergraph
  <2>3. (GraphIs' <=> GraphIs) /\ (Queueing' <=> Queueing) /\ (Assigning' <=> Assigning)
    BY <2>1, <2>2 DEF GraphIs, Queueing, Assigning, AllCounted
  <2> QED BY <2>1, <2>2, <2>3 DEF BdzInv
<1> QED BY <1>1, <1>2, <1>3, NextIs

LEMMA BdzInvInit == Init => BdzInv
<1> SUFFICES ASSUME Init PROVE BdzInv
  OBVIOUS
<1>1. pc \in {"counting", "reading"}
  BY DEF Init, Source!Init
<1> QED BY <1>1 DEF BdzInv

\* BDZ and BDZ_PH, for every source and every hash function: the queue takes
\* an edge once, and when it is at its end the edges it did not take cannot
\* be peeled, for each of their vertices is one of another of them.
THEOREM QueueTakesWhatIsPeeled == Spec => []TakesWhatIsPeeled
<1>1. ASSUME KeyInv, ChoiceInv, BdzInv PROVE TakesWhatIsPeeled
  <2> DEFINE left == 0 .. Bdz!m - 1 \ Bdz!ToSet(queue)
  <2>1. SUFFICES ASSUME Hypergraph, pc = "queueing", queue_tail = Len(queue)
                 PROVE  /\ Bdz!IsInjective(queue)
                        /\ \A e1 \in left : \A v \in Bdz!ToSet(graph[e1 + 1]) :
                             \E d \in left \ {e1} : v \in Bdz!ToSet(graph[d + 1])
    BY DEF TakesWhatIsPeeled, Bdz!TakesWhatIsPeeled, Hypergraph
  <2>0. left = 0 .. Len(keys) - 1 \ ToSet(queue) /\ \A x : Bdz!ToSet(graph[x]) = ToSet(graph[x])
    BY SameGraph DEF Bdz!ToSet, ToSet
  <2> HIDE DEF left
  <2>2. Once(Len(keys), queue) /\ Complete(graph, Len(keys), queue, Taken(queue, Len(queue)))
    BY <1>1, <2>1 DEF BdzInv, Queueing, Queued
  <2>3. queue \in Seq(0 .. Len(keys) - 1)
    BY <2>2 DEF Once
  <2>4. Bdz!IsInjective(queue)
    <3>1. DOMAIN queue = 1 .. Len(queue)
      BY <2>3, LenProperties
    <3> QED BY <2>2, <3>1 DEF Once, Bdz!IsInjective
  <2>5. Taken(queue, Len(queue)) = ToSet(queue)
    <3>1. \A y \in ToSet(queue) : \E x \in 1 .. Len(queue) : queue[x] = y
      BY <2>3, SeqElements
    <3>2. \A x \in 1 .. Len(queue) : queue[x] \in ToSet(queue)
      BY <2>3, SeqElements
    <3> QED BY <3>1, <3>2 DEF Taken
  <2>6. ASSUME NEW e1 \in left, NEW v \in Bdz!ToSet(graph[e1 + 1])
        PROVE  \E d \in left \ {e1} : v \in Bdz!ToSet(graph[d + 1])
    <3>1. e1 \in 0 .. Len(keys) - 1 /\ e1 \notin ToSet(queue) /\ v \in ToSet(graph[e1 + 1])
      BY <2>0, <2>6
    <3>2. Shared(graph, Len(keys), e1, v, ToSet(queue))
      BY <2>2, <2>5, <3>1 DEF Complete
    <3>3. PICK d \in (0 .. Len(keys) - 1 \ ToSet(queue)) \ {e1} : v \in ToSet(graph[d + 1])
      BY <3>2 DEF Shared
    <3>4. d \in left \ {e1} /\ v \in Bdz!ToSet(graph[d + 1])
      BY <2>0, <3>3
    <3> QED BY <3>4
  <2> QED BY <2>4, <2>6
<1>2. Init => KeyInv /\ ChoiceInv /\ BdzInv
  BY KeyInvInit, ChoiceInvInit, BdzInvInit
<1>3. KeyInv /\ ChoiceInv /\ BdzInv /\ [Next]_vars => KeyInv' /\ ChoiceInv' /\ BdzInv'
  BY KeyInvNext, ChoiceInvNext, BdzInvNext
<1> QED BY <1>1, <1>2, <1>3, PTL DEF Spec

\* A graph with no overfull vertex.
LEMMA CountedIs ==
  ASSUME KeyInv, ChoiceInv, Beyond, Hypergraph, GraphIs,
         ~Bdz!Overfull(graph) \/ ~BdzPh!Graph3!Overfull(graph)
  PROVE  AllCounted
<1> DEFINE mm == Len(keys)
           nn == 3 * Third
<1>1. mm \in Nat /\ Len(graph) = mm /\ Triples(graph, mm, nn)
  BY Configured DEF GraphIs
<1>2. ASSUME NEW v \in 0 .. nn - 1 PROVE Cardinality(LeftAt(graph, mm, v, {})) <= ByteLimit
  <2> DEFINE degree == Cardinality(LeftAt(graph, mm, v, {}))
  <2>1. /\ Bdz!Cardinality(Bdz!EdgesAt(graph, v, {})) = degree
        /\ BdzPh!Graph3!Cardinality(BdzPh!Graph3!EdgesAt(graph, v, {})) = degree
    BY <1>1, EdgesAtIs, SameSizes
  <2>2. v \in Bdz!Vertices /\ v \in BdzPh!Graph3!Vertices
    BY SameGraph DEF BdzPh!Vertices, BdzPh!Graph3!Vertices, BdzPh!n
  <2> HIDE DEF degree
  <2>3. ~(degree > ByteLimit)
    BY <2>1, <2>2 DEF Bdz!Overfull, BdzPh!Graph3!Overfull
  <2>4. degree \in Nat
    <3>1. LeftAt(graph, mm, v, {}) \in SUBSET (0 .. mm - 1) /\ 0 \in Int /\ mm - 1 \in Int
      BY <1>1 DEF LeftAt
    <3>2. IsFiniteSet(0 .. mm - 1)
      BY <3>1, FS_Interval
    <3> QED BY <3>1, <3>2, FS_Subset, FS_CardinalityType DEF degree
  <2>5. degree <= ByteLimit
    BY <2>3, <2>4, ByteAssumption
  <2> QED BY <2>5 DEF degree
<1> HIDE DEF mm, nn
<1>3. ASSUME NEW v, v \notin 0 .. nn - 1 PROVE Cardinality(LeftAt(graph, mm, v, {})) <= ByteLimit
  <2>1. ASSUME NEW d \in 0 .. mm - 1 PROVE v \notin ToSet(graph[d + 1])
    <3> DEFINE vs == graph[d + 1]
    <3>1. Triple(vs, nn)
      BY <1>1 DEF Triples
    <3> HIDE DEF vs
    <3>2. ToSet(vs) = {vs[1], vs[2], vs[3]} /\ 1 \in 1 .. 3 /\ 2 \in 1 .. 3 /\ 3 \in 1 .. 3
          /\ \A x \in 1 .. 3 : vs[x] \in 0 .. nn - 1
      BY <3>1 DEF Triple
    <3> QED BY <1>3, <3>2 DEF vs
  <2>2. LeftAt(graph, mm, v, {}) = {}
    BY <2>1 DEF LeftAt
  <2> QED BY <2>2, FS_EmptySet, ByteAssumption
<1> QED BY <1>2, <1>3 DEF AllCounted, Few, mm

\* BDZ and BDZ_PH, for every source and every hash function under which no
\* vertex has more edges than a byte counts: the edges that were dealt with
\* point at marked vertices, no two at the same one, and for BDZ these are
\* the ones that count for the ranks.
THEOREM EdgesHaveOwnVertices == Spec => []OwnVertices
<1>1. ASSUME KeyInv, ChoiceInv, BdzInv PROVE OwnVertices
  <2>1. ASSUME Hypergraph, pc = "assigning",
               ~Bdz!Overfull(graph) \/ ~BdzPh!Graph3!Overfull(graph)
        PROVE  LET dealt == {queue[x] : x \in i + 1 .. Len(queue)}
               IN  /\ \A e1 \in dealt : /\ Pointed(g, graph[e1 + 1]) \in marked_vertices
                                        /\ g[Pointed(g, graph[e1 + 1])] # 3
                   /\ \A d1, e1 \in dealt :
                        Pointed(g, graph[d1 + 1]) = Pointed(g, graph[e1 + 1]) => d1 = e1
    <3> DEFINE nn == 3 * Third
               mm == Len(keys)
    <3>0. AllCounted
      BY <1>1, <2>1, CountedIs DEF BdzInv, Assigning, Beyond
    <3>1. /\ Triples(graph, mm, nn) /\ Peels(graph, mm, queue) /\ i \in 0 .. mm
          /\ Len(queue) = mm /\ Dealt(graph, nn, queue, i, marked_vertices, g, Unset)
      BY <1>1, <2>1, <3>0 DEF BdzInv, Assigning, GraphIs
    <3>2. mm \in Nat /\ nn \in Nat
      BY <1>1, <2>1, Configured DEF Beyond
    <3> HIDE DEF mm, nn
    <3> QED BY <3>1, <3>2, PointsAtMarked
  <2>2. \A gs, hs : Bdz!Vertex(gs, hs) = Pointed(gs, hs) /\ BdzPh!Graph3!Vertex(gs, hs) = Pointed(gs, hs)
    BY DEF Bdz!Vertex, BdzPh!Graph3!Vertex, Pointed
  <2>3. algo = "bdz" => Bdz!OwnVertices
    BY <2>1, <2>2, SameGraph DEF Bdz!OwnVertices, Hypergraph
  <2>4. algo = "bdz_ph" => BdzPh!Graph3!OwnVertices
    BY <2>1, <2>2, SameGraph DEF BdzPh!Graph3!OwnVertices, Hypergraph
  <2> QED BY <2>3, <2>4 DEF OwnVertices
<1>2. Init => KeyInv /\ ChoiceInv /\ BdzInv
  BY KeyInvInit, ChoiceInvInit, BdzInvInit
<1>3. KeyInv /\ ChoiceInv /\ BdzInv /\ [Next]_vars => KeyInv' /\ ChoiceInv' /\ BdzInv'
  BY KeyInvNext, ChoiceInvNext, BdzInvNext
<1> QED BY <1>1, <1>2, <1>3, PTL DEF Spec
---------------------------------------------------------------------------
(* The tables of FCH.                                                      *)

LEMMA SameInFch ==
  ASSUME NEW x
  PROVE  /\ Fch!ToSet(x) = ToSet(x) /\ (Fch!IsInjective(x) <=> IsInjective(x))
         /\ Fch!FlattenSeq(x) = FlattenSeq(x) /\ Fch!Cardinality(x) = Cardinality(x)
         /\ Fch!m = Len(keys)
BY DEF Fch!ToSet, ToSet, Fch!IsInjective, IsInjective, Fch!FlattenSeq, FlattenSeq,
       Fch!Cardinality, Cardinality, Fch!m

\* The number of buckets, the bucket of each key and the values of h2.
Bucketed == Fch!b
Where == [y \in 1 .. Len(keys) |->
            Fch!mixh10h11h12(Fch!b, Fch!p1, Fch!p2, Fch!hash(h1, keys[y]) % Len(keys))]
Hashed == [ky \in ToSet(keys) |-> Fch!H(ky)]

InBuckets ==
  /\ Orders(sorted_indexes, Bucketed)
  /\ \A x \in 0 .. Bucketed - 1 : /\ buckets[x] \in Seq(ToSet(keys))
                                  /\ Len(buckets[x]) = Cardinality(KeysOf(Where, Len(keys), x))
  /\ Inverses(random_table, map_table, Len(keys)) /\ g \in [0 .. Bucketed - 1 -> Int]

Placing ==
  /\ Hashed \in [ToSet(keys) -> Nat] /\ counter = j
  /\ Placed(Len(keys), Bucketed, Where, buckets, sorted_indexes, Hashed, random_table, map_table, g,
            filled_count, i, z, j)

FchInv ==
  algo = "fch" => /\ pc \in {"h2", "placing"} => InBuckets
                  /\ pc = "placing" => Placing

LEMMA FchConfigured ==
  ASSUME KeyInv, ChoiceInv, Beyond, algo = "fch"
  PROVE  /\ Len(keys) \in Nat /\ keys \in Seq(ToSet(keys)) /\ Bucketed \in Nat
         /\ FchSeeds(keys, Fch!m) \subseteq [ToSet(keys) -> Nat]
         /\ \A permuted \in Permuted(Fch!m) :
              permuted \in [0 .. Len(keys) - 1 -> 0 .. Len(keys) - 1] /\ IsInjective(permuted)
<1>1. keys = Contents /\ source \in Sources
  BY DEF KeyInv
<1>2. keys \in Seq(ToSet(keys)) /\ Len(keys) \in Nat
  BY <1>1, ContentsTyped, LenProperties DEF Contents
<1>3. "fch" \in Algorithms(keys) /\ c \in GraphSizesFor(keys, "fch")
  BY DEF ChoiceInv
<1>4. /\ FchSeeds(keys, Len(keys)) \subseteq [ToSet(keys) -> Nat]
      /\ \A permuted \in Permuted(Len(keys)) :
           permuted \in [0 .. Len(keys) - 1 -> 0 .. Len(keys) - 1] /\ IsInjective(permuted)
      /\ \A size_c \in GraphSizesFor(keys, "fch") :
           fch_calc_b(Fch!Usable(size_c), Len(keys)) \in Nat
  BY <1>1, <1>3, HashAssumption DEF Contents
<1>5. Fch!m = Len(keys)
  BY DEF Fch!m
<1>6. Bucketed \in Nat
  BY <1>3, <1>4, <1>5 DEF Bucketed, Fch!b, Fch!cc
<1> QED BY <1>2, <1>4, <1>5, <1>6

\* What the bucket of a key is depends on h1 and the configuration.
LEMMA WhereKept ==
  ASSUME UNCHANGED <<keys, c>>
  PROVE  Bucketed' = Bucketed /\ (h1' = h1 => Where' = Where) /\ (h2' = h2 => Hashed' = Hashed)
<1>1. Fch!m' = Fch!m /\ Fch!b' = Fch!b /\ Fch!p1' = Fch!p1 /\ Fch!p2' = Fch!p2
  BY DEF Fch!m, Fch!b, Fch!p1, Fch!p2, Fch!cc
<1>2. h1' = h1 => Where' = Where
  BY <1>1 DEF Where
<1>3. h2' = h2 => Hashed' = Hashed
  BY <1>1 DEF Hashed, Fch!H
<1> QED BY <1>1, <1>2, <1>3 DEF Bucketed

LEMMA InBucketsKept ==
  ASSUME InBuckets, UNCHANGED <<keys, c, h1, buckets, sorted_indexes, random_table, map_table>>,
         g' \in [0 .. Bucketed - 1 -> Int]
  PROVE  InBuckets'
<1>1. Bucketed' = Bucketed /\ Where' = Where
  BY WhereKept
<1> QED BY <1>1 DEF InBuckets

LEMMA FchMaps ==
  ASSUME KeyInv, ChoiceInv, Beyond, algo = "fch", UNCHANGED <<keys, c>>, Fch!mapping
  PROVE  InBuckets'
<1> DEFINE mm == Len(keys)
           nb == Bucketed
           where == Where'
<1>1. mm \in Nat /\ keys \in Seq(ToSet(keys)) /\ nb \in Nat /\ Fch!m = mm
  BY FchConfigured, SameInFch
<1>2. PICK seed \in FchSeeds(keys, Fch!m), permuted \in Permuted(Fch!m) :
        /\ h1' = Fch!hash_state_new(seed)
        /\ buckets' = Fch!fch_buckets(Fch!hash_state_new(seed))
        /\ sorted_indexes' = Fch!fch_buckets_get_indexes_sorted_by_size(buckets')
        /\ random_table' = permuted
        /\ map_table' = [v \in Fch!Values |-> CHOOSE x \in Fch!Values : permuted[x] = v]
  BY DEF Fch!mapping
<1>3. Bucketed' = nb
  BY WhereKept
<1>4. Inverses(random_table', map_table', mm)
  <2>1. permuted \in [0 .. mm - 1 -> 0 .. mm - 1] /\ IsInjective(permuted)
    BY FchConfigured
  <2>2. map_table' = [v \in 0 .. mm - 1 |-> CHOOSE x \in 0 .. mm - 1 : permuted[x] = v]
    BY <1>1, <1>2 DEF Fch!Values
  <2> HIDE DEF mm
  <2> QED BY <1>1, <1>2, <2>1, <2>2, InverseOf
<1>5. ASSUME NEW x \in 0 .. nb - 1 PROVE buckets'[x] = BucketOf(keys, where, mm, x)
  <2> DEFINE state == Fch!hash_state_new(seed)
             own == {y \in DOMAIN keys :
                       Fch!mixh10h11h12(Fch!b, Fch!p1, Fch!p2, Fch!hash(state, keys[y]) % Fch!m) = x}
  <2>1. DOMAIN keys = 1 .. mm
    BY <1>1, LenProperties
  <2>2. /\ Len(keys)' = mm /\ Fch!b' = Fch!b /\ Fch!p1' = Fch!p1 /\ Fch!p2' = Fch!p2 /\ h1' = state
        /\ keys' = keys
    BY <1>2 DEF Fch!m, Fch!b, Fch!p1, Fch!p2, Fch!cc
  <2>3. where = [y \in 1 .. mm |->
                   Fch!mixh10h11h12(Fch!b, Fch!p1, Fch!p2, Fch!hash(h1', keys[y]) % mm)]
    BY <2>2 DEF Where
  <2>4. own = KeysOf(where, mm, x)
    BY <1>1, <2>1, <2>2, <2>3 DEF KeysOf
  <2>5. buckets'[x] = [y \in DOMAIN Fch!Ascending(own) |-> keys[Fch!Ascending(own)[y]]]
    BY <1>2, <1>5 DEF Fch!fch_buckets, Bucketed
  <2> HIDE DEF own
  <2> QED BY <2>4, <2>5, SameAscending DEF BucketOf
<1> HIDE DEF where, mm, nb
<1>6. \A x \in 0 .. nb - 1 : /\ buckets'[x] \in Seq(ToSet(keys)) /\ Len(buckets'[x]) \in 0 .. mm
                             /\ Len(buckets'[x]) = Cardinality(KeysOf(where, mm, x))
  BY <1>1, <1>5, BucketHolds DEF mm
<1>7. sorted_indexes' = FlattenSeq(BySize(nb, mm, buckets'))
  <2> DEFINE sizes(bs) == [s \in 1 .. mm + 1 |-> Ascending({x \in 0 .. nb - 1 : Len(bs[x]) = mm + 1 - s})]
  <2>1. \A bs : Fch!fch_buckets_get_indexes_sorted_by_size(bs) = FlattenSeq(sizes(bs))
    BY <1>1, SameInFch, SameAscending DEF Fch!fch_buckets_get_indexes_sorted_by_size, nb, Bucketed
  <2>2. \A bs : sizes(bs) = BySize(nb, mm, bs)
    BY DEF BySize, OfSize
  <2> HIDE DEF sizes
  <2> QED BY <1>2, <2>1, <2>2
<1>8. Orders(sorted_indexes', nb)
  BY <1>1, <1>6, <1>7, OrdersBySize
<1>9. g' \in [0 .. nb - 1 -> Int]
  BY DEF Fch!mapping, nb, Bucketed
<1> QED BY <1>3, <1>4, <1>6, <1>8, <1>9 DEF InBuckets, where, mm

LEMMA PlacingStarts ==
  ASSUME KeyInv, ChoiceInv, Beyond, algo = "fch", UNCHANGED <<keys, c>>, InBuckets,
         Fch!generate_h2, pc' \in {"h2", "placing"}
  PROVE  InBuckets' /\ (pc' = "placing" => Placing')
<1> DEFINE mm == Len(keys)
<1>1. mm \in Nat /\ Bucketed \in Nat /\ keys \in Seq(ToSet(keys))
  BY FchConfigured
<1>2. UNCHANGED <<h1, g, buckets, sorted_indexes, random_table, map_table>>
  BY DEF Fch!generate_h2, Fch!Again, Fch!order
<1>3. InBuckets'
  BY <1>2, InBucketsKept DEF InBuckets
<1>4. ASSUME pc' = "placing" PROVE Placing'
  <2>1. PICK seed \in FchSeeds(keys, Fch!m) : h2' = Fch!hash_state_new(seed)
    BY <1>4 DEF Fch!generate_h2, Fch!Again
  <2>2. seed \in [ToSet(keys) -> Nat]
    BY FchConfigured
  <2>3. Hashed' = [ky \in ToSet(keys) |-> seed[ky] % mm]
    BY <2>1 DEF Hashed, Fch!H, Fch!hash, Fch!hash_state_new, Fch!m
  <2>4. \A ky \in ToSet(keys) : mm # 0
    <3>1. \A ky \in ToSet(keys) : DOMAIN keys # {}
      BY DEF ToSet
    <3>2. DOMAIN keys = 1 .. mm
      BY <1>1, LenProperties
    <3> HIDE DEF mm
    <3>3. mm = 0 => 1 .. mm = {}
      OBVIOUS
    <3> QED BY <3>1, <3>2, <3>3
  <2> DEFINE hv == Hashed'
  <2>5. hv \in [ToSet(keys) -> Nat]
    <3> HIDE DEF mm
    <3>1. \A v \in Nat : mm # 0 => v % mm \in Nat
      BY <1>1
    <3> QED BY <2>2, <2>3, <2>4, <3>1
  <2>6. filled_count' = 0 /\ counter' = 0 /\ i' = 0 /\ z' = 0 /\ j' = 0
    BY DEF Fch!generate_h2
  <2> HIDE DEF hv, mm
  <2>7. Buckets(mm, Bucketed, ToSet(keys), Where, buckets, sorted_indexes, hv)
    BY <1>1, <2>5 DEF Buckets, InBuckets, mm
  <2>8. Placed(mm, Bucketed, Where, buckets, sorted_indexes, hv, random_table, map_table, g, 0, 0, 0, 0)
    BY <2>7, NothingPlaced DEF InBuckets, mm
  <2>9. Bucketed' = Bucketed /\ Where' = Where /\ keys' = keys
    BY <1>2, WhereKept
  <2> QED BY <1>2, <2>5, <2>6, <2>8, <2>9 DEF Placing, hv, mm
<1> QED BY <1>3, <1>4

\* What PlaceKey and KeyCollides look at.
LEMMA LooksAt ==
  ASSUME KeyInv, ChoiceInv, Beyond, algo = "fch", InBuckets, Placing, ~Fch!AllPlaced
  PROVE  /\ Buckets(Len(keys), Bucketed, ToSet(keys), Where, buckets, sorted_indexes, Hashed)
         /\ i < Bucketed /\ Len(buckets[sorted_indexes[i + 1]]) > 0
         /\ Fch!Displaced = Tried(Len(keys), Hashed, buckets, sorted_indexes, random_table, g,
                                  filled_count, i, z, j)
         /\ Fch!Index = TriedAt(Len(keys), Hashed, buckets, sorted_indexes, random_table, g,
                                filled_count, i, z, j)
<1> DEFINE ks == buckets[sorted_indexes[i + 1]]
<1>1. Len(keys) \in Nat /\ Bucketed \in Nat
  BY FchConfigured
<1>2. Buckets(Len(keys), Bucketed, ToSet(keys), Where, buckets, sorted_indexes, Hashed)
  BY <1>1 DEF Buckets, InBuckets, Placing
<1>3. i \in 0 .. Bucketed /\ i # Bucketed /\ ks # <<>> /\ j \in Nat
      /\ (j # 0 => j < Len(ks))
  BY DEF Placing, Placed, Fch!AllPlaced, Fch!BucketKeys, Fch!bucket, Bucketed
<1>4. i < Bucketed /\ i + 1 \in 1 .. Bucketed
  <2> DEFINE nb == Bucketed
  <2>1. nb \in Nat /\ i \in 0 .. nb /\ i # nb
    BY <1>1, <1>3
  <2> HIDE DEF nb
  <2>2. i < nb /\ i + 1 \in 1 .. nb
    BY <2>1
  <2> QED BY <2>2 DEF nb
<1>5. ks \in Seq(ToSet(keys))
  <2>1. sorted_indexes[i + 1] \in 0 .. Bucketed - 1
    BY <1>4, SeqElements DEF InBuckets, Orders
  <2> QED BY <2>1 DEF InBuckets
<1> HIDE DEF ks
<1>6. Len(ks) \in Nat /\ Len(ks) > 0
  <2>1. Len(ks) \in Nat /\ Len(ks) # 0
    BY <1>3, <1>5, LenProperties, EmptySeq
  <2> QED BY <2>1
<1>7. 1 \in 1 .. Len(ks) /\ j + 1 \in 1 .. Len(ks)
  BY <1>3, <1>6
<1>8. Fch!H(ks[1]) = Hashed[ks[1]] /\ Fch!H(ks[j + 1]) = Hashed[ks[j + 1]]
  <2>1. ks[1] \in ToSet(keys) /\ ks[j + 1] \in ToSet(keys)
    BY <1>5, <1>7, SeqElements
  <2> QED BY <2>1 DEF Hashed
<1>9. Fch!Displaced = Tried(Len(keys), Hashed, buckets, sorted_indexes, random_table, g,
                            filled_count, i, z, j)
  BY <1>8 DEF Fch!Displaced, Tried, Fch!BucketKeys, Fch!bucket, Fch!m, ks
<1>10. Fch!Index = TriedAt(Len(keys), Hashed, buckets, sorted_indexes, random_table, g,
                           filled_count, i, z, j)
  BY <1>8, <1>9 DEF Fch!Index, TriedAt, ValueOf, Fch!BucketKeys, Fch!bucket, Fch!m, ks
<1> QED BY <1>2, <1>4, <1>6, <1>9, <1>10 DEF ks

LEMMA PlacingGoesOn ==
  ASSUME KeyInv, ChoiceInv, Beyond, algo = "fch", UNCHANGED <<keys, c>>, InBuckets, Placing, Fch!PlaceKey
  PROVE  InBuckets' /\ Placing'
<1> DEFINE mm == Len(keys)
           disp == Tried(mm, Hashed, buckets, sorted_indexes, random_table, g, filled_count, i, z, j)
           v == TriedAt(mm, Hashed, buckets, sorted_indexes, random_table, g, filled_count, i, z, j)
           ks == buckets[sorted_indexes[i + 1]]
<1>1. ~Fch!AllPlaced /\ UNCHANGED <<h1, h2, buckets, sorted_indexes>>
  BY DEF Fch!PlaceKey, Fch!order
<1>2. /\ Buckets(mm, Bucketed, ToSet(keys), Where, buckets, sorted_indexes, Hashed)
      /\ i < Bucketed /\ Len(ks) > 0 /\ Fch!Displaced = disp /\ Fch!Index = v
  BY <1>1, LooksAt
<1>3. /\ map_table[v] >= filled_count /\ filled_count' = filled_count + 1
      /\ g' = With(g, sorted_indexes, i, disp)
      /\ random_table' = SwappedTo(random_table, map_table, v, filled_count)
      /\ map_table' = SwappedFrom(random_table, map_table, v, filled_count)
  BY <1>2 DEF Fch!PlaceKey, Fch!Swapped, With, SwappedTo, SwappedFrom, Fch!bucket
<1>4. IF j + 1 = Len(ks) THEN i' = i + 1 /\ z' = 0 /\ j' = 0 /\ counter' = 0
                         ELSE j' = j + 1 /\ counter' = counter + 1 /\ UNCHANGED <<i, z>>
  BY DEF Fch!PlaceKey, Fch!BucketKeys, Fch!bucket
<1>5. Placed(mm, Bucketed, Where, buckets, sorted_indexes, Hashed, random_table, map_table, g,
             filled_count, i, z, j) /\ counter = j /\ Hashed \in [ToSet(keys) -> Nat]
  BY DEF Placing
<1>6. PlacedNext(mm, Bucketed, Where, buckets, sorted_indexes, Hashed, random_table, map_table, g,
                 filled_count, i, z, j)
  <2> HIDE DEF mm
  <2> QED BY <1>2, <1>3, <1>5, KeyIsPlaced
<1>7. Placed(mm, Bucketed, Where, buckets, sorted_indexes, Hashed, random_table', map_table', g',
             filled_count', i', z', j')
  <2> HIDE DEF mm
  <2> QED BY <1>3, <1>4, <1>6 DEF PlacedNext
<1>8. Bucketed' = Bucketed /\ Where' = Where /\ Hashed' = Hashed /\ Len(keys)' = mm
  BY <1>1, WhereKept
<1>9. counter' = j'
  BY <1>4, <1>5
<1>10. Placing'
  BY <1>1, <1>5, <1>7, <1>8, <1>9 DEF Placing
<1>11. g' \in [0 .. Bucketed - 1 -> Int] /\ Inverses(random_table', map_table', mm)
  <2> HIDE DEF mm
  <2> QED BY <1>7 DEF Placed
<1> QED BY <1>1, <1>8, <1>10, <1>11 DEF InBuckets

LEMMA PlacingTakesBack ==
  ASSUME KeyInv, ChoiceInv, Beyond, algo = "fch", UNCHANGED <<keys, c>>, InBuckets, Placing,
         Fch!KeyCollides, pc = "placing", pc' \in {"h2", "placing"}
  PROVE  InBuckets' /\ (pc' = "placing" => Placing')
<1> DEFINE mm == Len(keys)
           disp == Tried(mm, Hashed, buckets, sorted_indexes, random_table, g, filled_count, i, z, j)
<1>1. ~Fch!AllPlaced /\ UNCHANGED <<h1, buckets, sorted_indexes, random_table, map_table>>
  BY DEF Fch!KeyCollides, Fch!Again, Fch!order
<1>2. /\ Buckets(mm, Bucketed, ToSet(keys), Where, buckets, sorted_indexes, Hashed)
      /\ i < Bucketed /\ Len(buckets[sorted_indexes[i + 1]]) > 0 /\ Fch!Displaced = disp
  BY <1>1, LooksAt
<1>3. Placed(mm, Bucketed, Where, buckets, sorted_indexes, Hashed, random_table, map_table, g,
             filled_count, i, z, j) /\ counter = j /\ Hashed \in [ToSet(keys) -> Nat]
  BY DEF Placing
<1>4. disp \in Int
  <2> HIDE DEF mm
  <2> QED BY <1>2, <1>3, TriedTyped
<1>5. With(g, sorted_indexes, i, disp) \in [0 .. Bucketed - 1 -> Int]
  <2> HIDE DEF disp
  <2> QED BY <1>4 DEF With, InBuckets
<1>6. g' = With(g, sorted_indexes, i, disp) \/ g' = g
  BY <1>2 DEF Fch!KeyCollides, Fch!Again, With, Fch!bucket
<1>7. InBuckets'
  <2>1. g' \in [0 .. Bucketed - 1 -> Int]
    BY <1>5, <1>6 DEF InBuckets
  <2> QED BY <1>1, <2>1, InBucketsKept
<1>8. ASSUME pc' = "placing" PROVE Placing'
  <2>1. z + 1 < mm - (filled_count - j) /\ h2' = h2 /\ g' = With(g, sorted_indexes, i, disp)
    BY <1>2, <1>3, <1>8 DEF Fch!KeyCollides, Fch!Again, With, Fch!bucket, Fch!Released, Fch!m
  <2>2. filled_count' = filled_count - j /\ counter' = 0 /\ j' = 0 /\ z' = z + 1 /\ i' = i
    BY <1>3 DEF Fch!KeyCollides, Fch!Released
  <2> HIDE DEF disp
  <2>3. Placed(mm, Bucketed, Where, buckets, sorted_indexes, Hashed, random_table, map_table,
               With(g, sorted_indexes, i, disp), filled_count - j, i, z + 1, 0)
    <3> HIDE DEF mm
    <3> QED BY <1>2, <1>3, <1>4, <2>1, KeysTakenBack
  <2>4. Bucketed' = Bucketed /\ Where' = Where /\ Hashed' = Hashed /\ Len(keys)' = mm
    BY <1>1, <2>1, WhereKept
  <2> QED BY <1>1, <1>3, <2>1, <2>2, <2>3, <2>4 DEF Placing
<1> QED BY <1>7, <1>8

LEMMA FchInvNext ==
  ASSUME KeyInv, ChoiceInv, FchInv, [Next]_vars PROVE FchInv'
<1>1. CASE ReadsKeys \/ Chooses \/ Uses
  <2>1. pc' \notin {"h2", "placing"}
    BY <1>1, ReadsGoes, ChoosesGoes, UsesGoes
  <2> QED BY <2>1 DEF FchInv
<1>2. CASE Builds
  <2>1. Beyond /\ UNCHANGED <<keys, algo, c>>
    BY <1>2, BuildsGoes
  <2> SUFFICES ASSUME algo = "fch", pc' \in {"h2", "placing"}
               PROVE  InBuckets' /\ (pc' = "placing" => Placing')
    BY <2>1 DEF FchInv
  <2>2. Fch!fch_new
    BY <1>2 DEF Builds
  <2>3. CASE Fch!Called \/ Fch!Finish
    BY <2>3 DEF Fch!Called, Fch!Finish
  <2>4. CASE Fch!mapping
    <3>1. pc' = "h2"
      BY <2>4 DEF Fch!mapping
    <3> QED BY <2>1, <2>4, <3>1, FchMaps
  <2>5. CASE Fch!generate_h2
    <3>1. pc = "h2"
      BY <2>5 DEF Fch!generate_h2
    <3> QED BY <2>1, <2>5, <3>1, PlacingStarts DEF FchInv
  <2>6. CASE Fch!PlaceKey
    <3>1. pc = "placing"
      BY <2>6 DEF Fch!PlaceKey
    <3> QED BY <2>1, <2>6, <3>1, PlacingGoesOn DEF FchInv
  <2>7. CASE Fch!KeyCollides
    <3>1. pc = "placing"
      BY <2>7 DEF Fch!KeyCollides
    <3> QED BY <2>1, <2>7, <3>1, PlacingTakesBack DEF FchInv
  <2> QED BY <2>2, <2>3, <2>4, <2>5, <2>6, <2>7 DEF Fch!fch_new, Fch!searching
<1>3. CASE UNCHANGED vars
  <2>1. UNCHANGED <<keys, algo, c, pc, h1, h2, buckets, sorted_indexes, random_table, map_table, g,
                    filled_count, counter, i, z, j>>
    BY <1>3 DEF vars, sourceVars, config, work, graphVars, fchVars
  <2>2. Bucketed' = Bucketed /\ Where' = Where /\ Hashed' = Hashed
    BY <2>1, WhereKept
  <2>3. (InBuckets' <=> InBuckets) /\ (Placing' <=> Placing)
    BY <2>1, <2>2 DEF InBuckets, Placing
  <2> QED BY <2>1, <2>3 DEF FchInv
<1> QED BY <1>1, <1>2, <1>3, NextIs

LEMMA FchInvInit == Init => FchInv
<1> SUFFICES ASSUME Init PROVE FchInv
  OBVIOUS
<1>1. pc \in {"counting", "reading"}
  BY DEF Init, Source!Init
<1> QED BY <1>1 DEF FchInv

\* The values of the keys of a bucket that is placed.
UsedBy(x) ==
  {(Fch!H(ky) + g[sorted_indexes[x]]) % Fch!m : ky \in Fch!ToSet(buckets[sorted_indexes[x]])}

\* FCH, for every source, every hash function and every random order: however
\* often a bucket is tried and taken back, the two tables are the inverse of
\* each other, and the first filled_count places of random_table have the
\* values in use, as many as there are keys in place.
THEOREM TablesStayInverse == Spec => []TablesAgree
<1>1. ASSUME KeyInv, ChoiceInv, FchInv PROVE TablesAgree
  <2> SUFFICES ASSUME algo = "fch", pc = "placing" PROVE Fch!TablesAgree
    BY DEF TablesAgree, Fch!TablesAgree
  <2> DEFINE mm == Len(keys)
             ks == buckets[sorted_indexes[i + 1]]
             now == {ValueOf(mm, Hashed, ks, x, g[sorted_indexes[i + 1]]) : x \in 1 .. j}
  <2>1. InBuckets /\ Placing /\ mm \in Nat /\ Bucketed \in Nat
    BY <1>1, FchConfigured DEF FchInv, Beyond
  <2>2. /\ Buckets(mm, Bucketed, ToSet(keys), Where, buckets, sorted_indexes, Hashed)
        /\ Placed(mm, Bucketed, Where, buckets, sorted_indexes, Hashed, random_table, map_table, g,
                  filled_count, i, z, j)
    BY <2>1 DEF Buckets, InBuckets, Placing
  <2>3. /\ \A v \in 0 .. mm - 1 : random_table[map_table[v]] = v
        /\ {random_table[x] : x \in 0 .. filled_count - 1}
             = ValuesBefore(mm, Hashed, buckets, sorted_indexes, g, i) \cup now
        /\ Cardinality({random_table[x] : x \in 0 .. filled_count - 1}) = filled_count
    <3>1. Filled(mm, Hashed, buckets, sorted_indexes, random_table, map_table, g, filled_count, i, j)
      <4> HIDE DEF mm
      <4> QED BY <2>2, FilledAre
    <3> QED BY <3>1 DEF Filled
  <2>4. \A ky \in ToSet(keys) : Fch!H(ky) = Hashed[ky]
    BY DEF Hashed
  <2>5. \A x \in 1 .. i : sorted_indexes[x] \in 0 .. Bucketed - 1
    <3>1. \A x \in 1 .. i : x \in 1 .. Bucketed
      BY <2>1, <2>2 DEF Placed
    <3> QED BY <2>1, <3>1, SeqElements DEF InBuckets, Orders
  <2>6. ASSUME NEW x \in 1 .. i
        PROVE  UsedBy(x) = ValuesOf(mm, Hashed, buckets[sorted_indexes[x]], g[sorted_indexes[x]])
    <3> DEFINE bk == buckets[sorted_indexes[x]]
               disp == g[sorted_indexes[x]]
    <3>1. bk \in Seq(ToSet(keys))
      BY <2>1, <2>5 DEF InBuckets
    <3> HIDE DEF bk, disp
    <3>2. Fch!ToSet(bk) = {bk[y] : y \in 1 .. Len(bk)} /\ \A y \in 1 .. Len(bk) : bk[y] \in ToSet(keys)
      BY <3>1, SeqElements, LenProperties DEF Fch!ToSet
    <3>3. \A y \in 1 .. Len(bk) : (Fch!H(bk[y]) + disp) % mm = ValueOf(mm, Hashed, bk, y, disp)
      BY <2>4, <3>2 DEF ValueOf
    <3> HIDE DEF mm
    <3>4. {(Fch!H(ky) + disp) % mm : ky \in Fch!ToSet(bk)} = ValuesOf(mm, Hashed, bk, disp)
      BY <3>2, <3>3 DEF ValuesOf
    <3> QED BY <3>4 DEF bk, disp, mm, UsedBy, Fch!m
  <2>7. now = IF j = 0 THEN {} ELSE {(Fch!H(ks[x]) + g[sorted_indexes[i + 1]]) % mm : x \in 1 .. j}
    <3>1. CASE j = 0
      BY <3>1
    <3>2. CASE j # 0
      <4>1. i < Bucketed /\ j < Len(ks) /\ i \in Nat /\ j \in Nat
        BY <2>2, <3>2 DEF Placed
      <4>2. sorted_indexes[i + 1] \in 0 .. Bucketed - 1
        <5>1. i + 1 \in 1 .. Bucketed
          BY <2>1, <4>1
        <5> QED BY <2>1, <5>1, SeqElements DEF InBuckets, Orders
      <4>3. ks \in Seq(ToSet(keys))
        BY <2>1, <4>2 DEF InBuckets
      <4> HIDE DEF ks
      <4>4. \A x \in 1 .. j : x \in 1 .. Len(ks)
        <5>1. Len(ks) \in Nat
          BY <4>3, LenProperties
        <5> QED BY <4>1, <5>1
      <4>5. \A x \in 1 .. j : ks[x] \in ToSet(keys)
        BY <4>3, <4>4, SeqElements
      <4>6. \A x \in 1 .. j : (Fch!H(ks[x]) + g[sorted_indexes[i + 1]]) % mm
                                = ValueOf(mm, Hashed, ks, x, g[sorted_indexes[i + 1]])
        BY <2>4, <4>5 DEF ValueOf
      <4> QED BY <3>2, <4>6
    <3> QED BY <3>1, <3>2
  <2>8. Fch!InUse = ValuesBefore(mm, Hashed, buckets, sorted_indexes, g, i) \cup now
    <3> DEFINE ahead == IF j = 0 THEN {}
                        ELSE {(Fch!H(ks[x]) + g[sorted_indexes[i + 1]]) % mm : x \in 1 .. j}
    <3>1. Fch!InUse = (UNION {UsedBy(x) : x \in 1 .. i}) \cup ahead
      BY DEF Fch!InUse, Fch!m, Fch!BucketKeys, Fch!bucket, UsedBy
    <3>2. ahead = now
      BY <2>7
    <3> HIDE DEF ahead, now, mm, ks
    <3>3. UNION {UsedBy(x) : x \in 1 .. i} = ValuesBefore(mm, Hashed, buckets, sorted_indexes, g, i)
      BY <2>6 DEF ValuesBefore
    <3> QED BY <3>1, <3>2, <3>3
  <2> HIDE DEF now
  <2> QED BY <2>3, <2>8, SameInFch DEF Fch!TablesAgree, Fch!Values
<1>2. Init => KeyInv /\ ChoiceInv /\ FchInv
  BY KeyInvInit, ChoiceInvInit, FchInvInit
<1>3. KeyInv /\ ChoiceInv /\ FchInv /\ [Next]_vars => KeyInv' /\ ChoiceInv' /\ FchInv'
  BY KeyInvNext, ChoiceInvNext, FchInvNext
<1> QED BY <1>1, <1>2, <1>3, PTL DEF Spec
=============================================================================
