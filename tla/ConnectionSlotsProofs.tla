------------------------ MODULE ConnectionSlotsProofs ------------------------
(***************************************************************************)
(* Theorems about ConnectionSlots for every width of an integer, length of *)
(* the bitmap and set of connections.  Two inductive invariants: one that  *)
(* holds however many connections are open (every word is sign-extended),  *)
(* and one for as long as fewer are open than an int has bits (all of them *)
(* are in the lower part of the first word).                               *)
(***************************************************************************)
EXTENDS ConnectionSlots, InductionLemmas, FiniteSetTheorems

-----------------------------------------------------------------------------
(* Numbers. *)

\* Quotient and remainder of a number written as a multiple and a rest.
LEMMA DivMod ==
  ASSUME NEW b \in Nat \ {0}, NEW w \in Nat, NEW o \in 0 .. b - 1
  PROVE  (w * b + o) \div b = w /\ (w * b + o) % b = o
OBVIOUS

\* A slot of the array is a slot of one of its words.
LEMMA SlotOfWord ==
  ASSUME NEW b \in Nat \ {0}, NEW n \in Nat \ {0},
         NEW w \in 0 .. n - 1, NEW o \in 0 .. b - 1
  PROVE  w * b + o \in 0 .. n * b - 1
OBVIOUS

LEMMA WordOfSlot ==
  ASSUME NEW b \in Nat \ {0}, NEW n \in Nat \ {0}, NEW i \in 0 .. n * b - 1
  PROVE  i \div b \in 0 .. n - 1 /\ i % b \in 0 .. b - 1
         /\ i = (i \div b) * b + (i % b)
<1>1. i \in Nat /\ i < n * b
  OBVIOUS
<1>2. i \div b \in Nat /\ i % b \in 0 .. b - 1 /\ i = (i \div b) * b + (i % b)
  BY <1>1
<1>3. ~(i \div b >= n)
  <2> DEFINE q == i \div b
  <2>1. q \in Nat /\ q * b <= i
    BY <1>1, <1>2
  <2> HIDE DEF q
  <2>2. q >= n => q * b >= n * b
    BY <2>1
  <2> QED BY <1>1, <2>1, <2>2 DEF q
<1> QED BY <1>2, <1>3

-----------------------------------------------------------------------------
(* The helpers of the allocator. *)

\* The number of bits of a long is twice that of an int, and positive.
LEMMA Widths ==
  /\ IntBits \in Nat \ {0}
  /\ JOHNNY_BITS_PER_LONG \in Nat \ {0}
  /\ JOHNNY_BITS_PER_LONG = 2 * IntBits
  /\ JOHNNY_CON_BITMAP_LEN \in Nat \ {0}
BY SlotsAssumption

\* The upper bits of a sign-extended word are all equal to its int sign bit.
SignExtended(word) ==
  \A b \in IntBits - 1 .. JOHNNY_BITS_PER_LONG - 1 : b \in word <=> IntBits - 1 \in word

LEMMA ShiftOneLow ==
  ASSUME NEW w \in Nat, NEW o \in 0 .. IntBits - 1
  PROVE  /\ ShiftOne(w * JOHNNY_BITS_PER_LONG + o) = ShiftOne(o)
         /\ ShiftOne(o) \in SUBSET Bits
         /\ ShiftOne(o) = IF o = IntBits - 1
                          THEN IntBits - 1 .. JOHNNY_BITS_PER_LONG - 1
                          ELSE {o}
<1>1. w * JOHNNY_BITS_PER_LONG + o = (2 * w) * IntBits + o
  BY Widths
<1>2. (w * JOHNNY_BITS_PER_LONG + o) % IntBits = o
  BY <1>1, DivMod, Widths, 2 * w \in Nat
<1>3. o % IntBits = o
  BY Widths
<1>4. ShiftOne(o) = IF o = IntBits - 1
                    THEN IntBits - 1 .. JOHNNY_BITS_PER_LONG - 1
                    ELSE {o}
  BY <1>3 DEF ShiftOne
<1>5. ShiftOne(w * JOHNNY_BITS_PER_LONG + o) = ShiftOne(o)
  BY <1>2, <1>3 DEF ShiftOne
<1>6. ShiftOne(o) \in SUBSET Bits
  BY <1>4, Widths DEF Bits
<1> QED BY <1>4, <1>5, <1>6

\* Setting or flipping a bit of the lower half keeps a word sign-extended.
LEMMA ShiftOneKeepsSign ==
  ASSUME NEW word \in SUBSET Bits, SignExtended(word), NEW o \in 0 .. IntBits - 1
  PROVE  /\ SignExtended(word \cup ShiftOne(o))
         /\ SignExtended(Xor(word, ShiftOne(o)))
<1>1. ShiftOne(o) = IF o = IntBits - 1
                    THEN IntBits - 1 .. JOHNNY_BITS_PER_LONG - 1
                    ELSE {o}
  BY ShiftOneLow, 0 \in Nat
<1>2. CASE o = IntBits - 1
  BY <1>1, <1>2, Widths DEF SignExtended, Xor
<1>3. CASE o # IntBits - 1
  BY <1>1, <1>3, Widths DEF SignExtended, Xor
<1> QED BY <1>2, <1>3

\* The loop that skips the taken slots stops at a free one (or reads the
\* sign bit and does not start), always in the lower half of the word.
LEMMA TrailingOnesLow ==
  ASSUME NEW word \in SUBSET Bits, ~Full(word), SignExtended(word)
  PROVE  /\ TrailingOnes(word) \in 0 .. IntBits - 1
         /\ ~Negative(word) => /\ TrailingOnes(word) \notin word
                               /\ 0 .. TrailingOnes(word) - 1 \subseteq word
<1>1. CASE Negative(word)
  BY <1>1, Widths DEF TrailingOnes
<1>2. CASE ~Negative(word)
  <2> DEFINE Free == Bits \ word
             IsFirst(k) == k \notin word /\ 0 .. k - 1 \subseteq word
  <2>1. Free # {} /\ Free \subseteq Nat
    <3>1. \E b \in Bits : b \notin word
      BY DEF Full
    <3> QED BY <3>1, Widths DEF Bits
  <2>2. PICK m \in Free : \A n \in Free : m <= n
    BY <2>1, LeastElement
  <2>3. IsFirst(m)
    <3>1. ASSUME NEW j \in 0 .. m - 1 PROVE j \in word
      BY <2>2, Widths DEF Bits
    <3> QED BY <2>2, <3>1
  <2>4. TrailingOnes(word) = CHOOSE k \in Bits : IsFirst(k)
    BY <1>2 DEF TrailingOnes
  <2>5. TrailingOnes(word) \in Bits /\ IsFirst(TrailingOnes(word))
    <3> HIDE DEF IsFirst
    <3> QED BY <2>2, <2>3, <2>4
  <2>6. IntBits - 1 \notin word
    BY <1>2, Widths DEF SignExtended, Negative
  <2>7. TrailingOnes(word) <= IntBits - 1
    BY <2>5, <2>6, Widths DEF Bits
  <2> QED BY <1>2, <2>5, <2>7 DEF Bits
<1> QED BY <1>1, <1>2

\* The first word with a clear bit.
LEMMA FirstOpenWordIsFirst ==
  ASSUME OpenWords # {}
  PROVE  FirstOpenWord \in OpenWords /\ \A v \in OpenWords : FirstOpenWord <= v
<1>1. OpenWords \subseteq Nat
  BY DEF OpenWords, Words
<1>2. \E w \in OpenWords : \A v \in OpenWords : w <= v
  BY <1>1, LeastElement
<1> QED BY <1>2 DEF FirstOpenWord

-----------------------------------------------------------------------------
(* However many connections are open. *)

WordsSignExtended == \A w \in Words : SignExtended(con_bitmap[w])

IInv == TypeOK /\ WordsSignExtended /\ UpperHalfUnused

LEMMA IInvInit == Init => IInv
<1> SUFFICES ASSUME Init PROVE IInv
  OBVIOUS
<1>1. TypeOK
  BY Widths DEF Init, TypeOK, Bits
<1>2. WordsSignExtended
  BY DEF Init, WordsSignExtended, SignExtended
<1>3. UpperHalfUnused
  BY SlotsAssumption DEF Init, UpperHalfUnused, OnStack
<1> QED BY <1>1, <1>2, <1>3 DEF IInv

\* What an allocation on the stack does, in terms of a word and an offset.
LEMMA StackAllocation ==
  ASSUME IInv, OpenWords # {}
  PROVE  LET w == FirstOpenWord
             o == TrailingOnes(con_bitmap[w])
             i == w * JOHNNY_BITS_PER_LONG + o
         IN  /\ w \in Words
             /\ o \in 0 .. IntBits - 1
             /\ i \in 0 .. JOHNNY_STACK_CONNECTIONS - 1
             /\ i % JOHNNY_BITS_PER_LONG = o
             /\ ShiftOne(i) = ShiftOne(o)
             /\ ShiftOne(o) \in SUBSET Bits
<1> DEFINE w == FirstOpenWord
           o == TrailingOnes(con_bitmap[w])
<1>1. w \in Words /\ ~Full(con_bitmap[w])
  BY FirstOpenWordIsFirst DEF OpenWords
<1>2. con_bitmap[w] \in SUBSET Bits /\ SignExtended(con_bitmap[w])
  BY <1>1 DEF IInv, TypeOK, WordsSignExtended
<1>3. o \in 0 .. IntBits - 1
  BY <1>1, <1>2, TrailingOnesLow
<1>4. w \in Nat /\ w \in 0 .. JOHNNY_CON_BITMAP_LEN - 1
      /\ o \in 0 .. JOHNNY_BITS_PER_LONG - 1
  BY <1>1, <1>3, Widths DEF Words
<1> HIDE DEF w, o
<1>5. w * JOHNNY_BITS_PER_LONG + o \in 0 .. JOHNNY_STACK_CONNECTIONS - 1
  BY <1>4, SlotOfWord, Widths DEF JOHNNY_STACK_CONNECTIONS
<1>6. (w * JOHNNY_BITS_PER_LONG + o) % JOHNNY_BITS_PER_LONG = o
  BY <1>4, DivMod, Widths
<1>7. /\ ShiftOne(w * JOHNNY_BITS_PER_LONG + o) = ShiftOne(o)
      /\ ShiftOne(o) \in SUBSET Bits
  BY <1>3, <1>4, ShiftOneLow
<1> QED BY <1>1, <1>3, <1>5, <1>6, <1>7 DEF w, o

LEMMA LiveIsFinite == IsFiniteSet(Live) /\ Cardinality(Live) \in Nat
BY SlotsAssumption, FS_Subset, FS_CardinalityType, Live \in SUBSET Conns DEF Live

LEMMA PeakIsNat ==
  ASSUME TypeOK, NEW c \in Conns, johnny_allocates_connection(c)
  PROVE  peak' \in Nat
BY LiveIsFinite DEF TypeOK, johnny_allocates_connection

LEMMA IInvAllocate ==
  ASSUME IInv, NEW c \in Conns, johnny_allocates_connection(c)
  PROVE  IInv'
<1> USE DEF IInv
<1>1. CASE OpenWords = {}
  <2>1. /\ index' = [index EXCEPT ![c] = JOHNNY_STACK_CONNECTIONS]
        /\ con_bitmap' = con_bitmap
    BY <1>1 DEF johnny_allocates_connection
  <2>2. JOHNNY_STACK_CONNECTIONS \in Nat
    BY Widths DEF JOHNNY_STACK_CONNECTIONS
  <2>3. TypeOK'
    BY <2>1, <2>2, PeakIsNat DEF TypeOK
  <2>4. WordsSignExtended'
    BY <2>1 DEF WordsSignExtended
  <2>5. UpperHalfUnused'
    BY <2>1, <2>2 DEF UpperHalfUnused, OnStack, TypeOK, JOHNNY_STACK_CONNECTIONS
  <2> QED BY <2>3, <2>4, <2>5
<1>2. CASE OpenWords # {}
  <2> DEFINE w == FirstOpenWord
             o == TrailingOnes(con_bitmap[w])
             i == w * JOHNNY_BITS_PER_LONG + o
  <2>1. /\ index' = [index EXCEPT ![c] = i]
        /\ con_bitmap' = [con_bitmap EXCEPT ![w] = @ \cup ShiftOne(i)]
    BY <1>2 DEF johnny_allocates_connection
  <2>2. /\ w \in Words
        /\ o \in 0 .. IntBits - 1
        /\ i \in 0 .. JOHNNY_STACK_CONNECTIONS - 1
        /\ i % JOHNNY_BITS_PER_LONG = o
        /\ ShiftOne(i) = ShiftOne(o)
        /\ ShiftOne(o) \in SUBSET Bits
    BY <1>2, StackAllocation
  <2> HIDE DEF w, o, i
  <2>3. TypeOK'
    <3>1. JOHNNY_STACK_CONNECTIONS \in Nat
      BY Widths DEF JOHNNY_STACK_CONNECTIONS
    <3>2. i \in 0 .. JOHNNY_STACK_CONNECTIONS
      BY <2>2, <3>1
    <3>3. index' \in [Conns -> 0 .. JOHNNY_STACK_CONNECTIONS \cup {NoCtx}]
      BY <2>1, <3>2 DEF TypeOK
    <3>4. con_bitmap' \in [Words -> SUBSET Bits]
      BY <2>1, <2>2 DEF TypeOK
    <3> QED BY <3>3, <3>4, PeakIsNat DEF TypeOK
  <2>4. WordsSignExtended'
    <3>1. con_bitmap[w] \in SUBSET Bits /\ SignExtended(con_bitmap[w])
      BY <2>2 DEF TypeOK, WordsSignExtended
    <3>2. SignExtended(con_bitmap[w] \cup ShiftOne(i))
      BY <2>2, <3>1, ShiftOneKeepsSign
    <3>3. \A v \in Words : con_bitmap'[v] = IF v = w THEN con_bitmap[w] \cup ShiftOne(i)
                                                     ELSE con_bitmap[v]
      BY <2>1 DEF TypeOK
    <3> QED BY <3>2, <3>3 DEF WordsSignExtended
  <2>5. UpperHalfUnused'
    BY <2>1, <2>2, Widths DEF UpperHalfUnused, OnStack, TypeOK, JOHNNY_STACK_CONNECTIONS
  <2> QED BY <2>3, <2>4, <2>5
<1> QED BY <1>1, <1>2

LEMMA IInvDeallocate ==
  ASSUME IInv, NEW c \in Conns, johnny_deallocates_connection(c)
  PROVE  IInv'
<1> USE DEF IInv
<1>1. /\ index' = [index EXCEPT ![c] = NoCtx]
      /\ index[c] # NoCtx
      /\ peak' = peak
  BY DEF johnny_deallocates_connection
<1>2. UpperHalfUnused'
  BY <1>1, SlotsAssumption DEF UpperHalfUnused, OnStack, TypeOK, JOHNNY_STACK_CONNECTIONS
<1>3. CASE index[c] = JOHNNY_STACK_CONNECTIONS
  <2>1. con_bitmap' = con_bitmap
    BY <1>3 DEF johnny_deallocates_connection
  <2>2. TypeOK' /\ WordsSignExtended'
    BY <1>1, <2>1 DEF TypeOK, WordsSignExtended, JOHNNY_STACK_CONNECTIONS
  <2> QED BY <1>2, <2>2
<1>4. CASE index[c] # JOHNNY_STACK_CONNECTIONS
  <2> DEFINE w == index[c] \div JOHNNY_BITS_PER_LONG
             o == index[c] % JOHNNY_BITS_PER_LONG
  <2>1. con_bitmap' = [con_bitmap EXCEPT ![w] = Xor(@, ShiftOne(o))]
    BY <1>4 DEF johnny_deallocates_connection
  <2>2. index[c] \in 0 .. JOHNNY_CON_BITMAP_LEN * JOHNNY_BITS_PER_LONG - 1
    BY <1>1, <1>4, Widths DEF TypeOK, JOHNNY_STACK_CONNECTIONS
  <2>3. w \in Words /\ o \in 0 .. JOHNNY_BITS_PER_LONG - 1
    BY <2>2, WordOfSlot, Widths DEF Words
  <2>4. o \in 0 .. IntBits - 1
    BY <2>2, <2>3, Widths DEF UpperHalfUnused, OnStack, JOHNNY_STACK_CONNECTIONS
  <2> HIDE DEF w, o
  <2>5. con_bitmap[w] \in SUBSET Bits /\ SignExtended(con_bitmap[w])
    BY <2>3 DEF TypeOK, WordsSignExtended
  <2>6. SignExtended(Xor(con_bitmap[w], ShiftOne(o)))
    BY <2>4, <2>5, ShiftOneKeepsSign
  <2>7. Xor(con_bitmap[w], ShiftOne(o)) \in SUBSET Bits
    BY <2>4, <2>5, ShiftOneLow, 0 \in Nat DEF Xor
  <2>8. \A v \in Words : con_bitmap'[v] = IF v = w THEN Xor(con_bitmap[w], ShiftOne(o))
                                                   ELSE con_bitmap[v]
    BY <2>1 DEF TypeOK
  <2>9. TypeOK'
    BY <1>1, <2>1, <2>3, <2>7 DEF TypeOK, JOHNNY_STACK_CONNECTIONS
  <2>10. WordsSignExtended'
    BY <2>6, <2>8 DEF WordsSignExtended
  <2> QED BY <1>2, <2>9, <2>10
<1> QED BY <1>3, <1>4

LEMMA IInvNext == IInv /\ [Next]_vars => IInv'
<1> SUFFICES ASSUME IInv, [Next]_vars PROVE IInv'
  OBVIOUS
<1>1. ASSUME NEW c \in Conns, johnny_allocates_connection(c) PROVE IInv'
  BY <1>1, IInvAllocate
<1>2. ASSUME NEW c \in Conns, johnny_deallocates_connection(c) PROVE IInv'
  BY <1>2, IInvDeallocate
<1>3. CASE UNCHANGED vars
  BY <1>3 DEF IInv, TypeOK, WordsSignExtended, UpperHalfUnused, OnStack, vars
<1> QED BY <1>1, <1>2, <1>3 DEF Next

(***************************************************************************)
(* The bitmap stays a bitmap and a context's index one of con_ctx or the   *)
(* mark of a heap context.                                                 *)
(***************************************************************************)
THEOREM TypeCorrect == Spec => []TypeOK
<1>1. IInv => TypeOK
  BY DEF IInv
<1> QED BY <1>1, IInvInit, IInvNext, PTL DEF Spec

(***************************************************************************)
(* No slot of the upper half of a word is ever handed out, so the shift    *)
(* that gives a slot back never overflows an int, whatever the widths and  *)
(* however many connections come and go.                                   *)
(***************************************************************************)
THEOREM UpperHalfNeverUsed == Spec => []UpperHalfUnused
<1>1. IInv => UpperHalfUnused
  BY DEF IInv
<1> QED BY <1>1, IInvInit, IInvNext, PTL DEF Spec

-----------------------------------------------------------------------------
(* Never so many connections open as an int has bits. *)

\* Only low bits of the first word are in use, and they are the open
\* connections' indices, all different.
FewInv ==
  /\ TypeOK
  /\ con_bitmap[0] = {index[c] : c \in Live}
  /\ \A w \in Words \ {0} : con_bitmap[w] = {}
  /\ \A c \in Live : index[c] \in 0 .. IntBits - 2
  /\ \A c, d \in Live : index[c] = index[d] => c = d

LEMMA ZeroIsWord == 0 \in Words
BY Widths DEF Words

\* The bits in use are at most as many as the open connections.
LEMMA AtMostLive ==
  ASSUME FewInv, NEW k \in Nat, 0 .. k - 1 \subseteq con_bitmap[0]
  PROVE  k <= Cardinality(Live) /\ Cardinality(Live) \in Nat
<1> DEFINE f == [c \in Live |-> index[c]]
<1>1. IsFiniteSet(Live)
  BY SlotsAssumption, FS_Subset, Live \in SUBSET Conns DEF Live
<1>2. f \in Surjection(Live, con_bitmap[0])
  BY DEF FewInv, Surjection
<1>3. /\ IsFiniteSet(con_bitmap[0])
      /\ Cardinality(con_bitmap[0]) <= Cardinality(Live)
  BY <1>1, <1>2, FS_Surjection
<1>4. Cardinality(0 .. k - 1) <= Cardinality(con_bitmap[0])
  BY <1>3, FS_Subset
<1>5. Cardinality(0 .. k - 1) = k
  BY FS_Interval
<1>6. Cardinality(Live) \in Nat /\ Cardinality(con_bitmap[0]) \in Nat
  BY <1>1, <1>3, FS_CardinalityType
<1> QED BY <1>3, <1>4, <1>5, <1>6

\* The history counts the open connections.
Counted == Cardinality(Live) <= peak

LEMMA PeakGrows ==
  ASSUME TypeOK, Counted, NEW c \in Conns, johnny_allocates_connection(c)
  PROVE  peak' \in Nat /\ peak <= peak' /\ Cardinality(Live) + 1 <= peak'
BY LiveIsFinite DEF TypeOK, Counted, johnny_allocates_connection

LEMMA CountedAllocate ==
  ASSUME IInv, Counted, NEW c \in Conns, johnny_allocates_connection(c)
  PROVE  Counted'
<1>1. Cardinality(Live) + 1 <= peak' /\ peak' \in Nat
  BY PeakGrows DEF IInv
<1>2. Live' \subseteq Live \cup {c}
  <2>1. \E i : index' = [index EXCEPT ![c] = i]
    BY DEF johnny_allocates_connection
  <2> QED BY <2>1 DEF Live, IInv, TypeOK
<1>3. /\ IsFiniteSet(Live \cup {c})
      /\ Cardinality(Live \cup {c}) <= Cardinality(Live) + 1
  <2>1. Cardinality(Live \cup {c}) \in {Cardinality(Live), Cardinality(Live) + 1}
    BY LiveIsFinite, FS_AddElement
  <2> QED BY <2>1, LiveIsFinite, FS_AddElement
<1>4. Cardinality(Live') <= Cardinality(Live \cup {c}) /\ Cardinality(Live') \in Nat
  BY <1>2, <1>3, FS_Subset, FS_CardinalityType
<1>5. Cardinality(Live \cup {c}) \in Nat
  BY <1>3, FS_CardinalityType
<1> QED BY <1>1, <1>3, <1>4, <1>5, LiveIsFinite DEF Counted

LEMMA CountedDeallocate ==
  ASSUME IInv, Counted, NEW c \in Conns, johnny_deallocates_connection(c)
  PROVE  Counted'
<1>1. Live' \subseteq Live /\ peak' = peak
  BY DEF johnny_deallocates_connection, Live, IInv, TypeOK
<1>2. Cardinality(Live') <= Cardinality(Live) /\ Cardinality(Live') \in Nat
  BY <1>1, LiveIsFinite, FS_Subset, FS_CardinalityType
<1> QED BY <1>1, <1>2, LiveIsFinite DEF Counted, IInv, TypeOK

LEMMA FewInvInit == Init => FewInv
<1> SUFFICES ASSUME Init PROVE FewInv
  OBVIOUS
<1>1. TypeOK
  BY IInvInit DEF IInv
<1>2. Live = {}
  BY DEF Init, Live
<1> QED BY <1>1, <1>2, ZeroIsWord DEF FewInv, Init

LEMMA FewAllocate ==
  ASSUME IInv, Few', Counted, FewInv, NEW c \in Conns, johnny_allocates_connection(c)
  PROVE  FewInv'
<1> DEFINE word == con_bitmap[0]
           k == TrailingOnes(word)
<1>1. word \in SUBSET (0 .. IntBits - 2) /\ word \in SUBSET Bits
  BY ZeroIsWord DEF FewInv, TypeOK
<1>2. ~Full(word) /\ SignExtended(word) /\ ~Negative(word)
  BY <1>1, Widths DEF Full, Bits, SignExtended, Negative
<1>3. k \in 0 .. IntBits - 1 /\ k \notin word /\ 0 .. k - 1 \subseteq word
  BY <1>1, <1>2, TrailingOnesLow
<1>4. k \in 0 .. IntBits - 2
  <2>1. k \in Nat /\ k <= Cardinality(Live) /\ Cardinality(Live) \in Nat
    BY <1>3, AtMostLive
  <2>2. Cardinality(Live) + 1 <= peak' /\ peak' \in Nat
    BY PeakGrows DEF FewInv
  <2>3. peak' < IntBits
    BY DEF Few
  <2> QED BY <2>1, <2>2, <2>3, Widths
<1>5. OpenWords # {} /\ FirstOpenWord = 0
  <2>1. 0 \in OpenWords
    BY <1>2, ZeroIsWord DEF OpenWords
  <2>2. FirstOpenWord \in Nat /\ FirstOpenWord <= 0
    BY <2>1, FirstOpenWordIsFirst DEF OpenWords, Words
  <2> QED BY <2>1, <2>2
<1> HIDE DEF k
<1>6. 0 * JOHNNY_BITS_PER_LONG + k = k
  BY <1>3, Widths
<1>7. ShiftOne(k) = {k}
  <2>1. k \in 0 .. IntBits - 1 /\ k # IntBits - 1
    BY <1>3, <1>4, Widths
  <2> QED BY <2>1, ShiftOneLow, 0 \in Nat
<1>8. /\ index[c] = NoCtx
      /\ index' = [index EXCEPT ![c] = k]
      /\ con_bitmap' = [con_bitmap EXCEPT ![0] = @ \cup {k}]
  BY <1>5, <1>6, <1>7 DEF johnny_allocates_connection, k
<1>9. k # NoCtx /\ k \in Bits /\ k \in 0 .. JOHNNY_STACK_CONNECTIONS
  <2>1. k \in 0 .. JOHNNY_BITS_PER_LONG - 1
    BY <1>4, Widths
  <2>2. 0 * JOHNNY_BITS_PER_LONG + k \in 0 .. JOHNNY_CON_BITMAP_LEN * JOHNNY_BITS_PER_LONG - 1
    BY <2>1, SlotOfWord, Widths, 0 \in 0 .. JOHNNY_CON_BITMAP_LEN - 1
  <2>3. JOHNNY_STACK_CONNECTIONS \in Nat
    BY Widths DEF JOHNNY_STACK_CONNECTIONS
  <2> QED BY <1>6, <2>1, <2>2, <2>3, SlotsAssumption DEF JOHNNY_STACK_CONNECTIONS, Bits
<1>10. Live' = Live \cup {c} /\ c \notin Live
  BY <1>8, <1>9 DEF Live, FewInv, TypeOK
<1>11. \A d \in Conns : index'[d] = IF d = c THEN k ELSE index[d]
  BY <1>8 DEF FewInv, TypeOK
<1>12. \A w \in Words : con_bitmap'[w] = IF w = 0 THEN word \cup {k} ELSE con_bitmap[w]
  BY <1>8 DEF FewInv, TypeOK
<1>13. TypeOK'
  BY IInvAllocate DEF IInv
<1>14. Live \subseteq Conns
  BY DEF Live
<1>15. con_bitmap'[0] = {index'[d] : d \in Live'}
  <2>1. con_bitmap'[0] = {index[d] : d \in Live} \cup {k}
    BY <1>12, ZeroIsWord DEF FewInv
  <2>2. \A d \in Live : index'[d] = index[d]
    BY <1>10, <1>11, <1>14
  <2>3. index'[c] = k
    BY <1>11
  <2> QED BY <1>10, <2>1, <2>2, <2>3
<1>16. \A w \in Words \ {0} : con_bitmap'[w] = {}
  BY <1>12 DEF FewInv
<1>17. \A d \in Live' : index'[d] \in 0 .. IntBits - 2
  BY <1>4, <1>10, <1>11, <1>14 DEF FewInv
<1>18. \A d, e \in Live' : index'[d] = index'[e] => d = e
  BY <1>3, <1>10, <1>11, <1>14 DEF FewInv
<1> QED BY <1>13, <1>15, <1>16, <1>17, <1>18 DEF FewInv

LEMMA FewDeallocate ==
  ASSUME IInv, FewInv, NEW c \in Conns, johnny_deallocates_connection(c)
  PROVE  FewInv'
<1> DEFINE k == index[c]
<1>1. c \in Live /\ index' = [index EXCEPT ![c] = NoCtx]
  BY DEF johnny_deallocates_connection, Live
<1>2. k \in 0 .. IntBits - 2 /\ k \in con_bitmap[0]
  BY <1>1 DEF FewInv
<1>3. k # JOHNNY_STACK_CONNECTIONS
  <2>1. k \in Bits
    BY <1>2, ZeroIsWord DEF FewInv, TypeOK
  <2>2. 0 * JOHNNY_BITS_PER_LONG + k \in 0 .. JOHNNY_CON_BITMAP_LEN * JOHNNY_BITS_PER_LONG - 1
    BY <2>1, SlotOfWord, Widths, 0 \in 0 .. JOHNNY_CON_BITMAP_LEN - 1 DEF Bits
  <2>3. 0 * JOHNNY_BITS_PER_LONG + k = k
    BY <2>1, Widths DEF Bits
  <2> QED BY <2>2, <2>3, Widths DEF JOHNNY_STACK_CONNECTIONS
<1>4. k \div JOHNNY_BITS_PER_LONG = 0 /\ k % JOHNNY_BITS_PER_LONG = k
  BY <1>2, Widths
<1>5. ShiftOne(k) = {k}
  <2>1. k \in 0 .. IntBits - 1 /\ k # IntBits - 1
    BY <1>2, Widths
  <2>2. \A o \in 0 .. IntBits - 1 : o # IntBits - 1 => ShiftOne(o) = {o}
    BY ShiftOneLow, 0 \in Nat
  <2> HIDE DEF k
  <2> QED BY <2>1, <2>2
<1>6. Xor(con_bitmap[0], {k}) = con_bitmap[0] \ {k}
  BY <1>2 DEF Xor
<1>7. con_bitmap' = [con_bitmap EXCEPT ![0] = Xor(@, {k})]
  BY <1>3, <1>4, <1>5 DEF johnny_deallocates_connection
<1>8. \A w \in Words : con_bitmap'[w] = IF w = 0 THEN con_bitmap[0] \ {k} ELSE con_bitmap[w]
  BY <1>6, <1>7 DEF FewInv, TypeOK
<1>9. \A d \in Conns : index'[d] = IF d = c THEN NoCtx ELSE index[d]
  BY <1>1 DEF FewInv, TypeOK
<1>10. Live' = Live \ {c} /\ Live \subseteq Conns
  BY <1>9 DEF Live
<1>11. TypeOK'
  BY IInvDeallocate DEF IInv
<1>12. con_bitmap'[0] = {index'[d] : d \in Live'}
  <2>1. con_bitmap'[0] = {index[d] : d \in Live} \ {index[c]}
    BY <1>8, ZeroIsWord DEF FewInv
  <2>2. {index[d] : d \in Live} \ {index[c]} = {index[d] : d \in Live \ {c}}
    BY <1>1 DEF FewInv
  <2>3. {index[d] : d \in Live \ {c}} = {index'[d] : d \in Live'}
    BY <1>9, <1>10
  <2> QED BY <2>1, <2>2, <2>3
<1>13. \A w \in Words \ {0} : con_bitmap'[w] = {}
  BY <1>8 DEF FewInv
<1>14. \A d \in Live' : index'[d] \in 0 .. IntBits - 2
  BY <1>9, <1>10 DEF FewInv
<1>15. \A d, e \in Live' : index'[d] = index'[e] => d = e
  BY <1>9, <1>10 DEF FewInv
<1> QED BY <1>11, <1>12, <1>13, <1>14, <1>15 DEF FewInv

FewIInv == IInv /\ Counted /\ (Few => FewInv)

LEMMA FewIInvInit == Init => FewIInv
<1> SUFFICES ASSUME Init PROVE FewIInv
  OBVIOUS
<1>1. Live = {}
  BY DEF Init, Live
<1>2. Counted
  BY <1>1, FS_EmptySet DEF Init, Counted
<1> QED BY <1>2, IInvInit, FewInvInit DEF FewIInv

LEMMA FewIInvNext == FewIInv /\ [Next]_vars => FewIInv'
<1> SUFFICES ASSUME FewIInv, [Next]_vars PROVE FewIInv'
  OBVIOUS
<1>1. IInv'
  BY IInvNext DEF FewIInv
<1>2. ASSUME NEW c \in Conns, johnny_allocates_connection(c) PROVE FewIInv'
  <2>1. Counted'
    BY <1>2, CountedAllocate DEF FewIInv
  <2>2. ASSUME Few' PROVE FewInv'
    <3>1. Few
      BY <1>2, <2>2, PeakGrows, Widths DEF FewIInv, IInv, TypeOK, Few
    <3> QED BY <1>2, <2>2, <3>1, FewAllocate DEF FewIInv
  <2> QED BY <1>1, <2>1, <2>2 DEF FewIInv
<1>3. ASSUME NEW c \in Conns, johnny_deallocates_connection(c) PROVE FewIInv'
  <2>1. Counted'
    BY <1>3, CountedDeallocate DEF FewIInv
  <2>2. Few' => Few
    BY <1>3 DEF johnny_deallocates_connection, Few
  <2> QED BY <1>1, <1>3, <2>1, <2>2, FewDeallocate DEF FewIInv
<1>4. CASE UNCHANGED vars
  BY <1>1, <1>4 DEF FewIInv, FewInv, TypeOK, Live, Counted, Few, vars
<1> QED BY <1>2, <1>3, <1>4 DEF Next

\* An open connection on the stack has a context.
LEMMA OnStackIsLive == \A c \in Conns : OnStack(c) => c \in Live
BY SlotsAssumption DEF OnStack, Live

LEMMA FewInvIsExclusive == FewInv => Exclusive
BY OnStackIsLive DEF FewInv, Exclusive

LEMMA FewInvTracks ==
  ASSUME FewInv, NEW w \in Words, NEW b \in Bits
  PROVE  b \in con_bitmap[w] <=>
           \E c \in Conns : index[c] = w * JOHNNY_BITS_PER_LONG + b
<1>1. w * JOHNNY_BITS_PER_LONG + b \in Int
  BY Widths DEF Words, Bits
<1>2. \A c \in Conns : index[c] = w * JOHNNY_BITS_PER_LONG + b => c \in Live
  BY <1>1, SlotsAssumption DEF Live
<1>3. Live \subseteq Conns
  BY DEF Live
<1>4. CASE w = 0
  <2>1. w * JOHNNY_BITS_PER_LONG + b = b
    BY <1>4, Widths DEF Bits
  <2> QED BY <1>2, <1>3, <1>4, <2>1 DEF FewInv
<1>5. CASE w # 0
  <2>1. w * JOHNNY_BITS_PER_LONG + b >= JOHNNY_BITS_PER_LONG
    BY <1>5, Widths DEF Words, Bits
  <2>2. \A c \in Live : index[c] \in Nat /\ index[c] < JOHNNY_BITS_PER_LONG
    BY Widths DEF FewInv
  <2>3. con_bitmap[w] = {}
    BY <1>5 DEF FewInv
  <2> QED BY <1>1, <1>2, <2>1, <2>2, <2>3, Widths
<1> QED BY <1>4, <1>5

(***************************************************************************)
(* As long as there were never as many connections open as an int has      *)
(* bits, two of them never share a context, in whatever order they come    *)
(* and go.                                                                 *)
(***************************************************************************)
THEOREM Exclusiveness == Spec => []FewAreExclusive
<1>1. FewIInv => FewAreExclusive
  BY FewInvIsExclusive DEF FewIInv, FewAreExclusive
<1> QED BY <1>1, FewIInvInit, FewIInvNext, PTL DEF Spec

(***************************************************************************)
(* And no slot leaks: the bitmap has exactly the bits of open connections. *)
(***************************************************************************)
THEOREM Tracking == Spec => []FewAreTracked
<1>1. FewIInv => FewAreTracked
  BY FewInvTracks DEF FewIInv, FewAreTracked
<1> QED BY <1>1, FewIInvInit, FewIInvNext, PTL DEF Spec

=============================================================================
