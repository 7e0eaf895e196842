--------------------------- MODULE ConnectionSlots ---------------------------
(***************************************************************************)
(* The connection-context allocator of one Johnny worker thread            *)
(* (johnny_worker.c, johnny_global.c): a thread-local array con_ctx of     *)
(* JOHNNY_STACK_CONNECTIONS contexts, the bitmap con_bitmap that says      *)
(* which of them are taken, and malloc for the connections that find every *)
(* word of the bitmap full.                                                *)
(*                                                                         *)
(* A word of con_bitmap (a signed long) is the set of the positions of its *)
(* one bits.  What the code computes with C integers of two different      *)
(* widths is kept: `1 << index` is an int, sign-extended to a long.        *)
(***************************************************************************)
EXTENDS Integers, FiniteSets

CONSTANTS
  JOHNNY_CON_BITMAP_LEN,  \* words in con_bitmap
  JOHNNY_BITS_PER_LONG,   \* width of a long (64 in the build)
  IntBits,                \* width of an int (32 in the build)
  Conns,                  \* file descriptors of connections
  MaxLive,                \* bound: connections open at once
  NoCtx                   \* the connection has no context

ASSUME SlotsAssumption ==
  /\ JOHNNY_CON_BITMAP_LEN \in Nat \ {0}
  /\ IntBits \in Nat \ {0}
  /\ JOHNNY_BITS_PER_LONG = 2 * IntBits
  /\ IsFiniteSet(Conns)
  /\ MaxLive \in Nat
  /\ NoCtx \notin Int

VARIABLES
  con_bitmap,  \* [word -> set of one bits]
  index,       \* [connection -> ctx->index, or NoCtx]
  peak         \* history: the most connections open at once so far

vars == <<con_bitmap, index, peak>>

JOHNNY_STACK_CONNECTIONS == JOHNNY_CON_BITMAP_LEN * JOHNNY_BITS_PER_LONG
Words == 0 .. JOHNNY_CON_BITMAP_LEN - 1
Bits  == 0 .. JOHNNY_BITS_PER_LONG - 1
Live  == {c \in Conns : index[c] # NoCtx}

TypeOK ==
  /\ con_bitmap \in [Words -> SUBSET Bits]
  /\ index \in [Conns -> 0 .. JOHNNY_STACK_CONNECTIONS \cup {NoCtx}]
  /\ peak \in Nat

Init ==
  /\ con_bitmap = [w \in Words |-> {}]
  /\ index = [c \in Conns |-> NoCtx]
  /\ peak = 0

\* Mutants: a shift without bound, and one whose int is not sign-extended.
ShiftOneUnbounded(k) == {k}
ShiftOneUnsigned(k) == {k % IntBits}

(***************************************************************************)
(* The bits of (long)(1 << k).  The processors the server is built for     *)
(* take the shift count of an int modulo its width, and the sign bit of    *)
(* the int is copied into the upper half of the long.                      *)
(***************************************************************************)
ShiftOne(k) ==
  LET b == k % IntBits
  IN  IF b = IntBits - 1 THEN IntBits - 1 .. JOHNNY_BITS_PER_LONG - 1 ELSE {b}

Full(word) == word = Bits

\* C's % keeps the sign of its left operand: a negative word is never
\* odd for the test `bits % 2 == 1`.
Negative(word) == JOHNNY_BITS_PER_LONG - 1 \in word

\* Mutant: all the taken slots are counted.
OnesOf(word) == Cardinality(word)

\* The number of iterations of the loop that skips the taken slots of a word.
TrailingOnes(word) ==
  IF Negative(word)
  THEN 0
  ELSE CHOOSE k \in Bits : k \notin word /\ 0 .. k - 1 \subseteq word

OpenWords == {w \in Words : ~Full(con_bitmap[w])}
FirstOpenWord == CHOOSE w \in OpenWords : \A v \in OpenWords : w <= v

\* johnny_allocates_connection for the descriptor c that accept4 returned.
johnny_allocates_connection(c) ==
  /\ index[c] = NoCtx
  /\ Cardinality(Live) < MaxLive
  /\ peak' = IF Cardinality(Live) < peak THEN peak ELSE Cardinality(Live) + 1
  /\ \/ /\ OpenWords = {}
        /\ index' = [index EXCEPT ![c] = JOHNNY_STACK_CONNECTIONS]
        /\ UNCHANGED con_bitmap
     \/ /\ OpenWords # {}
        /\ LET w == FirstOpenWord
               i == w * JOHNNY_BITS_PER_LONG + TrailingOnes(con_bitmap[w])
           IN  /\ index' = [index EXCEPT ![c] = i]
               /\ con_bitmap' = [con_bitmap EXCEPT ![w] = @ \cup ShiftOne(i)]

\* Mutant: or instead of exclusive or.
Or(a, b) == a \cup b

\* Exclusive or of two words.
Xor(a, b) == (a \ b) \cup (b \ a)

\* johnny_deallocates_connection of the context of c: free, or flip its bit.
johnny_deallocates_connection(c) ==
  /\ index[c] # NoCtx
  /\ index' = [index EXCEPT ![c] = NoCtx]
  /\ UNCHANGED peak
  /\ IF index[c] = JOHNNY_STACK_CONNECTIONS
     THEN UNCHANGED con_bitmap
     ELSE con_bitmap' =
            [con_bitmap EXCEPT ![index[c] \div JOHNNY_BITS_PER_LONG] =
               Xor(@, ShiftOne(index[c] % JOHNNY_BITS_PER_LONG))]

Next == \E c \in Conns : \/ johnny_allocates_connection(c)
                         \/ johnny_deallocates_connection(c)

Spec == Init /\ [][Next]_vars

-----------------------------------------------------------------------------

OnStack(c) == index[c] \in 0 .. JOHNNY_STACK_CONNECTIONS - 1

\* Never so many connections open at once as an int has bits.
Few == peak < IntBits

Exclusive ==
  \A c, d \in Conns : c # d /\ OnStack(c) /\ OnStack(d) => index[c] # index[d]

(***************************************************************************)
(* Two open connections never share a context (and so a receive buffer, a  *)
(* parser position and an unsent response), in whatever order connections  *)
(* come and go, as long as there were never IntBits of them open at once.  *)
(***************************************************************************)
FewAreExclusive == Few => Exclusive

(***************************************************************************)
(* Until then a bit of the bitmap is set exactly while an open connection  *)
(* holds its slot: neither a leaked slot nor one that would be handed out  *)
(* twice.                                                                  *)
(***************************************************************************)
FewAreTracked ==
  Few =>
    \A w \in Words : \A b \in Bits :
      b \in con_bitmap[w] <=>
        \E c \in Conns : index[c] = w * JOHNNY_BITS_PER_LONG + b

(***************************************************************************)
(* The shift that gives a slot back is by less than the width of an int,   *)
(* so it clears the bits that taking the slot set: the upper half of a     *)
(* word is never handed out, because the bit of the last int position      *)
(* fills it.  (Half of con_ctx is out of use.)                             *)
(***************************************************************************)
UpperHalfUnused ==
  \A c \in Conns : OnStack(c) => index[c] % JOHNNY_BITS_PER_LONG < IntBits

(***************************************************************************)
(* johnny_global.h sizes the buffers for one to each of the contexts of    *)
(* the array, however many of these are in use.                            *)
(***************************************************************************)
SlotsExclusive == Exclusive

=============================================================================
