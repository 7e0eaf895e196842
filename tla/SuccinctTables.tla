--------------------------- MODULE SuccinctTables ---------------------------
(***************************************************************************)
(* The tables a CHD function is stored in: bit strings in words            *)
(* (cmph/src/bitbool.h), select over a vector of bits (select.c), the      *)
(* displacements as a sequence of numbers of different lengths             *)
(* (compressed_seq.c) and the rank of the vacant bins (compressed_rank.c). *)
(*                                                                         *)
(* A word is the set of its bits that are one.  The bytes of bits_vec, in  *)
(* which select looks, are those of its words on a little-endian machine.  *)
(* A structure is dumped into an array of words, of which the queries and  *)
(* the load read the offsets back; words that hold a number are that       *)
(* number.                                                                 *)
(* The widths are parameters so that small tables have many words, bytes   *)
(* and steps.                                                              *)
(***************************************************************************)
EXTENDS Integers, Sequences, FiniteSets, SequencesExt, FiniteSetsExt

CONSTANTS
  WordBits,            \* 32
  ByteBits,            \* 8
  STEP_SELECT_TABLE    \* 128

ASSUME TablesAssumption ==
  /\ WordBits \in Nat \ {0} /\ ByteBits \in Nat \ {0} /\ WordBits % ByteBits = 0
  /\ STEP_SELECT_TABLE \in Nat \ {0}

---------------------------------------------------------------------------
(* bitbool.h *)

Bits(x) == {b \in 0 .. WordBits - 1 : (x \div 2^b) % 2 = 1}
Value(word) == SumSet({2^b : b \in word})
Mask(length) == 0 .. length - 1
ShiftLeft(word, s) == {b + s : b \in word} \cap 0 .. WordBits - 1
ShiftRight(word, s) == {b - s : b \in {c \in word : c >= s}}

\* The words for so many bits.
WordsFor(bits) == (bits + WordBits - 1) \div WordBits
Zeroed(words) == [w \in 0 .. words - 1 |-> {}]

\* Mutant: a string is never taken to cross into the next word.
CrossesNever(pos, length) == FALSE

\* A string that does not fit in the rest of its word goes on in the next.
Crosses(pos, length) == WordBits - (pos % WordBits) < length

set_bits_at_pos(t, pos, string, length) ==
  LET word == pos \div WordBits
      shift1 == pos % WordBits
      shift2 == WordBits - shift1
      first == [t EXCEPT ![word] =
                  (@ \ ShiftLeft(Mask(length), shift1)) \cup ShiftLeft(string, shift1)]
  IN  IF Crosses(pos, length)
        THEN [first EXCEPT ![word + 1] =
                (@ \ ShiftRight(Mask(length), shift2)) \cup ShiftRight(string, shift2)]
        ELSE first

get_bits_at_pos(t, pos, length) ==
  LET word == pos \div WordBits
      shift1 == pos % WordBits
      first == ShiftRight(t[word], shift1) \cap Mask(length)
  IN  IF Crosses(pos, length)
        THEN first \cup (ShiftLeft(t[word + 1], WordBits - shift1) \cap Mask(length))
        ELSE first

set_bits_value(t, i, string, length) == set_bits_at_pos(t, i * length, string, length)
get_bits_value(t, i, length) == Value(get_bits_at_pos(t, i * length, length))

\* The words of an array, and an array of the words of p from `at' on.
WordsOf(array) == [w \in 1 .. Cardinality(DOMAIN array) |-> array[w - 1]]
ArrayAt(p, at, words) == [w \in 0 .. words - 1 |-> p[at + w]]

i_log2(x) == Max({0} \cup {k \in 0 .. WordBits - 1 : 2^k <= x})

---------------------------------------------------------------------------
(* select.c *)

\* The bits of byte v of a vector.
ByteOf(bits, v) == {b % ByteBits : b \in {c \in bits : c \div ByteBits = v}}
rank_lookup_table(byte) == Cardinality(byte)
select_lookup_table(byte, i) ==
  CHOOSE b \in byte : Cardinality({c \in byte : c < b}) = i

\* The one that is `one' ones after the first bit of byte `from'.
FindOne(bits, from, one) ==
  LET RankTo(v) == Cardinality({b \in bits : b \div ByteBits \in from .. v - 1})
      v == CHOOSE v \in from .. Max(bits) \div ByteBits :
             RankTo(v) <= one /\ one < RankTo(v + 1)
  IN  select_lookup_table(ByteOf(bits, v), one - RankTo(v)) + v * ByteBits

\* keys_vec, ascending with repetitions and at most m, as the ones of a
\* vector whose zeros count up to m.  Where the ones end with a step the
\* table has an entry more than is filled.
select_generate(keys_vec, m) ==
  LET n == Len(keys_vec)
      bits == {keys_vec[x] + x - 1 : x \in 1 .. n}
  IN  [n |-> n, m |-> m, bits_vec |-> bits,
       select_table |-> [t \in 0 .. n \div STEP_SELECT_TABLE |->
                           IF t * STEP_SELECT_TABLE < n THEN FindOne(bits, 0, t * STEP_SELECT_TABLE)
                                                        ELSE 0]]

OnesBefore(sel, bit) ==
  rank_lookup_table({b \in ByteOf(sel.bits_vec, bit \div ByteBits) : b < bit % ByteBits})

select_query(sel, one_idx) ==
  LET start == sel.select_table[one_idx \div STEP_SELECT_TABLE]
  IN  FindOne(sel.bits_vec, start \div ByteBits,
              (one_idx % STEP_SELECT_TABLE) + OnesBefore(sel, start))

select_next_query(sel, vec_bit_idx) ==
  FindOne(sel.bits_vec, vec_bit_idx \div ByteBits, OnesBefore(sel, vec_bit_idx) + 1)

select_dump(sel) ==
  <<sel.n, sel.m>>
    \o [w \in 1 .. WordsFor(sel.n + sel.m) |->
          {b % WordBits : b \in {c \in sel.bits_vec : c \div WordBits = w - 1}}]
    \o WordsOf(sel.select_table)

\* In words.
select_packed_size(sel) == 2 + WordsFor(sel.n + sel.m) + (sel.n \div STEP_SELECT_TABLE) + 1

\* The structure that was dumped at `at', for select_query_packed as well.
select_load(p, at) ==
  LET n == p[at]
      m == p[at + 1]
      vec_size == WordsFor(n + m)
  IN  [n |-> n, m |-> m,
       bits_vec |-> UNION {{w * WordBits + b : b \in p[at + 2 + w]} : w \in 0 .. vec_size - 1},
       select_table |-> ArrayAt(p, at + 2 + vec_size, (n \div STEP_SELECT_TABLE) + 1)]

---------------------------------------------------------------------------
(* compressed_seq.c *)

LengthOf(v) == IF v = 0 THEN 0 ELSE i_log2(v + 1)
EndOf(v, x) == FoldLeft(LAMBDA sum, y : sum + LengthOf(y), 0, SubSeq(v, 1, x))

\* Numbers are kept without their leading one, end to end, and the ends of
\* their strings by quotient and remainder.
compressed_seq_generate(v) ==
  LET n == Len(v)
      total == EndOf(v, n)
      rem_r == Max({1, i_log2(total \div n)})
      Stored(t, x) ==
        IF v[x] = 0 THEN t
        ELSE set_bits_at_pos(t, EndOf(v, x - 1), Bits(v[x] - (2^LengthOf(v[x]) - 1)), LengthOf(v[x]))
      Remainder(t, x) ==
        set_bits_value(t, x - 1, Bits(EndOf(v, x)) \cap Mask(rem_r), rem_r)
      places == [x \in 1 .. n |-> x]
  IN  [n |-> n, rem_r |-> rem_r, total_length |-> total,
       store_table |-> FoldLeft(Stored, Zeroed(WordsFor(total)), places),
       length_rems |-> FoldLeft(Remainder, Zeroed(WordsFor(n * rem_r)), places),
       sel |-> select_generate([x \in 1 .. n |-> EndOf(v, x) \div 2^rem_r], total \div 2^rem_r)]

compressed_seq_dump(cs) ==
  LET sel == select_dump(cs.sel)
  IN  <<cs.n, cs.rem_r, cs.total_length, Len(sel)>>
        \o sel \o WordsOf(cs.length_rems) \o WordsOf(cs.store_table)

compressed_seq_pack(cs) == compressed_seq_dump(cs)

compressed_seq_packed_size(cs) ==
  4 + select_packed_size(cs.sel) + WordsFor(cs.total_length) + WordsFor(cs.n * cs.rem_r)

compressed_seq_load(p) ==
  LET n == p[1]
      rem_r == p[2]
      total == p[3]
      length_rems == 5 + p[4]
      store_table == length_rems + WordsFor(n * rem_r)
  IN  [n |-> n, rem_r |-> rem_r, total_length |-> total, sel |-> select_load(p, 5),
       length_rems |-> ArrayAt(p, length_rems, WordsFor(n * rem_r)),
       store_table |-> ArrayAt(p, store_table, WordsFor(total))]

\* compressed_seq_query_packed finds the parts by the sizes before them.
compressed_seq_unpacked(p) ==
  LET n == p[1]
      rem_r == p[2]
      length_rems == 5 + p[4]
      store_table == length_rems + WordsFor(n * rem_r)
  IN  [n |-> n, rem_r |-> rem_r, sel |-> select_load(p, 5),
       length_rems |-> ArrayAt(p, length_rems, store_table - length_rems),
       store_table |-> ArrayAt(p, store_table, Len(p) + 1 - store_table)]

compressed_seq_query(cs, i) ==
  LET before == select_query(cs.sel, i - 1)
      here == IF i = 0 THEN select_query(cs.sel, 0) ELSE select_next_query(cs.sel, before)
      enc_idx == IF i = 0 THEN 0
                 ELSE (before - (i - 1)) * 2^cs.rem_r + get_bits_value(cs.length_rems, i - 1, cs.rem_r)
      enc_length == (here - i) * 2^cs.rem_r + get_bits_value(cs.length_rems, i, cs.rem_r) - enc_idx
  IN  IF enc_length = 0 THEN 0
      ELSE Value(get_bits_at_pos(cs.store_table, enc_idx, enc_length)) + 2^enc_length - 1

---------------------------------------------------------------------------
(* compressed_rank.c *)

\* The values by quotient and remainder; select_vec has, for each quotient
\* but the first, the number of values with a smaller one.
compressed_rank_generate(v) ==
  LET n == Len(v)
      max_val == v[n]
      rem_r == Max({1, i_log2(max_val \div n)})
      Remainder(t, x) == set_bits_value(t, x - 1, Bits(v[x]) \cap Mask(rem_r), rem_r)
      select_vec == [i \in 1 .. max_val \div 2^rem_r |->
                       Cardinality({x \in 1 .. n : v[x] \div 2^rem_r < i})]
  IN  [n |-> n, max_val |-> max_val, rem_r |-> rem_r,
       vals_rems |-> FoldLeft(Remainder, Zeroed(WordsFor(n * rem_r)), [x \in 1 .. n |-> x]),
       sel |-> select_generate(select_vec, n)]

\* With no quotient but the first select_vec has no element, and
\* select_generate reads its first one.
RankIsDefined(v) == v[Len(v)] >= 2

compressed_rank_dump(cr) ==
  LET sel == select_dump(cr.sel)
  IN  <<cr.max_val, cr.n, cr.rem_r, Len(sel)>> \o sel \o WordsOf(cr.vals_rems)

compressed_rank_pack(cr) == compressed_rank_dump(cr)

compressed_rank_packed_size(cr) == 4 + select_packed_size(cr.sel) + WordsFor(cr.n * cr.rem_r)

compressed_rank_load(p) ==
  [max_val |-> p[1], n |-> p[2], rem_r |-> p[3], sel |-> select_load(p, 5),
   vals_rems |-> ArrayAt(p, 5 + p[4], WordsFor(p[2] * p[3]))]

compressed_rank_unpacked(p) ==
  [max_val |-> p[1], n |-> p[2], rem_r |-> p[3], sel |-> select_load(p, 5),
   vals_rems |-> ArrayAt(p, 5 + p[4], Len(p) - 4 - p[4])]

\* Mutant: the last vacant bin counts as beyond.
BeyondOrAt(cr, i) == i >= cr.max_val

\* All the vacant bins come before this one.
Beyond(cr, i) == i > cr.max_val

compressed_rank_query(cr, i) ==
  LET quot == i \div 2^cr.rem_r
      rem == i % 2^cr.rem_r
      sel_res == IF quot = 0 THEN 0 ELSE select_query(cr.sel, quot - 1) + 1
      rank == sel_res - quot
      \* The end of this quotient, or the place of i.
      Stops(x) == \/ sel_res + x \in cr.sel.bits_vec
                  \/ get_bits_value(cr.vals_rems, rank + x, cr.rem_r) >= rem
  IN  IF Beyond(cr, i) THEN cr.n
      ELSE rank + CHOOSE x \in 0 .. cr.n : Stops(x) /\ \A y \in 0 .. x - 1 : ~Stops(y)
=============================================================================
