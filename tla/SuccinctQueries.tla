-------------------------- MODULE SuccinctQueries --------------------------
(***************************************************************************)
(* The tables of SuccinctTables as chd.c and chd_ph.c use them: generated  *)
(* once, packed, and asked for one number after the other, packed or       *)
(* loaded from a dump.                                                     *)
(***************************************************************************)
EXTENDS SuccinctTables

CONSTANTS
  Numbers,             \* the sequences of numbers to be kept
  Ascents              \* the ascending sequences to be ranked

ASSUME QueriesAssumption ==
  /\ \A s \in Numbers : s \in Seq(Nat) \ {<<>>}
  /\ \A s \in Ascents : /\ s \in Seq(Nat) \ {<<>>}
                        /\ \A x \in 2 .. Len(s) : s[x - 1] < s[x]

VARIABLES
  kind,      \* the structure: "seq" or "rank"
  vals,      \* what it was generated from: vals_table, from 1
  packed,    \* the structure, generated and packed
  idx, found \* the last query and its result

vars == <<kind, vals, packed, idx, found>>

None == -1

Init ==
  /\ \/ kind = "seq" /\ vals \in Numbers
     \/ kind = "rank" /\ vals \in {v \in Ascents : RankIsDefined(v)}
  /\ packed = <<>> /\ idx = None /\ found = None

\* compressed_seq_generate and chd_ph_pack, compressed_rank_generate and
\* compressed_rank_pack.
Generate ==
  /\ packed = <<>>
  /\ packed' = IF kind = "seq"
                 THEN compressed_seq_pack(compressed_seq_generate(vals))
                 ELSE compressed_rank_pack(compressed_rank_generate(vals))
  /\ UNCHANGED <<kind, vals, idx, found>>

\* chd_ph_search asks for a bucket, chd_search for a bin up to one that
\* follows the last vacant one.
QuerySeq ==
  /\ kind = "seq" /\ packed # <<>>
  /\ \E cs \in {compressed_seq_unpacked(packed), compressed_seq_load(packed)} :
       \E i \in 0 .. Len(vals) - 1 : idx' = i /\ found' = compressed_seq_query(cs, i)
  /\ UNCHANGED <<kind, vals, packed>>

QueryRank ==
  /\ kind = "rank" /\ packed # <<>>
  /\ \E cr \in {compressed_rank_unpacked(packed), compressed_rank_load(packed)} :
       \E i \in 0 .. vals[Len(vals)] + 1 : idx' = i /\ found' = compressed_rank_query(cr, i)
  /\ UNCHANGED <<kind, vals, packed>>

Next == Generate \/ QuerySeq \/ QueryRank

Spec == Init /\ [][Next]_vars

---------------------------------------------------------------------------
(* Properties. *)

\* Whatever the lengths of the numbers, and wherever their strings cross a
\* word, compressed_seq_query gives each of them back: the displacement a
\* bucket was placed with is the one its keys are looked up with.  The
\* packed sequence is as long as compressed_seq_packed_size says.
SequenceIsKept ==
  /\ kind = "seq" /\ idx # None => found = vals[idx + 1]
  /\ kind = "seq" /\ packed # <<>> =>
       compressed_seq_packed_size(compressed_seq_load(packed)) = Len(packed)

\* compressed_rank_query counts the vacant bins before a bin, for those that
\* are vacant, those that are not, and those after the last vacant one.  The
\* packed rank is as long as compressed_rank_packed_size says.
RankCounts ==
  /\ kind = "rank" /\ idx # None =>
       found = Cardinality({x \in 1 .. Len(vals) : vals[x] < idx})
  /\ kind = "rank" /\ packed # <<>> =>
       compressed_rank_packed_size(compressed_rank_load(packed)) = Len(packed)
=============================================================================
