-------------------------------- MODULE Chd --------------------------------
(***************************************************************************)
(* CHD_PH and CHD of cmph (cmph/src/chd_ph.c, chd.c); CHD is the hash      *)
(* function of Johnny.  Every key has a bucket g and a line                *)
(* f + h * probe0 + probe1 modulo n.  The buckets are placed one size      *)
(* after the other, the largest first, by the first displacement that      *)
(* takes all the keys of a bucket to bins with room.  When the search runs *)
(* out of probes it starts again with another seed of the hash function.   *)
(* The displacements are kept in the tables of SuccinctTables; CHD closes  *)
(* up the vacant bins with another of them and is minimal then.            *)
(*                                                                         *)
(* A fresh seed is any function of the keys of the bound.  A bucket is     *)
(* known by its bucket_id, and items are kept in the order of the keys:    *)
(* those of a bucket are the items of its keys, wherever it is moved to.   *)
(***************************************************************************)
EXTENDS Integers, Sequences, FiniteSets, SequencesExt, FiniteSetsExt, StoredFunction, SetsInOrder

CONSTANTS
  Primes,             \* bound: the odd numbers that check_primality accepts
  MaxProbes(_),       \* log2(m) / 20 * 2^20 for m keys: none for a single key
  Seeds(_),           \* bound: what the hash function makes of the keys
  Iterations,         \* 100 in the code
  MappingIterations,  \* 1000 in the code
  WordBits, ByteBits, STEP_SELECT_TABLE   \* as in SuccinctTables

ASSUME ChdAssumption ==
  /\ Primes \subseteq Nat \ {0, 1} /\ MaxProbes(1) = 0
  /\ Iterations \in Nat \ {0} /\ MappingIterations \in Nat \ {0}

VARIABLES
  keys,                \* mph->key_source
  algo,                \* "chd" or "chd_ph"
  c, b, keys_per_bin,  \* the load factor in hundredths, the keys of a bucket and of a bin
  pc,                  \* "new", "mapping", "ordering", "searching", "compressing",
                       \* "closing", "done", "failed", "aborted"
  iterations, mapping_iterations,   \* what is left of them
  n,                   \* the number of bins
  hl, items,           \* the hash function, and what it makes of the keys
  max_bucket_size,
  sorted_lists,        \* for each size, the buckets_list: a sequence of bucket_id
  i, list_size,        \* the size that is placed, and sorted_lists[i].size
  j, non_placed_bucket,
  probe_num, probe0_num, probe1_num,
  occup_table,         \* how many keys a bin has
  disp_table,
  mphf

config == <<keys, algo, c, b, keys_per_bin>>
hashing == <<n, hl, items>>
counters == <<iterations, mapping_iterations>>
probes == <<probe_num, probe0_num, probe1_num>>
lists == <<max_bucket_size, sorted_lists, i, list_size, j, non_placed_bucket>>
vars == <<config, pc, counters, hashing, lists, probes, occup_table, disp_table, mphf>>

Succinct == INSTANCE SuccinctTables

m == Len(keys)
load_factor == Max({50, Min({99, c})})
bins_needed == Min({p \in Primes : p > (100 * m) \div (keys_per_bin * load_factor)})
nbuckets == m \div b + 1
Buckets == 0 .. nbuckets - 1
Bin == 0 .. n - 1

max_probes == MaxProbes(m)

\* What hash_vector makes of a key, for so many buckets and bins.
Item(v, buckets, bins) == [g |-> v[1] % buckets, f |-> v[2] % bins, h |-> (v[3] % (bins - 1)) + 1]

---------------------------------------------------------------------------
(* chd_ph_mapping and chd_ph_ordering. *)

\* Before chd_new or chd_ph_new is called.
Init ==
  /\ mapping_iterations = 0 /\ n = 0 /\ hl = <<>> /\ items = <<>>
  /\ max_bucket_size = 0 /\ sorted_lists = <<>> /\ list_size = 0 /\ non_placed_bucket = 0
  /\ probe_num = 0 /\ probe0_num = 0 /\ probe1_num = 0
  /\ occup_table = <<>> /\ disp_table = <<>>

Called ==
  /\ pc = "new" /\ pc' = "mapping"
  /\ iterations' = Iterations /\ mapping_iterations' = MappingIterations
  /\ n' = bins_needed /\ occup_table' = [bin \in 0 .. n' - 1 |-> 0]
  /\ disp_table' = [bucket \in Buckets |-> 0]
  /\ UNCHANGED <<config, hl, items, lists, probes, mphf>>

\* The items of a bucket, in the order of the source.
InBucket(its, bucket) ==
  LET own == Ascending({x \in DOMAIN its : its[x].g = bucket})
  IN  [x \in DOMAIN own |-> its[own[x]]]

\* A mapping that fails destroys its hash state; max_bucket_size is not
\* reset for the next one.
chd_ph_mapping ==
  /\ pc = "mapping"
  /\ \E seed \in Seeds(keys) :
       LET state == hash_state_new(seed)
           its == [x \in 1 .. m |-> Item(hash(state, keys[x]), nbuckets, n)]
       IN  /\ max_bucket_size' =
                Max({max_bucket_size} \cup {Len(InBucket(its, bucket)) : bucket \in Buckets})
           /\ IF IsInjective(its)   \* chd_ph_bucket_insert refuses an item twice
                THEN hl' = state /\ items' = its /\ pc' = "ordering"
                ELSE /\ hl' = <<>> /\ items' = <<>>
                     /\ pc' = IF mapping_iterations = 1 THEN "failed" ELSE "mapping"
  /\ mapping_iterations' = mapping_iterations - 1
  /\ UNCHANGED <<config, n, iterations, sorted_lists, i, list_size, j, non_placed_bucket,
                 probes, occup_table, disp_table, mphf>>

BucketsOfSize(s) == Ascending({bucket \in Buckets : Len(InBucket(items, bucket)) = s})

\* The start of the search among the buckets of a size.
StartsList(s, list) ==
  /\ i' = s /\ list_size' = Len(list) /\ j' = 0 /\ non_placed_bucket' = 0
  /\ probe_num' = 0 /\ probe0_num' = 0 /\ probe1_num' = 0

chd_ph_ordering ==
  /\ pc = "ordering" /\ pc' = "searching"
  /\ sorted_lists' = [s \in 1 .. max_bucket_size |-> BucketsOfSize(s)]
  /\ StartsList(max_bucket_size, BucketsOfSize(max_bucket_size))
  /\ UNCHANGED <<config, counters, hashing, max_bucket_size, occup_table, disp_table, mphf>>

---------------------------------------------------------------------------
(* chd_ph_searching: place_buckets2, as use_h is always set. *)

Position(item, probe0, probe1, bins) == (item.f + item.h * probe0 + probe1) % bins

\* The bins of the items of a bucket, under the current probe.
BinsOf(bucket) ==
  LET its == InBucket(items, bucket) IN
  [x \in DOMAIN its |-> Position(its[x], probe0_num, probe1_num, n)]

\* A table in which some bins, with repetitions, have more keys or fewer.
Counted(table, bins, by) ==
  [bin \in DOMAIN table |-> table[bin] + by * Quantify(DOMAIN bins, LAMBDA x : bins[x] = bin)]

\* The bins, in their order, that have room before one has not.
Placeable(bins) ==
  SubSeq(bins, 1, Max({x \in 0 .. Len(bins) :
    \A y \in 1 .. x :
      Counted(occup_table, SubSeq(bins, 1, y - 1), 1)[bins[y]] < keys_per_bin}))

\* The items that were placed are taken out of the table again.
Undone(bins) == Counted(Counted(occup_table, bins, 1), bins, -1)

\* Mutant: a bucket that was not placed stays where it is in the list.
NotPlaced_in_place(bucket, placed) ==
  /\ occup_table' = Undone(placed) /\ non_placed_bucket' = non_placed_bucket + 1
  /\ UNCHANGED <<sorted_lists, disp_table>>

\* The buckets that do not fit are moved to the front of the list, over
\* those that were placed.
NotPlaced(bucket, placed) ==
  /\ occup_table' = Undone(placed) /\ non_placed_bucket' = non_placed_bucket + 1
  /\ sorted_lists' = [sorted_lists EXCEPT ![i][non_placed_bucket + 1] = bucket]
  /\ UNCHANGED disp_table

\* One bucket of the list under the current probe.
place_bucket_probe ==
  /\ pc = "searching" /\ j < list_size /\ j' = j + 1
  /\ LET bucket == sorted_lists[i][j + 1] IN
     \E bins \in {BinsOf(bucket)} :
       LET placed == Placeable(bins) IN
       IF Len(placed) = i
         THEN /\ occup_table' = Counted(occup_table, placed, 1)
              /\ disp_table' = [disp_table EXCEPT ![bucket] = probe0_num + probe1_num * n]
              /\ UNCHANGED <<sorted_lists, non_placed_bucket>>
         ELSE NotPlaced(bucket, placed)
  /\ UNCHANGED <<config, pc, counters, hashing, max_bucket_size, i, list_size, probes, mphf>>

AtEndOfList == pc = "searching" /\ j = list_size /\ list_size # 0

\* Mutant: probe0 runs on past the number of bins.
AdvancesProbe0 ==
  /\ probe_num' = probe_num + 1
  /\ probe0_num' = probe0_num + 1
  /\ probe1_num' = probe1_num

AdvancesProbe ==
  /\ probe_num' = probe_num + 1
  /\ probe0_num' = (probe0_num + 1) % n
  /\ probe1_num' = IF probe0_num + 1 >= n THEN probe1_num + 1 ELSE probe1_num

\* The last probe is spent even if it has placed every bucket.
OutOfProbes ==
  \/ probe_num + 1 >= max_probes
  \/ probe0_num + 1 >= n /\ probe1_num + 1 >= n

\* The next probe, for the buckets of the list that were not placed.
NextProbe ==
  /\ AtEndOfList /\ ~OutOfProbes
  /\ AdvancesProbe
  /\ list_size' = non_placed_bucket /\ j' = 0 /\ non_placed_bucket' = 0
  /\ UNCHANGED <<config, pc, counters, hashing, max_bucket_size, sorted_lists, i,
                 occup_table, disp_table, mphf>>

\* The search has failed: chd_ph_new clears the table and takes another
\* seed; the hash state and the lists are given up.
SearchFails ==
  /\ AtEndOfList /\ OutOfProbes
  /\ iterations' = iterations - 1 /\ mapping_iterations' = MappingIterations
  /\ occup_table' = [bin \in Bin |-> 0]
  /\ pc' = IF iterations = 1 THEN "failed" ELSE "mapping"
  /\ hl' = <<>> /\ items' = <<>> /\ max_bucket_size' = 0 /\ sorted_lists' = <<>>
  /\ StartsList(0, <<>>)
  /\ UNCHANGED <<config, n, disp_table, mphf>>

NextSize ==
  /\ pc = "searching" /\ list_size = 0
  /\ IF i > 1
       THEN StartsList(i - 1, sorted_lists[i - 1]) /\ pc' = pc
       ELSE pc' = "compressing" /\ UNCHANGED <<i, list_size, j, non_placed_bucket, probes>>
  /\ UNCHANGED <<config, counters, hashing, max_bucket_size, sorted_lists, occup_table, disp_table,
                 mphf>>

---------------------------------------------------------------------------
(* CHD_PH: the function, and its two stored forms.  The sequence is one    *)
(* field, of words.                                                        *)

\* The function is made; CHD goes on with it.
Compresses ==
  /\ pc = "compressing" /\ pc' = IF algo = "chd" THEN "closing" ELSE "done"
  /\ mphf' =
       [algo |-> "chd_ph", size |-> n, data |->
         [cs |-> Succinct!compressed_seq_generate([x \in 1 .. nbuckets |-> disp_table[x - 1]]),
          hl |-> hl, n |-> n, nbuckets |-> nbuckets]]
  /\ UNCHANGED <<config, counters, hashing, lists, probes, occup_table, disp_table>>

Words(words) == Field(4 * Len(words), words)

\* Mutant: probe1 counts the probes, not the rounds.
Displaced_swapped(item, disp, bins) == Position(item, disp \div bins, disp % bins, bins)

Displaced(item, disp, bins) == Position(item, disp % bins, disp \div bins, bins)

chd_ph_search(f, key) ==
  LET d == f.data
      item == Item(hash(d.hl, key), d.nbuckets, d.n)
  IN  Displaced(item, Succinct!compressed_seq_query(d.cs, item.g), d.n)

chd_ph_dump(f) ==
  LET cs == Succinct!compressed_seq_dump(f.data.cs) IN
  __cmph_dump(f) \o hash_state_dump(f.data.hl)
    \o <<Word(4 * Len(cs)), Words(cs), Word(f.data.n), Word(f.data.nbuckets)>>

chd_ph_load(f) ==
  [hl |-> hash_state_load(f[2].value), cs |-> Succinct!compressed_seq_load(f[4].value),
   n |-> f[5].value, nbuckets |-> f[6].value]

chd_ph_pack(f) ==
  PackedHash(f.data.hl)
    \o <<Word(f.data.n), Word(f.data.nbuckets), Words(Succinct!compressed_seq_pack(f.data.cs))>>

chd_ph_packed_size(f) ==
  4 + hash_state_packed_size(hash_get_type(f.data.hl))
    + 4 * Succinct!compressed_seq_packed_size(f.data.cs) + 3 * 4

chd_ph_search_packed(p, key) ==
  LET ptr == 4 + hash_state_packed_size(At(p, 0))
      bins == At(p, ptr)
      item == Item(hash_packed(At(p, 4), key), At(p, ptr + 4), bins)
      cs == Succinct!compressed_seq_unpacked(At(p, ptr + 8))
  IN  Displaced(item, Succinct!compressed_seq_query(cs, item.g), bins)

---------------------------------------------------------------------------
(* CHD: the packed function of CHD_PH, and the rank of the vacant bins.    *)

\* Mutant: the bits that are set are taken for vacant.
VacantIfSet == Ascending({bin \in Bin : occup_table[bin] # 0})

\* The bins whose bit is clear.  With several keys to a bin the table has a
\* byte for each, but is read bit by bit all the same.
Vacant ==
  Ascending({bin \in Bin :
    IF keys_per_bin = 1 THEN occup_table[bin] = 0
    ELSE (occup_table[bin \div ByteBits] \div 2^(bin % ByteBits)) % 2 = 0})

\* vals_table holds the vacant bins, and there is a rank of them.
IsCompressible == n > m /\ Len(Vacant) = n - m /\ Succinct!RankIsDefined(Vacant)

\* The function of CHD_PH is packed and the rank added; or else CHD writes
\* behind vals_table, or reads behind select_vec.
Ranks ==
  /\ pc = "closing"
  /\ IF IsCompressible
       THEN \E cr \in {Succinct!compressed_rank_generate(Vacant)} :
              /\ mphf' =
                   [algo |-> "chd", size |-> m, data |->
                     [packed_chd_phf |-> <<Word("chd_ph")>> \o chd_ph_pack(mphf),   \* cmph_pack
                      packed_chd_phf_size |-> chd_ph_packed_size(mphf),
                      packed_cr |-> Succinct!compressed_rank_pack(cr),
                      packed_cr_size |-> 4 * Succinct!compressed_rank_packed_size(cr)]]
              /\ pc' = "done"
       ELSE pc' = "aborted" /\ UNCHANGED mphf
  /\ UNCHANGED <<config, counters, hashing, lists, probes, occup_table, disp_table>>

chd_ph_searching == place_bucket_probe \/ NextProbe \/ SearchFails \/ NextSize

Searches == Called \/ chd_ph_mapping \/ chd_ph_ordering \/ chd_ph_searching

chd_new == Searches \/ Compresses \/ Ranks

\* What Compresses and Ranks do to pc, for the fairness that is asked of them.
Found == algo \in {"chd", "chd_ph"} /\ pc \in {"compressing", "closing"}
MakesTables == Found /\ pc' \in {"closing", "done", "aborted"} \ {pc}

\* Mutant: the bin itself counts, if it is vacant.
ClosedUp_inclusive(cr, bin) ==
  bin - Succinct!compressed_rank_query(Succinct!compressed_rank_unpacked(cr), bin + 1)

\* A bin without the vacant bins before it.
ClosedUp(cr, bin) ==
  bin - Succinct!compressed_rank_query(Succinct!compressed_rank_unpacked(cr), bin)

_chd_search(phf, cr, key) == ClosedUp(cr, chd_ph_search_packed(Tail(phf), key))

chd_search(f, key) == _chd_search(f.data.packed_chd_phf, f.data.packed_cr, key)

chd_dump(f) ==
  LET d == f.data IN
  __cmph_dump(f)
    \o <<Word(d.packed_chd_phf_size), Field(d.packed_chd_phf_size, d.packed_chd_phf),
         Word(d.packed_cr_size), Field(d.packed_cr_size, d.packed_cr)>>

chd_load(f) ==
  [packed_chd_phf_size |-> f[1].value, packed_chd_phf |-> f[2].value,
   packed_cr_size |-> f[3].value, packed_cr |-> f[4].value]

\* The rank comes first.
chd_pack(f) ==
  LET d == f.data IN
  <<Word(d.packed_cr_size), Field(d.packed_cr_size, d.packed_cr),
    Word(d.packed_chd_phf_size), Field(d.packed_chd_phf_size, d.packed_chd_phf)>>

chd_packed_size(f) == 4 + 2 * 4 + f.data.packed_cr_size + f.data.packed_chd_phf_size

chd_search_packed(p, key) == _chd_search(At(p, 4 + At(p, 0) + 4), At(p, 4), key)

---------------------------------------------------------------------------
(* Properties. *)

\* The types; probe0 and probe1 stay below n, as the displacement needs.
TypeOK ==
  /\ pc \in {"new", "mapping", "ordering", "searching", "compressing", "closing", "done",
            "failed", "aborted"}
  /\ iterations \in 0 .. Iterations /\ mapping_iterations \in 0 .. MappingIterations
  /\ hl = <<>> \/ (hl = hash_state_new(hl.seed) /\ hl.seed \in Seeds(keys))
  /\ max_bucket_size \in 0 .. m /\ i \in 0 .. m
  /\ \A s \in DOMAIN sorted_lists : sorted_lists[s] \in Seq(Buckets)
  /\ list_size \in 0 .. nbuckets /\ j \in 0 .. list_size /\ non_placed_bucket \in 0 .. j
  /\ probe_num \in 0 .. max_probes
  /\ pc # "new" => /\ probe0_num \in Bin /\ probe1_num \in Bin
                   /\ occup_table \in [Bin -> 0 .. keys_per_bin]
                   /\ disp_table \in [Buckets -> 0 .. n * n - 1]

\* The buckets that the search has still to place.
Waiting ==
  (UNION {ToSet(sorted_lists[s]) : s \in 1 .. i - 1})
    \cup {sorted_lists[i][x] : x \in 1 .. non_placed_bucket \cup j + 1 .. list_size}

PlacedItems == {x \in 1 .. m : items[x].g \notin Waiting}

PlacedBin(x) == Displaced(items[x], disp_table[items[x].g], n)

\* A bucket is lost by no failed probe and by no overwriting of the list:
\* a bin has the keys of the buckets that do not wait any more, under the
\* displacement noted for them, and no more than it has room for.
TakenByThePlaced ==
  pc \in {"searching", "compressing", "closing", "done"} =>
    LET placed == PlacedItems IN
    \A bin \in Bin :
      /\ occup_table[bin] = Cardinality({x \in placed : PlacedBin(x) = bin})
      /\ occup_table[bin] <= keys_per_bin

\* The place of a key, and, for CHD, its place among the bins that are taken.
NumberOf(key) ==
  LET bin == PlacedBin(CHOOSE x \in 1 .. m : keys[x] = key) IN
  IF algo = "chd" THEN bin - Quantify(0 .. bin - 1, LAMBDA x : occup_table[x] = 0) ELSE bin

\* The function finds each key where the search has placed it, whatever the
\* compressed tables make of the displacements.  And whatever bin the hash
\* of another name gives, chd_search stays within one of the array, which it
\* leaves only for a bin that no key has, when the last one is vacant.
FindsWhatIsPlaced ==
  pc = "done" =>
    IF algo = "chd_ph" THEN \A x \in 1 .. m : chd_ph_search(mphf, keys[x]) = NumberOf(keys[x])
    ELSE /\ \A x \in 1 .. m : chd_search(mphf, keys[x]) = NumberOf(keys[x])
         /\ \A bin \in Bin :
              LET index == ClosedUp(mphf.data.packed_cr, bin) IN
              /\ index \in 0 .. m
              /\ index = m => occup_table[bin] = 0 /\ occup_table[n - 1] = 0

\* What CHD cannot close up: bins of several keys, and as few vacant bins as
\* may all be among the first two.  With the load factor that Johnny leaves
\* at its default neither happens.
BreaksOnlyWhen ==
  pc = "aborted" => algo = "chd" /\ (keys_per_bin > 1 \/ n - m < 3)
=============================================================================
