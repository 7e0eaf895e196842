-------------------------------- MODULE Cmph --------------------------------
(***************************************************************************)
(* cmph as its clients use it (cmph/src/cmph.c): a key source, a           *)
(* configuration with an algorithm, cmph_new, and a function that can be   *)
(* searched, dumped and loaded again, or packed and searched in place.     *)
(* One run of cmph_new goes on at a time, so that the algorithms share the *)
(* names of what they work with.                                           *)
(***************************************************************************)
EXTENDS Integers, Sequences, SequencesExt, FiniteSets, FiniteSetsExt, StoredFunction

CONSTANTS
  Sources, BUFSIZ, NL,                          \* as in KeySource
  Algorithms(_), GraphSizes(_, _), Bs,          \* bound: what the client may choose for its
                                                \* keys, the c for an algorithm too, and b
  KeysPerBin,                                   \* bound: and keys_per_bin
  ChmSeeds(_, _), BmzSeeds(_, _), FchSeeds(_, _), BdzSeeds(_, _),
  Permuted(_), fch_calc_b(_, _),                \* as in Fch
  BrzSeeds(_, _), BucketSeeds(_), Tables(_),    \* as in Brz, from here on
  MaxFlushes, KeylenSize,
  KeysPerBucket,                                \* b of BRZ: 65 at least, 174 at most, 128 else
  ChdSeeds(_), Primes, MaxProbes(_), MappingIterations,
  WordBits, ByteBits, STEP_SELECT_TABLE,        \* as in Chd
  Memories, UsualMemory,                        \* in MB: bound, and 1
  Iterations,                                   \* of each algorithm: 20, 100 or 1000
  MapIterations, SearchingIterations, H2Iterations,
  W, ByteLimit                                  \* 2^32 and 2^8

VARIABLES
  source, nkeys, position, key, keys,           \* KeySource
  algo, c, b, keys_per_bin, memory_availability,             \* the configuration
  pc, iterations,
  iterations_map, restart_mapping, hashes, graph, critical_nodes, g, visited, used_edges,
  biggest_g_value, biggest_edge_value, q, unused_g_values, i, unused_edge_index, stack,
  hl, queue, queue_tail, marked_vertices,
  searching_iterations, iteration_to_generate_h2, h1, h2, buckets, sorted_indexes,
  random_table, map_table, filled_count, counter, z, j,
  size, h0, e, buffer, runs, entries, memory_avail_list, buffer_merge, keys_vd,
  mapping_iterations, n, items, max_bucket_size, sorted_lists, list_size, non_placed_bucket,
  probe_num, probe0_num, probe1_num, occup_table, disp_table,
  mphf,                                         \* what cmph_new or cmph_load returned
  stored                                        \* the file, or what cmph_pack wrote

sourceVars == <<source, nkeys, position, key, keys>>
config == <<algo, c, b, keys_per_bin, memory_availability>>
graphVars == <<hashes, graph, g, visited, stack>>
bmzVars == <<iterations_map, restart_mapping, critical_nodes, used_edges, biggest_g_value, biggest_edge_value,
             q, unused_g_values, unused_edge_index>>
bdzVars == <<hl, queue, queue_tail, marked_vertices>>
fchVars == <<searching_iterations, iteration_to_generate_h2, h1, h2, buckets, sorted_indexes,
             random_table, map_table, filled_count, counter, z>>
brzVars == <<size, h0, e, buffer, runs, entries, memory_avail_list, buffer_merge, keys_vd>>
chdVars == <<mapping_iterations, n, items, max_bucket_size, sorted_lists, list_size,
             non_placed_bucket, probe_num, probe0_num, probe1_num, occup_table, disp_table>>
work == <<iterations, graphVars, bmzVars, bdzVars, fchVars, brzVars, chdVars, i, j>>
vars == <<sourceVars, config, pc, work, mphf, stored>>

\* Mutant: the queue of the search proper is as short as the heuristic's.
bmz_queue_capacity_half(heuristic, ncritical) == ncritical \div 2 + 1

\* vqueue_new for the critical vertices in bmz_traverse_critical_nodes and
\* in the heuristic.
bmz_queue_capacity(heuristic, ncritical) ==
  IF heuristic THEN ncritical \div 2 + 1 ELSE ncritical + 1

Source == INSTANCE KeySource
Chm == INSTANCE Chm WITH Seeds <- ChmSeeds, Iterations <- Iterations["chm"]
Bmz == INSTANCE Bmz WITH Seeds <- BmzSeeds, Iterations <- Iterations["bmz"],
                         vqueue_capacity <- bmz_queue_capacity
Bmz8 == INSTANCE Bmz8 WITH Seeds <- BmzSeeds, Iterations <- Iterations["bmz8"]
Fch == INSTANCE Fch WITH Seeds <- FchSeeds, Iterations <- Iterations["fch"]
Bdz == INSTANCE Bdz WITH Seeds <- BdzSeeds, Iterations <- Iterations["bdz"]
BdzPh == INSTANCE BdzPh WITH Seeds <- BdzSeeds, Iterations <- Iterations["bdz_ph"]
Brz == INSTANCE Brz WITH Seeds <- BrzSeeds, Iterations <- Iterations["brz"],
                         MaxBucketSize <- ByteLimit - 1, mixh10h11h12 <- Fch!mixh10h11h12
Chd == INSTANCE Chd WITH Seeds <- ChdSeeds, Iterations <- Iterations["chd"]

\* A source holds the keys that its client sees.  A hash function takes each
\* key to a number, or to three for BDZ, and permut makes a permutation.
GraphSizesFor(ks, a) == {0} \cup GraphSizes(ks, a)
ASSUME SourcesAssumption ==
  /\ BUFSIZ \in Nat /\ BUFSIZ > 1
  /\ \A src \in Sources :
       IF src.kind = "nlfile" THEN src.data \in Seq(ToSet(src.data))
       ELSE /\ src.keys \in Seq(ToSet(src.keys)) /\ src.nkeys = Len(src.keys)
            /\ \A x \in 1 .. src.nkeys : Source!Element(src, x - 1) = src.keys[x]

\* A byte tells a degree of 1 from none.
ASSUME ByteAssumption == ByteLimit \in Nat /\ ByteLimit > 1

ASSUME HashAssumption ==
  \A src \in Sources :
    LET ks == Source!Contents(src) IN
    /\ "fch" \in Algorithms(ks) =>
         /\ FchSeeds(ks, Len(ks)) \subseteq [ToSet(ks) -> Nat]
         /\ \A permuted \in Permuted(Len(ks)) :
              permuted \in [0 .. Len(ks) - 1 -> 0 .. Len(ks) - 1] /\ IsInjective(permuted)
         /\ \A size_c \in GraphSizesFor(ks, "fch") :
              fch_calc_b(Fch!Usable(size_c), Len(ks)) \in Nat
    /\ \A a \in {"bdz", "bdz_ph"} \cap Algorithms(ks) : \A size_c \in GraphSizesFor(ks, a) :
         /\ size_c \in Nat
         /\ BdzSeeds(ks, Bdz!Third(size_c, Len(ks))) \subseteq [ToSet(ks) -> Nat \X Nat \X Nat]

---------------------------------------------------------------------------
(* The configuration. *)

Init ==
  /\ Source!Init
  /\ algo = "chm" /\ c = 0 /\ b = 0 /\ keys_per_bin = 1 /\ memory_availability = 0
  /\ iterations = 0 /\ iterations_map = 0
  /\ Bmz!Init /\ Bdz!Init /\ Fch!Init /\ Brz!Init /\ Chd!Init
  /\ mphf = <<>> /\ stored = <<>>

ReadsKeys == Source!Reads /\ UNCHANGED <<config, work, mphf, stored>>

\* b and the memory as the algorithms set them; those that are not named have
\* neither, and CHD has the configuration of a CHD_PH in its own.
bdz_config_new == [b |-> 7, memory_availability |-> 0]
brz_config_new == [b |-> KeysPerBucket.usual, memory_availability |-> UsualMemory]
chd_ph_config_new == [b |-> 4, memory_availability |-> 0]
config_new(a) ==
  CASE a = "bdz" -> bdz_config_new [] a = "brz" -> brz_config_new
    [] a \in {"chd", "chd_ph"} -> chd_ph_config_new
    [] OTHER -> [b |-> 0, memory_availability |-> 0]

\* The data of the algorithm is made anew, unless it is the same.  (bound:
\* the client chooses the algorithm before it sets c.)
cmph_config_set_algo ==
  /\ pc = "config" /\ c = 0
  /\ \E a \in Algorithms(keys) :
       /\ algo' = a
       /\ IF a = algo
            THEN UNCHANGED <<b, keys_per_bin, memory_availability>>
            ELSE /\ b' = config_new(a).b /\ keys_per_bin' = 1
                 /\ memory_availability' = config_new(a).memory_availability
  /\ UNCHANGED <<sourceVars, c, pc, work, mphf, stored>>

cmph_config_set_graphsize ==
  /\ pc = "config" /\ c' \in GraphSizes(keys, algo)
  /\ UNCHANGED <<sourceVars, algo, b, keys_per_bin, memory_availability, pc, work, mphf, stored>>

bdz_config_set_b(value) == IF value <= 2 \/ value > 10 THEN 7 ELSE value
brz_config_set_b(value) ==
  IF value < KeysPerBucket.least \/ value > KeysPerBucket.most THEN KeysPerBucket.usual ELSE value
chd_ph_config_set_b(value) == IF value < 1 \/ value >= 15 THEN 4 ELSE value

cmph_config_set_b ==
  /\ pc = "config"
  /\ \E value \in Bs :
       \/ algo = "bdz" /\ b' = bdz_config_set_b(value)
       \/ algo = "brz" /\ b' = brz_config_set_b(value)
       \/ algo \in {"chd", "chd_ph"} /\ b' = chd_ph_config_set_b(value)
  /\ UNCHANGED <<sourceVars, algo, c, keys_per_bin, memory_availability, pc, work, mphf, stored>>

chd_ph_config_set_keys_per_bin(value) == IF value <= 1 \/ value >= 128 THEN 1 ELSE value

cmph_config_set_keys_per_bin ==
  /\ pc = "config" /\ algo \in {"chd", "chd_ph"}
  /\ \E value \in KeysPerBin : keys_per_bin' = chd_ph_config_set_keys_per_bin(value)
  /\ UNCHANGED <<sourceVars, algo, c, b, memory_availability, pc, work, mphf, stored>>

cmph_config_set_memory_availability ==
  /\ pc = "config" /\ algo = "brz" /\ memory_availability' \in Memories
  /\ UNCHANGED <<sourceVars, algo, c, b, keys_per_bin, pc, work, mphf, stored>>

cmph_new == pc = "config" /\ pc' = "new" /\ UNCHANGED <<sourceVars, config, work, mphf, stored>>

\* The algorithm that was chosen.
Builds ==
  /\ \/ algo = "chm" /\ Chm!chm_new
          /\ UNCHANGED <<brzVars, chdVars, stored, bmzVars, bdzVars, fchVars, i, j>>
     \/ algo = "bmz" /\ Bmz!bmz_new /\ UNCHANGED <<brzVars, chdVars, stored, bdzVars, fchVars, j>>
     \/ algo = "bmz8" /\ Bmz8!bmz8_new /\ UNCHANGED <<brzVars, chdVars, stored, bdzVars, fchVars, j>>
     \/ algo = "fch" /\ Fch!fch_new
          /\ UNCHANGED <<brzVars, chdVars, stored, bmzVars, bdzVars, hashes, graph, visited, stack>>
     \/ algo = "bdz" /\ Bdz!bdz_new
          /\ UNCHANGED <<brzVars, chdVars, stored, bmzVars, fchVars, hashes, visited, stack, j>>
     \/ algo = "bdz_ph" /\ BdzPh!bdz_ph_new
          /\ UNCHANGED <<brzVars, chdVars, stored, bmzVars, fchVars, hashes, visited, stack, j>>
     \/ algo = "brz" /\ Brz!brz_new
          /\ UNCHANGED <<graphVars, bmzVars, bdzVars, fchVars, chdVars, i, j>>
     \/ algo \in {"chd", "chd_ph"} /\ Chd!chd_new
          /\ UNCHANGED <<graphVars, bmzVars, queue, queue_tail, marked_vertices, fchVars, brzVars, stored>>
  /\ UNCHANGED <<sourceVars, config>>

---------------------------------------------------------------------------
(* The function. *)

dump(f) ==
  CASE f.algo = "chm" -> Chm!chm_dump(f)       [] f.algo = "bmz" -> Bmz!bmz_dump(f)
    [] f.algo = "bmz8" -> Bmz8!bmz8_dump(f)    [] f.algo = "fch" -> Fch!fch_dump(f)
    [] f.algo = "bdz" -> Bdz!bdz_dump(f)       [] f.algo = "bdz_ph" -> BdzPh!bdz_ph_dump(f)
    [] f.algo = "brz" -> stored \o Brz!brz_dump(f)   \* behind what brz_new has written
    [] f.algo = "chd_ph" -> Chd!chd_ph_dump(f) [] f.algo = "chd" -> Chd!chd_dump(f)

\* The algorithm reads on behind its name and the size.
load(f) ==
  LET rest == SubSeq(f, 3, Len(f))
      mph == __cmph_load(f)
  IN  [algo |-> mph.algo, size |-> mph.size, data |->
        CASE mph.algo = "chm" -> Chm!chm_load(rest)    [] mph.algo = "bmz" -> Bmz!bmz_load(rest)
          [] mph.algo = "bmz8" -> Bmz8!bmz8_load(rest) [] mph.algo = "fch" -> Fch!fch_load(rest)
          [] mph.algo = "bdz" -> Bdz!bdz_load(rest)
          [] mph.algo = "bdz_ph" -> BdzPh!bdz_ph_load(rest)
          [] mph.algo = "brz" -> Brz!brz_load(rest)
          [] mph.algo = "chd_ph" -> Chd!chd_ph_load(rest) [] mph.algo = "chd" -> Chd!chd_load(rest)]

\* Whether the algorithm finds in the file what it expects.
Readable(f) == f[1].value = "brz" => Brz!Readable(SubSeq(f, 3, Len(f)))

cmph_search(f, ky) ==
  CASE f.algo = "chm" -> Chm!chm_search(f, ky)    [] f.algo = "bmz" -> Bmz!bmz_search(f, ky)
    [] f.algo = "bmz8" -> Bmz8!bmz8_search(f, ky) [] f.algo = "fch" -> Fch!fch_search(f, ky)
    [] f.algo = "bdz" -> Bdz!bdz_search(f, ky)
    [] f.algo = "bdz_ph" -> BdzPh!bdz_ph_search(f, ky)
    [] f.algo = "brz" -> Brz!brz_search(f, ky)
    [] f.algo = "chd_ph" -> Chd!chd_ph_search(f, ky) [] f.algo = "chd" -> Chd!chd_search(f, ky)

cmph_size(f) == f.size

\* The number of the algorithm comes first.
pack(f) ==
  <<Word(f.algo)>> \o
    CASE f.algo = "chm" -> Chm!chm_pack(f)       [] f.algo = "bmz" -> Bmz!bmz_pack(f)
      [] f.algo = "bmz8" -> Bmz8!bmz8_pack(f)    [] f.algo = "fch" -> Fch!fch_pack(f)
      [] f.algo = "bdz" -> Bdz!bdz_pack(f)       [] f.algo = "bdz_ph" -> BdzPh!bdz_ph_pack(f)
      [] f.algo = "brz" -> Brz!brz_pack(f)
      [] f.algo = "chd_ph" -> Chd!chd_ph_pack(f) [] f.algo = "chd" -> Chd!chd_pack(f)

cmph_packed_size(f) ==
  CASE f.algo = "chm" -> Chm!chm_packed_size(f)    [] f.algo = "bmz" -> Bmz!bmz_packed_size(f)
    [] f.algo = "bmz8" -> Bmz8!bmz8_packed_size(f) [] f.algo = "fch" -> Fch!fch_packed_size(f)
    [] f.algo = "bdz" -> Bdz!bdz_packed_size(f)
    [] f.algo = "bdz_ph" -> BdzPh!bdz_ph_packed_size(f)
    [] f.algo = "brz" -> Brz!brz_packed_size(f)
    [] f.algo = "chd_ph" -> Chd!chd_ph_packed_size(f) [] f.algo = "chd" -> Chd!chd_packed_size(f)

cmph_search_packed(p, ky) ==
  LET ptr == Tail(p)
      a == p[1].value
  IN  CASE a = "chm" -> Chm!chm_search_packed(ptr, ky) [] a = "bmz" -> Bmz!bmz_search_packed(ptr, ky)
        [] a = "bmz8" -> Bmz8!bmz8_search_packed(ptr, ky)
        [] a = "fch" -> Fch!fch_search_packed(ptr, ky)
        [] a = "bdz" -> Bdz!bdz_search_packed(ptr, ky)
        [] a = "bdz_ph" -> BdzPh!bdz_ph_search_packed(ptr, ky)
        [] a = "brz" -> Brz!brz_search_packed(ptr, ky)
        [] a = "chd_ph" -> Chd!chd_ph_search_packed(ptr, ky)
        [] a = "chd" -> Chd!chd_search_packed(ptr, ky)

\* The function is written to a file and destroyed.
cmph_dump ==
  /\ pc = "done" /\ pc' = "dumped" /\ stored' = dump(mphf) /\ mphf' = <<>>
  /\ UNCHANGED <<sourceVars, config, work>>

\* Of a file that is not as it should be nothing can be said.
cmph_load ==
  /\ pc = "dumped"
  /\ IF Readable(stored)
       THEN pc' = "loaded" /\ mphf' = load(stored) /\ stored' = <<>>
       ELSE pc' = "aborted" /\ UNCHANGED <<mphf, stored>>
  /\ UNCHANGED <<sourceVars, config, work>>

\* The function of BRZ is whole when it is loaded.
cmph_pack ==
  /\ pc = "loaded" \/ (pc = "done" /\ algo # "brz")
  /\ pc' = "packed" /\ stored' = pack(mphf)
  /\ UNCHANGED <<sourceVars, config, work, mphf>>

Uses == cmph_dump \/ cmph_load \/ cmph_pack

Next ==
  \/ ReadsKeys
  \/ cmph_config_set_algo \/ cmph_config_set_graphsize \/ cmph_config_set_b
  \/ cmph_config_set_keys_per_bin \/ cmph_config_set_memory_availability \/ cmph_new
  \/ Builds
  \/ Uses

\* cmph runs on the thread of its caller, who does call cmph_new in the end,
\* and who dumps and loads a function of BRZ before it is of use.
GoesOn == ~Chd!Found /\ Builds
CompletesBrz == algo = "brz" /\ (cmph_dump \/ cmph_load)
Spec ==
  /\ Init /\ [][Next]_vars
  /\ WF_vars(ReadsKeys) /\ WF_vars(cmph_new) /\ WF_vars(GoesOn) /\ WF_pc(Chd!MakesTables)
  /\ WF_vars(CompletesBrz)

---------------------------------------------------------------------------
(* Properties. *)

\* CHM: the edges that were walked have the numbers of their keys as sums.
EdgesSumUp == algo = "chm" => Chm!EdgesSumUp

\* CHM keeps the order of the keys: the value of a key is its place.
NumbersInOrder ==
  algo = "chm" /\ pc = "done" =>
    \A x \in DOMAIN keys : cmph_search(mphf, keys[x]) = x - 1

\* BMZ and BMZ8: no two edges have the same sum, none one of m or more, and
\* used_edges is what the critical vertices have used.
SumsDiffer ==
  /\ algo = "bmz" => Bmz!SumsDiffer /\ Bmz!UsedAreTheSums
  /\ algo = "bmz8" => Bmz8!Bytes!SumsDiffer /\ Bmz8!Bytes!UsedAreTheSums

\* BDZ and BDZ_PH: every edge points at a vertex of its own, unless a vertex
\* has more edges than a byte counts.
OwnVertices ==
  /\ algo = "bdz" => Bdz!OwnVertices
  /\ algo = "bdz_ph" => BdzPh!Graph3!OwnVertices

\* BDZ and BDZ_PH: what the queue does not take cannot be peeled.
TakesWhatIsPeeled == algo \in {"bdz", "bdz_ph"} => Bdz!TakesWhatIsPeeled

\* FCH: random_table and map_table are the inverse of each other, and the
\* values in use are those of the keys that are placed.
TablesAgree == algo = "fch" => Fch!TablesAgree

\* The vertices that BMZ takes for critical are those of the 2-core.
LeavesTheCore ==
  algo \in {"bmz", "bmz8"} /\ pc = "critical" /\ visited = {} =>
    critical_nodes = Bmz!CoreVertices(graph)

\* BRZ: the merge gives each bucket its keys.
BucketsAreWhole == algo = "brz" => Brz!BucketsAreWhole

\* What is loaded is what was dumped, field by field, and a packed function
\* fits into the memory that cmph_packed_size asks for.  The tables of CHD
\* and CHD_PH give back what they were made from.
StoredWhole ==
  /\ algo \in {"chd", "chd_ph"} => Chd!FindsWhatIsPlaced
  /\ pc = "done" /\ Readable(dump(mphf)) =>
       LET loaded == load(dump(mphf)) IN
       /\ loaded.algo = mphf.algo /\ loaded.size = mphf.size
       /\ \A field \in DOMAIN mphf.data : loaded.data[field] = mphf.data[field]
       /\ algo # "brz" => DOMAIN loaded.data = DOMAIN mphf.data
  /\ pc = "packed" => SizeOf(stored) <= cmph_packed_size(mphf)

\* The function that was made, or its dump, and its size.
MadeFunction == IF pc = "dumped" THEN load(stored) ELSE mphf
SizeNow == cmph_size(MadeFunction)

\* BDZ and BDZ_PH: the degree of a vertex did not fit into its byte.
Miscounted ==
  /\ algo \in {"bdz", "bdz_ph"}
  /\ Bdz!Overfull([x \in DOMAIN keys |->
                     Bdz!HashVector(MadeFunction.data.hl, keys[x], MadeFunction.data.r)])

\* What goes wrong, and when. cmph dies or can no longer be trusted: the
\* queue of the heuristic of BMZ has no room for half of the critical
\* vertices; the number of vertices of BMZ8 is a multiple of 256; BRZ, with
\* several runs, reads beyond a buffer or a length that the end of one cuts,
\* has an empty bucket, of which its file then has no function, or is in its
\* second attempt.  A search reads behind the table: BMZ and BMZ8, for a key
\* of which both hashes are the last vertex.  The packed function has other
\* numbers: BRZ with a c that is not whole.  Keys have one number: BDZ and
\* BDZ_PH, with a vertex of more edges than its byte counts, be it that one
\* key is repeated as often.  CHD cannot close up bins of several keys, nor
\* too few of them.
BreaksOnlyWhen ==
  /\ algo = "chd" => Chd!BreaksOnlyWhen
  /\ pc = "aborted" =>
       \/ algo = "bmz" /\ c \in 1 .. 114 /\ 2 * Len(Tail(q)) >= Cardinality(critical_nodes)
       \/ algo = "bmz8" /\ Bmz8!Bytes!n = 0
       \/ algo = "brz" /\ (Brz!HasEmptyBucket \/ Brz!Retried \/ (Len(runs) > 1 /\ Brz!Misread))
       \/ algo = "chd"
  /\ pc = "done" /\ algo # "brz" =>
       \A ky \in ToSet(keys) :
         cmph_search(mphf, ky) \notin 0 .. cmph_size(mphf) - 1 =>
           /\ algo \in {"bmz", "bmz8"}
           /\ \A x \in 1 .. 2 : hash(mphf.data.hashes[x], ky) % mphf.data.n = mphf.data.n - 1
  /\ pc = "packed" /\ (\E ky \in ToSet(keys) : cmph_search_packed(stored, ky) # cmph_search(mphf, ky)) =>
       algo = "brz" /\ mphf.data.c % 100 # 0
  /\ pc = "done" /\ algo \in {"bdz", "bdz_ph"} =>
       IsInjective([x \in DOMAIN keys |-> cmph_search(mphf, keys[x])]) \/ Miscounted

\* What a search makes of a key, of the function or its dump; for CHD and
\* CHD_PH, whose tables StoredWhole compares, where the key was placed.
Searched(ky) ==
  IF algo \in {"chd", "chd_ph"} THEN Chd!NumberOf(ky)
  ELSE cmph_search(MadeFunction, ky)

\* Behind the table a search may find anything; here it finds the number
\* that the other keys leave, so that the refinement speaks of all of them.
NumberLeft == Min((0 .. SizeNow - 1) \ {Searched(ky) : ky \in ToSet(keys)})
Numbers ==
  [ky \in ToSet(keys) |->
     LET number == Searched(ky) IN IF number = Bmz!BehindTheTable THEN NumberLeft ELSE number]

IsMade == pc \in {"loaded", "packed"} \/ (pc \in {"done", "dumped"} /\ algo # "brz")

\* From any source, under any seeds and over any failures, cmph_new makes
\* a perfect hash function of what the source contains or none, and what
\* was made survives the dump and the load as it is.  (That of BRZ is made
\* when it is loaded; BreaksOnlyWhen compares the packed form.  One whose
\* degrees did not fit into their bytes counts as none.)
Hash == INSTANCE PerfectHash WITH
  KeySources <- {Source!Contents(src) : src \in Sources},
  LeastKeys <- 1,
  keys <- Source!Contents(source),
  minimal <- algo \notin {"bdz_ph", "chd_ph"},
  keys_per_number <- IF algo = "chd_ph" THEN keys_per_bin ELSE 1,
  result <- IF IsMade /\ ~Miscounted THEN [size |-> SizeNow, number |-> Numbers]
            ELSE IF IsMade \/ pc \in {"failed", "aborted"} THEN [no |-> "NULL"] ELSE [no |-> "pending"]
ImplementsPerfectHash == Hash!Spec
=============================================================================
