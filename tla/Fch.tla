-------------------------------- MODULE Fch --------------------------------
(***************************************************************************)
(* FCH of cmph (cmph/src/fch.c, fch_buckets.c).  A first hash function     *)
(* puts the keys into buckets, mixed so that most fall into few.  From the *)
(* largest bucket on, a second one and a displacement g take the keys of a *)
(* bucket to values that are free.  random_table has the values in use     *)
(* first, then the free ones in a random order; map_table is its inverse.  *)
(***************************************************************************)
EXTENDS Integers, Sequences, SequencesExt, FiniteSets, FiniteSetsExt, SetsInOrder, StoredFunction

CONSTANTS
  Seeds(_, _),           \* bound: the functions from the keys ks to numbers below m
  Permuted(_),           \* bound: the orders of 0 .. m - 1 that permut may make
  fch_calc_b(_, _),      \* the number of buckets, about c m / (log2 m + 1)
  Iterations,            \* 100 in the code
  SearchingIterations,   \* 10 in the code
  H2Iterations           \* 1000 in the code

VARIABLES
  keys, algo, c,
  pc,                    \* "new", "mapping", "h2", "placing", "done", "failed"
  iterations, searching_iterations, iteration_to_generate_h2,
  h1, h2, g,
  buckets,               \* the keys of each bucket
  sorted_indexes,
  random_table, map_table, filled_count, counter,
  i, z, j,               \* the bucket, the value tried for its first key, its key
  mphf

config == <<keys, algo, c>>
tries == <<iterations, searching_iterations, iteration_to_generate_h2>>
tables == <<random_table, map_table, filled_count, counter>>
order == <<buckets, sorted_indexes>>
vars == <<config, pc, tries, h1, h2, g, order, tables, i, z, j, mphf>>

m == Len(keys)
Usable(value) == IF value <= 200 THEN 260 ELSE value
cc == Usable(c)
b == fch_calc_b(cc, m)
p1 == (55 * m + 99) \div 100
p2 == (3 * b + 9) \div 10
Values == 0 .. m - 1

\* The first share of the hashes falls into the first q2 buckets.
mixh10h11h12(bb, q1, q2, index) ==
  IF index < q1 THEN index % q2
  ELSE IF index % bb < q2 THEN (index % bb) + q2 ELSE index % bb

\* The keys of a bucket are in the order of the source.
fch_buckets(state) ==
  [x \in 0 .. b - 1 |->
     LET own == Ascending({y \in DOMAIN keys :
                             mixh10h11h12(b, p1, p2, hash(state, keys[y]) % m) = x})
     IN  [y \in DOMAIN own |-> keys[own[y]]]]

\* The buckets by their sizes, the largest first, those of a size in order.
fch_buckets_get_indexes_sorted_by_size(bs) ==
  FlattenSeq([s \in 1 .. m + 1 |-> Ascending({x \in 0 .. b - 1 : Len(bs[x]) = m + 1 - s})])

bucket == sorted_indexes[i + 1]
BucketKeys == buckets[bucket]

H(key) == hash(h2, key) % m

check_for_collisions_h2(state) ==
  \E x \in 0 .. b - 1 :
    ~IsInjective([y \in DOMAIN buckets[x] |-> hash(state, buckets[x][y]) % m])

\* Before fch_new is called.
Init ==
  /\ searching_iterations = 0 /\ iteration_to_generate_h2 = 0
  /\ h1 = <<>> /\ h2 = <<>> /\ g = <<>> /\ buckets = <<>> /\ sorted_indexes = <<>>
  /\ random_table = <<>> /\ map_table = <<>> /\ filled_count = 0 /\ counter = 0
  /\ i = 0 /\ z = 0 /\ j = 0

Called ==
  /\ pc = "new" /\ pc' = "mapping" /\ iterations' = Iterations
  /\ UNCHANGED <<config, searching_iterations, iteration_to_generate_h2, h1, h2, g, order,
                 tables, i, z, j, mphf>>

\* mapping, ordering and the start of searching.
mapping ==
  /\ pc = "mapping" /\ pc' = "h2"
  /\ \E seed \in Seeds(keys, m), permuted \in Permuted(m) :
       /\ h1' = hash_state_new(seed)
       /\ buckets' = fch_buckets(hash_state_new(seed))
       /\ sorted_indexes' = fch_buckets_get_indexes_sorted_by_size(buckets')
       /\ random_table' = permuted
       /\ map_table' = [v \in Values |-> CHOOSE x \in Values : permuted[x] = v]
  /\ g' = [x \in 0 .. b - 1 |-> 0]
  /\ searching_iterations' = 0 /\ iteration_to_generate_h2' = 0
  /\ UNCHANGED <<config, iterations, h2, filled_count, counter, i, z, j, mphf>>

\* Another h2, unless the search has had too many already.
Again(searched, generated) ==
  IF searched < SearchingIterations /\ generated < H2Iterations
    THEN pc' = "h2" /\ h2' = <<>>
         /\ UNCHANGED <<h1, g, order, random_table, map_table, iterations, mphf>>
    ELSE /\ iterations' = iterations - 1
         /\ IF iterations = 1 THEN pc' = "failed" /\ mphf' = <<"NULL">>
                              ELSE pc' = "mapping" /\ UNCHANGED mphf
         /\ h1' = <<>> /\ h2' = <<>> /\ g' = <<>> /\ buckets' = <<>> /\ sorted_indexes' = <<>>
         /\ random_table' = <<>> /\ map_table' = <<>>

generate_h2 ==
  /\ pc = "h2" /\ filled_count' = 0 /\ counter' = 0 /\ i' = 0 /\ z' = 0 /\ j' = 0
  /\ \E seed \in Seeds(keys, m) :
       \/ /\ h2' = hash_state_new(seed) /\ ~check_for_collisions_h2(h2')
          /\ searching_iterations' = searching_iterations + 1
          /\ iteration_to_generate_h2' = 0 /\ pc' = "placing"
          /\ UNCHANGED <<h1, g, order, random_table, map_table, iterations, mphf>>
       \/ /\ iteration_to_generate_h2' = iteration_to_generate_h2 + 1
          /\ check_for_collisions_h2(hash_state_new(seed))
          /\ Again(searching_iterations, iteration_to_generate_h2 + 1)
          /\ UNCHANGED searching_iterations
  /\ UNCHANGED config

\* The displacement that takes the first key of the bucket to the value z
\* places behind those in use.
Displaced ==
  IF j = 0 THEN (m + random_table[filled_count + z] - H(BucketKeys[1])) % m ELSE g[bucket]

Index == (H(BucketKeys[j + 1]) + Displaced) % m

AllPlaced == i = b \/ BucketKeys = <<>>

\* Mutant: the inverse of the table is kept for one of the two values only.
Swapped_half ==
  /\ random_table' = [random_table EXCEPT ![map_table[Index]] = random_table[filled_count],
                                          ![filled_count] = Index]
  /\ map_table' = [map_table EXCEPT ![Index] = filled_count]

\* The value changes places with the first one that is free.
Swapped ==
  /\ random_table' = [random_table EXCEPT ![map_table[Index]] = random_table[filled_count],
                                          ![filled_count] = Index]
  /\ map_table' = [map_table EXCEPT ![random_table[filled_count]] = map_table[Index],
                                    ![Index] = filled_count]

PlaceKey ==
  /\ pc = "placing" /\ ~AllPlaced /\ map_table[Index] >= filled_count
  /\ g' = [g EXCEPT ![bucket] = Displaced]
  /\ Swapped /\ filled_count' = filled_count + 1
  /\ IF j + 1 = Len(BucketKeys)
       THEN i' = i + 1 /\ z' = 0 /\ j' = 0 /\ counter' = 0
       ELSE j' = j + 1 /\ counter' = counter + 1 /\ UNCHANGED <<i, z>>
  /\ UNCHANGED <<config, pc, tries, h1, h2, order, mphf>>

Released == filled_count - counter

\* The value is in use: the keys of this bucket are taken back and the next
\* z is tried, as long as there are free values.  The swaps stay.
KeyCollides ==
  /\ pc = "placing" /\ ~AllPlaced /\ map_table[Index] < filled_count
  /\ filled_count' = Released /\ counter' = 0 /\ j' = 0 /\ z' = z + 1
  /\ IF z + 1 < m - Released
       THEN /\ g' = [g EXCEPT ![bucket] = Displaced]
            /\ UNCHANGED <<pc, h1, h2, order, random_table, map_table, iterations, mphf>>
       ELSE Again(searching_iterations, 0)
  /\ UNCHANGED <<config, searching_iterations, iteration_to_generate_h2, i>>

searching == generate_h2 \/ PlaceKey \/ KeyCollides

\* The last mapping is spent even if its search has succeeded: fch_new then
\* returns NULL.
Finish ==
  /\ pc = "placing" /\ AllPlaced /\ iterations' = iterations - 1
  /\ IF iterations = 1
       THEN pc' = "failed" /\ mphf' = <<"NULL">>
       ELSE /\ pc' = "done"
            /\ mphf' = [algo |-> algo, size |-> m,
                        data |-> [g |-> g, h1 |-> h1, h2 |-> h2, p1 |-> p1, p2 |-> p2,
                                  b |-> b, c |-> cc, m |-> m]]
  /\ h1' = <<>> /\ h2' = <<>> /\ g' = <<>> /\ buckets' = <<>> /\ sorted_indexes' = <<>>
  /\ random_table' = <<>> /\ map_table' = <<>>
  /\ filled_count' = 0 /\ i' = 0
  /\ UNCHANGED <<config, searching_iterations, iteration_to_generate_h2, counter, z, j>>

fch_new == Called \/ mapping \/ searching \/ Finish

---------------------------------------------------------------------------
Value(gs, mm, bb, q1, q2, v1, v2) ==
  ((v2 % mm) + gs[mixh10h11h12(bb, q1, q2, v1 % mm)]) % mm

fch_search(f, key) ==
  Value(f.data.g, f.data.m, f.data.b, f.data.p1, f.data.p2,
        hash(f.data.h1, key), hash(f.data.h2, key))

fch_dump(f) ==
  __cmph_dump(f) \o hash_state_dump(f.data.h1) \o hash_state_dump(f.data.h2)
    \o <<Word(f.data.m), Double(f.data.c), Word(f.data.b), Double(f.data.p1),
         Double(f.data.p2), Table(4, f.data.b, f.data.g)>>

fch_load(f) ==
  [h1 |-> hash_state_load(f[2].value), h2 |-> hash_state_load(f[4].value),
   m |-> f[5].value, c |-> f[6].value, b |-> f[7].value, p1 |-> f[8].value,
   p2 |-> f[9].value, g |-> f[10].value]

fch_pack(f) ==
  PackedHash(f.data.h1) \o PackedHash(f.data.h2)
    \o <<Word(f.data.m), Word(f.data.b), Double(f.data.p1), Double(f.data.p2),
         Table(4, f.data.b, f.data.g)>>

fch_packed_size(f) ==
  4 + hash_state_packed_size(hash_get_type(f.data.h1))
    + hash_state_packed_size(hash_get_type(f.data.h2)) + 4 * 4 + 2 * 8 + 4 * f.data.b

fch_search_packed(p, key) ==
  LET h1_ptr == 4
      h2_ptr == h1_ptr + hash_state_packed_size(At(p, 0)) + 4
      g_ptr == h2_ptr + hash_state_packed_size(At(p, h2_ptr - 4))
  IN  Value(At(p, g_ptr + 24), At(p, g_ptr), At(p, g_ptr + 4), At(p, g_ptr + 8),
            At(p, g_ptr + 16), hash_packed(At(p, h1_ptr), key), hash_packed(At(p, h2_ptr), key))

---------------------------------------------------------------------------
(* Properties. *)

\* However often a bucket is tried and taken back, the two tables are the
\* inverse of each other, and the values in use are those of the keys of
\* the buckets that are placed and of this bucket up to its key j.
InUse ==
  (UNION {{(H(key) + g[sorted_indexes[x]]) % m : key \in ToSet(buckets[sorted_indexes[x]])} :
            x \in 1 .. i})
  \cup (IF j = 0 THEN {} ELSE {(H(BucketKeys[x]) + g[bucket]) % m : x \in 1 .. j})

TablesAgree ==
  pc = "placing" =>
    /\ \A v \in Values : random_table[map_table[v]] = v
    /\ {random_table[x] : x \in 0 .. filled_count - 1} = InUse
    /\ Cardinality(InUse) = filled_count
=============================================================================
