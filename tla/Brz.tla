-------------------------------- MODULE Brz --------------------------------
(***************************************************************************)
(* BRZ of cmph (cmph/src/brz.c, buffer_manager.c, buffer_entry.c), for     *)
(* more keys than fit into memory.  The keys are hashed to buckets, sorted *)
(* by bucket a memory at a time into runs on disk, and the runs merged.    *)
(* Of each bucket FCH or BMZ8 makes a function, which is written to the    *)
(* file of the client at once; brz_dump adds to that file what is missing. *)
(*                                                                         *)
(* What the other algorithm makes of a bucket is any of its functions that *)
(* numbers the keys, or none (as in PerfectHash).                          *)
(***************************************************************************)
EXTENDS Integers, Sequences, SequencesExt, FiniteSets, FiniteSetsExt, StoredFunction

CONSTANTS
  Seeds(_, _),           \* bound: the functions from the keys ks to k buckets
  BucketSeeds(_),        \* bound: the two functions from the keys of a bucket
  Tables(_),             \* bound: the tables g of so many entries
  fch_calc_b(_, _), mixh10h11h12(_, _, _, _),   \* as in Fch
  Iterations,            \* 20 in the code
  MaxBucketSize,         \* 255 in the code
  MaxFlushes,            \* 1024 in the code
  KeylenSize             \* sizeof(keylen)

VARIABLES
  keys, algo, c, b, memory_availability,
  pc,                    \* "new", "partition", "merge", "bucket", "done", "failed", "aborted"
  iterations,
  size,                  \* of each bucket; it is never reset
  h0,
  e,                     \* the keys read, then the keys merged
  buffer,                \* the keys in memory
  runs,                  \* the files of tmp_dir
  entries,               \* the buffers the runs are read through
  memory_avail_list,     \* the memory of the runs that are at their ends
  buffer_merge,          \* the key of each run that is next
  keys_vd,               \* the keys of the bucket
  mphf, stored           \* stored is the file mphf_fd

config == <<keys, algo, c, b, memory_availability>>
merging == <<entries, memory_avail_list, buffer_merge, keys_vd>>
vars == <<config, pc, iterations, size, h0, e, buffer, runs, merging, mphf, stored>>

CeilDiv(x, y) == (x + y - 1) \div y

sub == IF c >= 200 THEN "fch" ELSE "bmz8"
cc == IF sub = "fch" THEN (IF c <= 200 THEN 260 ELSE c) ELSE (IF c = 0 THEN 100 ELSE c)
m == Len(keys)
k == CeilDiv(m, b)
Buckets == 0 .. k - 1

Bucket(key) == hash(h0, key) % k
Bytes(ks) == FoldLeft(LAMBDA sum, key : sum + Len(key) + KeylenSize, 0, ks)

\* The entries of the table g for a bucket of a size.
EntriesOf(algorithm, c0, mm) ==
  IF algorithm = "fch" THEN fch_calc_b(c0, mm) ELSE CeilDiv(c0 * mm, 100)

\* The search of either algorithm; that of BMZ8 wraps here as it should.  A
\* read behind the table gives -1.
fch_number(c0, mm, g, v1, v2) ==
  LET bb == fch_calc_b(c0, mm)
      h1 == mixh10h11h12(bb, (55 * mm + 99) \div 100, (3 * bb + 9) \div 10, v1 % mm)
  IN  IF h1 \in DOMAIN g THEN (v2 + g[h1]) % mm ELSE -1

bmz8_number(c0, mm, g, v1, v2) ==
  LET n == CeilDiv(c0 * mm, 100)
      h1 == v1 % n
      h2 == IF v2 % n = h1 THEN (h1 + 1) % n ELSE v2 % n
  IN  IF {h1, h2} \subseteq DOMAIN g THEN (g[h1] + g[h2]) % (MaxBucketSize + 1) ELSE -1

NumberInBucket(algorithm, c0, mm, g, v1, v2) ==
  IF algorithm = "fch" THEN fch_number(c0, mm, g, v1, v2) ELSE bmz8_number(c0, mm, g, v1, v2)

---------------------------------------------------------------------------
(* The construction. *)

\* Before brz_new is called.
Init ==
  /\ size = <<>> /\ h0 = <<>> /\ e = 0 /\ buffer = <<>> /\ runs = <<>> /\ entries = <<>>
  /\ memory_avail_list = <<>> /\ buffer_merge = <<>> /\ keys_vd = <<>>

\* The hash function of an attempt.
Attempt ==
  /\ pc' = "partition" /\ e' = 0 /\ buffer' = <<>> /\ runs' = <<>>
  /\ \E seed \in Seeds(keys, k) : h0' = hash_state_new(seed)

Called ==
  /\ pc = "new" /\ Attempt
  /\ iterations' = Iterations /\ size' = [x \in Buckets |-> 0]
  /\ UNCHANGED <<config, merging, mphf, stored>>

\* An attempt has failed.
Retries ==
  /\ iterations' = iterations - 1
  /\ entries' = <<>> /\ memory_avail_list' = <<>> /\ buffer_merge' = <<>> /\ keys_vd' = <<>>
  /\ IF iterations = 1
       THEN pc' = "failed" /\ mphf' = <<"NULL">> /\ UNCHANGED <<h0, e, buffer, runs>>
       ELSE Attempt /\ UNCHANGED mphf

\* The keys by their buckets, those of a bucket in order.
Sorted(ks) == FlattenSeq([x \in 1 .. k |-> SelectSeq(ks, LAMBDA key : Bucket(key) = x - 1)])

\* What is in memory, where no further key has room, becomes a run.
Flushes(key) ==
  IF Bytes(buffer) + Len(key) + KeylenSize > memory_availability
    THEN runs' = Append(runs, Sorted(buffer)) /\ buffer' = <<key>>
    ELSE buffer' = Append(buffer, key) /\ UNCHANGED runs

\* A bucket has no room, or its table would have more entries than a byte counts.
Full(x) ==
  \/ size[x] = MaxBucketSize
  \/ sub = "bmz8" /\ cc >= 100 /\ ((cc * size[x]) \div 100) % (MaxBucketSize + 1) < size[x]

PartitionsKey ==
  /\ pc = "partition" /\ e < m
  /\ LET key == keys[e + 1] IN
       \/ /\ ~Full(Bucket(key))
          /\ Flushes(key)
          /\ size' = [size EXCEPT ![Bucket(key)] = @ + 1] /\ e' = e + 1
          /\ UNCHANGED <<pc, iterations, h0, merging, mphf>>
       \/ Full(Bucket(key)) /\ Retries /\ UNCHANGED size
  /\ UNCHANGED <<config, stored>>

---------------------------------------------------------------------------
(* buffer_entry.c and buffer_manager.c.  A key is read with its length, by *)
(* way of a buffer that is loaded again where the two are not all in it.   *)

buffer_entry_new(capacity) ==
  [capacity |-> capacity, nbytes |-> capacity, pos |-> capacity, eof |-> FALSE,
   loaded |-> 0, taken |-> 0]

\* loaded counts the bytes of the file, taken the keys.
buffer_entry_load(en, file) ==
  LET nbytes == Min({en.capacity, Bytes(file) - en.loaded})
  IN  [en EXCEPT !.nbytes = nbytes, !.eof = @ \/ nbytes # en.capacity, !.pos = 0,
                 !.loaded = @ + nbytes]

\* So many bytes, of which the buffer may have the first.
Fetched(en, file, bytes) ==
  IF en.pos + bytes > en.nbytes
    THEN [buffer_entry_load(en, file) EXCEPT !.pos = en.pos + bytes - en.nbytes]
    ELSE [en EXCEPT !.pos = @ + bytes]

AtEnd(en) == en.eof /\ en.pos = en.nbytes

\* The buffer ends within the length: the rest of it goes behind keylen.
Straddles(en) == en.pos < en.nbytes /\ en.nbytes < en.pos + KeylenSize

buffer_entry_read_key(en, file) ==
  [Fetched(Fetched(en, file, KeylenSize), file, Len(file[en.taken + 1])) EXCEPT !.taken = @ + 1]

\* There is no key any more, but the file has ended with the buffer, or a
\* key that is longer than the buffer is copied from beyond it.
Overruns(en, file) ==
  IF en.taken = Len(file) THEN ~AtEnd(en)
  ELSE LET read == buffer_entry_read_key(en, file) IN read.pos > read.nbytes

\* Memory that was given back goes to the next that reads.
WithMemory(en, list) == IF list = <<>> THEN en ELSE [en EXCEPT !.capacity = @ + Last(list)]
Rest(list) == IF list = <<>> THEN <<>> ELSE Front(list)

buffer_manager_new(nentries) ==
  [x \in 1 .. nentries |-> buffer_entry_new((memory_availability \div nentries) + 1)]

---------------------------------------------------------------------------
(* The merge. *)

\* What is written before the functions of the buckets.
Header ==
  __cmph_dump([algo |-> algo, size |-> m])
    \o <<Double(cc), Word(sub), Word(k), Table(1, k, size)>>

\* The first key of each run.
StartsMerge ==
  /\ pc = "partition" /\ e = m
  /\ LET all == Append(runs, Sorted(buffer))
         new == buffer_manager_new(Len(all))
     IN
       \/ Len(all) > MaxFlushes /\ Retries /\ UNCHANGED stored
       \/ /\ Len(all) <= MaxFlushes
          /\ pc' = IF \E x \in DOMAIN all : Overruns(new[x], all[x]) THEN "aborted" ELSE "merge"
          /\ e' = 0 /\ buffer' = <<>> /\ runs' = all /\ keys_vd' = <<>>
          /\ entries' = [x \in DOMAIN all |-> buffer_entry_read_key(new[x], all[x])]
          /\ memory_avail_list' = <<>>
          /\ buffer_merge' = [x \in DOMAIN all |-> Head(all[x])]
          /\ stored' = stored \o Header
          /\ UNCHANGED <<iterations, h0, mphf>>
  /\ UNCHANGED <<config, size>>

UINT_MAX == k
None == <<>>   \* bound: no key is empty
buffer_h0(x) == IF buffer_merge[x] = None THEN UINT_MAX ELSE Bucket(buffer_merge[x])

\* Mutant: the first run that has a key.
brz_min_index_any == Min({x \in DOMAIN runs : buffer_merge[x] # None})

\* The first run whose next key has the least bucket.
brz_min_index ==
  Min({x \in DOMAIN runs : \A y \in DOMAIN runs : buffer_h0(x) <= buffer_h0(y)})

\* The key that was read takes the place of the one that is taken, which may
\* be the last one of its bucket.
TakesFromRun(x, next) ==
  /\ keys_vd' = Append(keys_vd, buffer_merge[x]) /\ e' = e + 1
  /\ buffer_merge' = [buffer_merge EXCEPT ![x] = next]
  /\ pc' = IF Len(keys_vd) >= size[buffer_h0(x)] THEN "aborted"    \* the assertion
           ELSE IF Len(keys_vd) + 1 = size[buffer_h0(x)] THEN "bucket" ELSE "merge"

\* A key is read from the run; if it is of the same bucket, it is taken
\* before the one that waits.
MergesKey ==
  /\ pc = "merge" /\ e < m
  /\ LET x == brz_min_index
         en == WithMemory(entries[x], memory_avail_list)
         key == runs[x][en.taken + 1]
     IN  /\ ~(AtEnd(en) \/ Overruns(en, runs[x]))
         /\ entries' = [entries EXCEPT ![x] = buffer_entry_read_key(en, runs[x])]
         /\ memory_avail_list' = Rest(memory_avail_list)
         /\ \/ /\ Bucket(key) = buffer_h0(x) /\ Len(keys_vd) < MaxBucketSize
               /\ keys_vd' = Append(keys_vd, key) /\ e' = e + 1
               /\ UNCHANGED <<pc, buffer_merge>>
            \/ Bucket(key) # buffer_h0(x) /\ TakesFromRun(x, key)
  /\ UNCHANGED <<config, iterations, size, h0, buffer, runs, mphf, stored>>

EndsRun ==
  /\ pc = "merge" /\ e < m
  /\ LET x == brz_min_index
         en == WithMemory(entries[x], memory_avail_list)
     IN  /\ AtEnd(en)
         /\ entries' = [entries EXCEPT ![x] = en]
         /\ memory_avail_list' = Append(Rest(memory_avail_list), en.capacity)
         /\ TakesFromRun(x, None)
  /\ UNCHANGED <<config, iterations, size, h0, buffer, runs, mphf, stored>>

\* Memory beyond a buffer, or next to keylen or keys_vd, is read or written:
\* whatever follows.  (A length that straddles may as well do no harm.)
Corrupts ==
  /\ pc = "merge" /\ e < m
  /\ LET x == brz_min_index
         en == WithMemory(entries[x], memory_avail_list)
     IN  ~AtEnd(en) /\ (Straddles(en) \/ Overruns(en, runs[x]) \/ Len(keys_vd) = MaxBucketSize)
  /\ pc' = "aborted"
  /\ UNCHANGED <<config, iterations, size, h0, e, buffer, runs, merging, mphf, stored>>

\* What cmph_new makes of the keys of a bucket.
BucketFunctions(ks) ==
  LET n == EntriesOf(sub, cc, Len(ks))
      Number(f, x) == NumberInBucket(sub, cc, Len(ks), f.g, f.h[1][ks[x]], f.h[2][ks[x]])
  IN  {f \in [h : BucketSeeds(ks), g : Tables(n)] :
         {Number(f, x) : x \in DOMAIN ks} = 0 .. Len(ks) - 1}

\* The two hash functions and the table, byte by byte.
brz_copy_partial_mphf(f, ks) ==
  hash_state_dump(hash_state_new(f.h[1])) \o hash_state_dump(hash_state_new(f.h[2]))
    \o <<Table(1, EntriesOf(sub, cc, Len(ks)), f.g)>>

WritesFunction ==
  /\ pc = "bucket"
  /\ \E f \in BucketFunctions(keys_vd) : stored' = stored \o brz_copy_partial_mphf(f, keys_vd)
  /\ keys_vd' = <<>> /\ pc' = "merge"
  /\ UNCHANGED <<config, iterations, size, h0, e, buffer, runs, entries, memory_avail_list,
                 buffer_merge, mphf>>

\* cmph_new has returned NULL.
BucketFails == pc = "bucket" /\ Retries /\ UNCHANGED <<config, size, stored>>

\* Where the functions of the buckets begin to count.
Offsets == [x \in Buckets |-> FoldLeft(+, 0, [y \in 1 .. x |-> size[y - 1]])]

\* The tables of the buckets are in the file only.
Finish ==
  /\ pc = "merge" /\ e = m /\ pc' = "done"
  /\ mphf' = [algo |-> algo, size |-> m,
              data |-> [c |-> cc, algo |-> sub, k |-> k, size |-> size, h0 |-> h0, m |-> m,
                        offset |-> Offsets]]
  /\ entries' = <<>> /\ memory_avail_list' = <<>> /\ buffer_merge' = <<>> /\ keys_vd' = <<>>
  /\ UNCHANGED <<config, iterations, size, h0, e, buffer, runs, stored>>

brz_gen_mphf ==
  PartitionsKey \/ StartsMerge \/ MergesKey \/ EndsRun \/ Corrupts \/ WritesFunction \/ BucketFails

brz_new == Called \/ brz_gen_mphf \/ Finish

---------------------------------------------------------------------------
(* The function.  The file is that of the client, behind the header of     *)
(* __cmph_load. *)

brz_dump(f) ==
  hash_state_dump(f.data.h0)
    \o <<Word(f.data.m), Table(4, f.data.k, f.data.offset)>>

\* Whether each bucket has a function of its size in the file, and the file
\* nothing else.
Readable(f) ==
  /\ Len(f) = 8 + 5 * f[3].value
  /\ \A x \in 0 .. f[3].value - 1 :
       f[5 * x + 9].bytes = EntriesOf(f[2].value, f[1].value, f[4].value[x])

brz_load(f) ==
  LET kk == f[3].value
      of(x, field) == f[5 * x + field].value
  IN  [c |-> f[1].value, algo |-> f[2].value, k |-> kk, size |-> f[4].value,
       h1 |-> [x \in 0 .. kk - 1 |-> hash_state_load(of(x, 6))],
       h2 |-> [x \in 0 .. kk - 1 |-> hash_state_load(of(x, 8))],
       g |-> [x \in 0 .. kk - 1 |-> of(x, 9)],
       h0 |-> hash_state_load(of(kk, 6)), m |-> of(kk, 7), offset |-> of(kk, 8)]

brz_search(f, key) ==
  LET d == f.data
      x == hash(d.h0, key) % d.k
  IN  d.offset[x] + NumberInBucket(d.algo, d.c, d.size[x], d.g[x], hash(d.h1[x], key),
                                   hash(d.h2[x], key))

\* The whole part of c is packed.  The pointers to the functions of the
\* buckets come before them.
brz_pack(f) ==
  LET d == f.data
      FunctionOf(x) == hash_state_pack(d.h1[x]) \o hash_state_pack(d.h2[x])
                         \o <<Table(1, EntriesOf(d.algo, d.c, d.size[x]), d.g[x])>>
      functions == [x \in 1 .. d.k |-> FunctionOf(x - 1)]
  IN  <<Word(d.algo)>> \o PackedHash(d.h0)
        \o <<Word(d.k), Double(100 * (d.c \div 100)),
             Word(hash_get_type(d.h1[0])), Word(hash_get_type(d.h2[0])),
             Table(1, d.k, d.size), Table(4, d.k, d.offset), Table(8, d.k, functions)>>
        \o FlattenSeq(functions)

brz_packed_size(f) ==
  LET d == f.data IN
  2 * 4 + 3 * 4 + hash_state_packed_size(hash_get_type(d.h0)) + 4 + 8 + d.k + 4 * d.k + 8 * d.k
    + d.k * (hash_state_packed_size(hash_get_type(d.h1[0]))
              + hash_state_packed_size(hash_get_type(d.h2[0])))
    + FoldLeft(+, 0, [x \in 1 .. d.k |-> EntriesOf(d.algo, d.c, d.size[x - 1])])

brz_search_packed(p, key) ==
  LET h0_ptr == 8
      k_ptr == h0_ptr + hash_state_packed_size(At(p, 4))
      kk == At(p, k_ptr)
      size_ptr == k_ptr + 20
      x == hash_packed(At(p, h0_ptr), key) % kk
      f == At(p, size_ptr + kk + 4 * kk)[x + 1]
  IN  At(p, size_ptr + kk)[x]
        + NumberInBucket(At(p, 0), At(p, k_ptr + 4), At(p, size_ptr)[x], At(f, 8),
                         hash_packed(At(f, 0), key), hash_packed(At(f, 4), key))

---------------------------------------------------------------------------
(* Properties. *)

Retried == iterations < Iterations

\* Of a run that is merged, a length is cut by the end of the buffer, or a
\* read goes beyond the buffer.
Misread ==
  \/ \E x \in DOMAIN entries : entries[x].pos > entries[x].nbytes
  \/ /\ entries # <<>>
     /\ LET x == brz_min_index
            en == WithMemory(entries[x], memory_avail_list)
        IN  ~AtEnd(en) /\ (Straddles(en) \/ Overruns(en, runs[x]))
HasEmptyBucket == \E x \in Buckets : \A y \in 1 .. m : Bucket(keys[y]) # x

\* In the first attempt the merge gives each bucket all of its keys once
\* and no others, and the buckets in their order, however the keys were
\* spread over the runs.
BucketsAreWhole ==
  pc = "bucket" /\ ~Retried =>
    LET x == Bucket(keys_vd[1]) IN
    /\ IsInjective(keys_vd)
    /\ ToSet(keys_vd) = {keys[y] : y \in {z \in 1 .. m : Bucket(keys[z]) = x}}
    /\ Len(stored) = 6 + 5 * Cardinality({Bucket(keys[y]) : y \in 1 .. m} \cap (0 .. x - 1))
=============================================================================
