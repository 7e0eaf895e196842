# Johnny, modelled and verified

Johnny is an HTTP server that serves files from memory. It reads a directory
tree once, builds a minimal perfect hash function over the URL-encoded file
names with the CHD algorithm of the cmph library it vendors, and then runs one
worker thread for each core: a non-blocking, edge-triggered epoll loop that
answers every `GET /name` with the response prepared at start-up. This project
models those parts and the other algorithms of cmph in TLA+, checks them with
TLC and proves the main results about them with TLAPS.

## 1. Inventory

| part | code | state it keeps | operations | what makes it correct |
|---|---|---|---|---|
| start | `johnny.c`, `johnny_config.h` | none | set up the files, start a worker on each core | nothing the workers read is written after they start |
| set-up | `johnny_setup.c`, `file_io.c` | `JOHNNY_FILES`, `JOHNNY_HASH` | count, slurp, collect the keys, build the hash, reorder | every file is found under its name, nothing else is found |
| CHD, CHD_PH | `cmph/src/chd.c`, `chd_ph.c` | buckets and lists, bins taken, displacements | map, order, place, start again, compress, search, dump, load, pack | no more keys to a bin than it has room for, in range, always an end; the tables give back the displacements |
| succinct tables | `bitbool.h`, `select.c`, `compressed_seq.c`, `compressed_rank.c` | packed words | generate, dump, load, pack, query | a query returns what was stored |
| connection contexts | `johnny_tries_to_allocate_connection_on_stack`, `johnny_deallocates_connection` | `con_bitmap`, `con_ctx` | take, give back | no context is shared or leaked |
| request scanner | `johnny_finds_filename` | buffer, `buffer_offset`, `prefix_counter` | receive, scan | names as they were sent, wherever the stream is cut |
| worker loop | `johnny_works` and what it calls | `ev_buf`, contexts, epoll's ready list | wait, accept, resume, receive, answer, close | responses whole and in order, no event lost, no connection forgotten |
| cmph front end | `cmph.c`, `cmph_structs.c`, `hash.c` | configuration, position in the key source, the stored function | read and rewind keys, configure, build, search, dump, load, pack | a source means the same keys each time it is read; every algorithm keeps the promise; what is stored is what was made |
| CHM, BMZ, BMZ8 | `chm.c`, `bmz.c`, `bmz8.c`, `graph.c`, `vqueue.c` | a graph with a key on each edge, `g`, what was visited, the sums in use | map, test for cycles or find the core, assign, start again | the edges of a vertex that is labelled have sums of their own; the core is what cannot be peeled |
| BDZ, BDZ_PH | `bdz.c`, `bdz_ph.c` | a hypergraph of edges of three vertices, the queue, `g` | map, peel, assign, rank | each edge points at a vertex no other edge points at |
| FCH | `fch.c`, `fch_buckets.c` | buckets, `random_table` and its inverse, `filled_count` | map, order, search with a bit flipped and not, start again | the tables are the inverse of each other, and in use are the values of the placed keys |
| BRZ | `brz.c`, `buffer_manager.c`, `buffer_entry.c` | sizes of buckets, the memory, runs on disk, their buffers, the file of the client | partition, flush, merge, make a function for a bucket, write, start again | the merge gives each bucket all of its keys; the file has a function for each bucket |
| `cxxmph`, programs, tests | `cmph/cxxmph`, `main.c`, `cmph_benchmark.c`, `cmph/tests`, `cmph/examples` | | | not part of the server |

How they interact: the main thread runs the set-up to its end, single threaded,
before it starts any worker; the only concurrency there is with other processes
that change the directory tree between two system calls. `cmph_new` is one call
of the set-up, and it builds the function (Chd) and then its stored form
(succinct tables), which `cmph_search` reads for the rest of the program's life.
The library's other clients choose another algorithm: `cmph_new` dispatches on
it, the algorithm calls the key source back for every key of every attempt, and
dump, load, pack and search dispatch on the name stored with the function. BRZ
calls `cmph_new` again for each of its buckets.
The workers read `JOHNNY_FILES` and `JOHNNY_HASH` and write neither; each has
its own listening socket, epoll instance, bitmap, contexts and buffers
(`thread_local`), so one worker is the whole system as far as a connection is
concerned. Within a worker the scanner and the contexts are called from the
loop. The hard behaviour is there: the kernel merges edges, sends are cut short,
streams are cut anywhere, clients pipeline, finish or reset at any moment, and
tables run full. In cmph it is the retries that are hard: an attempt may fail at
any point, and the next one finds whatever the last one left.

## 2. The modules

| module | of | composes or implements |
|---|---|---|
| `ConnectionSlots` | the allocation of contexts | |
| `ConnectionSlotsProofs` | theorems about it | |
| `RequestParser` | the scanner and the receive loop around it | |
| `RequestParserProofs` | theorems about it | |
| `FileService` | what a worker promises a client, and nothing of how | abstract |
| `JohnnyWorker` | the loop, the clients and the kernel's sockets and epoll | implements `FileService` |
| `JohnnyWorkerProofs` | theorems about it: types and events, no edge is lost, what clients are sent, the refinement of `FileService` | |
| `JohnnySetup` | the set-up and the lookup, among other processes | uses what `PerfectHash` promises |
| `JohnnySetupProofs` | theorems about it | |
| `SetsInOrder` | the numbers of a set in order, as a loop meets them | |
| `InductionLemmas` | least and greatest elements, sets in order, joined sequences: lemmas the proofs share | |
| `PerfectHash` | what `cmph_new` promises | abstract |
| `SuccinctTables` | bit strings, select, compressed sequence and rank: operators | |
| `SuccinctQueries` | tables generated, packed or dumped, and asked | uses `SuccinctTables` |
| `Chd` | CHD_PH and CHD: configuration to packed search | stores its function in `SuccinctTables` |
| `ChdConstruction` | one call of `cmph_new` with either | implements `PerfectHash` |
| `ChdProofs` | theorems about both; the safety part of the refinement | |
| `KeySource` | the kinds of key source, read and rewound | |
| `StoredFunction` | files and packed memory as fields with their sizes; hash functions | |
| `HashGraph` | the graph of keys, its edges deleted one by one (`graph.c`) | |
| `Chm`, `Bmz`, `Bmz8`, `Bdz`, `BdzPh`, `Fch`, `Brz` | another algorithm each: construction, search, dump, load, packing | `Bmz8` is `Bmz` with bytes, `BdzPh` has the hypergraph of `Bdz` |
| `Cmph` | the front end | composes `KeySource`, `Chd` and the seven; implements `PerfectHash` |
| `CmphLemmas` | lemmas about lines of a file, hypergraphs that are peeled, and FCH's tables, whatever module they are in | |
| `CmphProofs` | theorems about the key sources, BDZ, BDZ_PH and FCH as `Cmph` runs them | |
| `MC*` | instances for TLC: symmetry, and constants a `.cfg` cannot write | |

### ConnectionSlots

`con_bitmap` is a function from words to sets of positions of one bits, `index`
is `ctx->index` of every open connection. `johnny_allocates_connection` finds
the first word that is not all ones, counts its trailing ones with the code's
`bits % 2 == 1` and sets the bits of `1 << index`;
`johnny_deallocates_connection` flips them. The integer widths are kept:
`1 << index` is an `int`, whose shift count the processor takes modulo its
width, and whose sign is extended into the `long`; and a negative word is never
odd, because C's `%` keeps the sign. A shift count beyond the width is undefined
in C: the model takes the outcome of the processors the project builds for
(x86-64, and AArch64 alike). `malloc` is assumed to succeed.

### RequestParser

One connection: the client's stream is a sequence of requests of a method, a
name, a space and a rest that ends in the empty line. `recv` takes any non-empty
piece of it that fits; the other actions are the branches of
`johnny_finds_filename`, and one `MatchDelimiter` step is one round of its loop.
Bytes are model values; the buffer remembers what it no longer holds as `"?"`,
so that reading it shows.

### JohnnyWorker and FileService

Every system call is a step: `epoll_wait`, `johnny_accepts`, `johnny_resumes`
(the sending of what a response has left), `johnny_receives`,
`johnny_sends_response`, `johnny_drained` (the end of the receive loop's body),
with the clients' `Connect`, `Ask`, `Take`, `Finish` and `Reset` between any
two. `Clients` says which of the less polite things clients do: pipeline,
half-close, reset, and connect in bursts. Of the kernel the model has what the
loop depends on: epoll's ready list without repetitions, edges queued by
arrivals and by space after a refused send (`SOCK_NOSPACE`), readiness polled
again when an event is delivered, and a reset reported once by `recv`. Received
bytes are whole requests here; how they are cut is `RequestParser`'s subject, so
the two do not overlap.

`FileService` has no epoll, no buffers and no partial sends: a connection is
idle, waiting, open or closed, and what was sent on it is at any moment the
beginning of what it is owed. The refinement mapping takes the fields of
`sock`, with the backlog as "waiting".

### JohnnySetup

`count_files` and `johnny_slurps_files` are two walks over the entries `readdir`
may still return; between any two steps other processes create and remove files,
and an entry that comes or goes during a walk may or may not be returned. A
recursive walk is one walk over paths relative to the root. `lstat`'s result is
not checked by the code, so an entry that is gone seems to be whatever `sb`
held. `slurp` fails on a file that is gone or cannot be opened, and then
`(size_t)-1` is taken for its size: the state "undefined", from which nothing is
claimed. `cmph_new` is what `PerfectHash` says: a numbering of distinct keys, or
nothing, also for keys that all differ (`GiveUp`). That is no mere possibility:
a seed is drawn modulo the number of keys (`chd_ph.c:231`, `jenkins_hash.c:92`),
so that two files have two seeds in all, however often CHD tries again. The
history variable `gave_up` remembers it; no action reads it. The set-up does not
look at the result. `reorder_johnny_files` moves one file a step; `johnny_looks_up` is the part of `johnny_sends_response` that finds
a file. Names are sequences of parts so that escapes, encodings and dot files
can be told apart; `url_encode` and the cutting of `.gz`, `.br` and `.zstd` are
modelled by what they do.

### PerfectHash and Chd

`PerfectHash` numbers distinct keys from 0 or gives up, and in the end does one
of the two. Its function has a size, the number of the keys if the algorithm is
a minimal one, gives a number to one key, or to as many as were asked for
(`keys_per_bin`; the client may choose until `cmph_new` is called), and stays
what it is: dumped or loaded, every key has the number it had.

`chd_ph_mapping` gives every key any bucket and line of the bound (a fresh
seed), and fails on items that repeat; `chd_ph_ordering` sorts the buckets by
size; `place_bucket_probe` places one bucket under the current probe or takes
back what it has placed of it and moves it to the front of the list;
`NextProbe`, `SearchFails` and `NextSize` are the three ways out of a round of
`place_buckets2`. `Compresses` makes the sequence of the displacements, and with
it CHD_PH is done; `Ranks` is the rest of `chd_new`, which packs that function
and adds the rank of the vacant bins. Iterations are bounded as in the code, by
constants. Items stay in the order of their keys: where the code moves those of
a bucket about, a bucket is followed by its `bucket_id`. `use_h` has no setter
and is always set, so that `place_buckets1` is dead code.

The number of bins is computed as in the code, from the load factor in
hundredths; which odd numbers pass for primes is a parameter
(`miller_rabin.c` refuses the small primes 3, 5, 7 and 61, which makes Johnny's
smallest function one of 11 bins, but in the instances there are such functions).

### SuccinctTables and SuccinctQueries

A word is the set of its ones. `set_bits_at_pos` and the rest of `bitbool.h`,
`select_generate` and the two select queries with their byte tables and steps,
the compressed sequence and the compressed rank follow the code, and so do the
dump, the load, and the packed layout that the queries read the offsets back
from, and the sizes that are computed for it. Word width, byte width and step
are constants. The layout is in words: the code's sizes are four times as large.
`SuccinctQueries` asks the tables whatever may be asked of them; `Chd` what its
keys ask.

### Cmph, its key sources and its algorithms

`KeySource` has the vectors of strings, of byte strings and of structs and the
file of lines, whose keys are counted and read in chunks of a buffer; a key
longer than the buffer, a line as long as it and a last line without an end are
read as the code reads them. `Cmph` configures (`cmph_config_set_*`), builds and
then dumps and loads or packs. `Builds` is a step of the algorithm that was
chosen; the variables of the others stay. A step is one loop round that changes
what the properties speak of: a mapping with its test, a vertex labelled, an
edge assigned, a bucket placed or taken back, a key merged. Where the code
returns 0 from inside a loop the step is a disjunct of its own.

A fresh seed makes any function of the keys from a set of the bound, which
includes the bad ones: keys that collide, loops, doubled edges, cycles. The
constant `c` is in hundredths, so that the truncations of the code's floating
point can be written as divisions. A stored function is a sequence of fields,
each with its bytes; a packed search finds its fields by adding sizes, as the
code does, and a wrong offset finds no field.

* `Chm`: the graph must have no cycle; `chm_traverse` labels along a stack; the
  numbers are those of the keys in order. Sums wrap at `W`.
* `Bmz`: the critical vertices are those of the 2-core. They are labelled
  breadth first by the heuristic (`c` below 1.15) or the search proper, each
  with a queue of its own capacity, then the others along a stack with the
  values left over. `Bmz8` is the same code with bytes for `g`, for the number
  of vertices and for the sums.
* `Bdz`, `BdzPh`: `bdz_generate_queue` peels edges with a vertex of their own,
  the assignment goes through the queue backwards. The degree of a vertex is a
  byte and wraps (`ByteLimit`); once one has more edges than the byte has values
  (`Overfull`), edges may be peeled that have no vertex of their own, and keys
  share a number. `BdzPh` keeps `g` in base 3, five digits to a byte, and is not
  minimal.
* `Fch`: two hash functions, of which the second is chosen anew for each of the
  searches. `fch_calc_b` and the permutation are parameters of the bound.
* `Brz`: keys are partitioned while the memory lasts and flushed as sorted runs;
  each run is read back through a buffer that holds the bytes of some keys and
  parts of keys, and the run with the least bucket gives its key. What the other
  algorithm makes of a bucket is any pair of hash functions and table of the
  bound that numbers it, or none. Memory read or written out of place
  (`Corrupts`) is "aborted", or what the code does if the bytes happen to do no
  harm. The functions are in the client's file only, so BRZ's function is taken
  as made when it has been loaded.

An assertion that fails and undefined behaviour end in the state "aborted", a
search beyond a table in a number that no key may have; `BreaksOnlyWhen` says
when that happens, and when only.

## 3. The runs

| run | instance | what it shows |
|---|---|---|
| `slots` | 2 words of 6 bits, ints of 3, 7 connections, symmetric | bitmap and indices well typed; no slot of the upper half handed out; contexts exclusive and tracked until 3 are open at once |
| `slots_shared` | the same | violation: two open connections share a context |
| `parser` | 0 to 3 requests of 3 names and 2 rests, a buffer of 7, cut everywhere | the scanner stays in step with the stream; a name in one piece is served as sent, one in pieces without all but its last |
| `parser_cut` | the same | violation: the pieces of a cut name are not kept |
| `worker_rough` | 2 connections, 3 requests each, all behaviours, responses of 2 units, a send buffer of 1, 2 descriptors, symmetric | no lost edge in either direction, no event of a freed context, nothing left in a buffer, responses in order, no connection closed on a client that is still there |
| `worker_polite` | 3 polite connections, 2 requests each, 2 descriptors, 1 event at a time | every request answered, every finished connection closed, `FileService` implemented |
| `worker_pipelined` | 1 connection that pipelines | violation: a response loses its end to the next |
| `worker_last_request` | 1 connection that half-closes | violation: it is never closed |
| `setup` | 6 names (a pair that differs in its encoding, two with escapes, a dot file that cannot be opened, a link), every tree over them, 2 changes | every file of a quiet tree is found by its name and nothing else is; what a changed tree leaves behind; what it takes to fail; a good tree is served in the end unless `cmph_new` gives up |
| `chd` | 1 to 4 keys, one source with a repeated key; CHD with few bins, with many and with 2 keys to a bin, CHD_PH with 2; 2 iterations of each kind | `PerfectHash` implemented; no bucket lost or placed twice over failed probes, searches and mappings; the stored function finds each key where it was placed; an unknown name hashes to one past the array at most; when CHD breaks, and when only |
| `cmph` | 12 sources of 1 to 10 keys of each kind, two with repeated keys, each algorithm; words of 32, bytes of 8; 2 iterations of each kind | `PerfectHash` implemented by all nine over failures, dump, load and packing; the invariants of each algorithm; when it breaks, and when only |
| `tables` | words of 6 bits, bytes of 3, steps of 2; 16,104 sequences and 1,020 sets of bins | every number and every rank is given back, packed and loaded, and the packed sizes are right |

Why the bounds are enough. `slots`: the interesting widths are a word, half a
word, and one more connection than both words hold, which is all there. `parser`:
the buffer is shorter than a request, longer than a name, and as long as method
and name or shorter by one; cuts fall on every byte. `worker_*`: the send buffer
is shorter than a response, a receive is shorter than what may be pipelined, a
batch is as long as the connections (rough) or shorter (polite), and there are
fewer descriptors than connections (polite). `setup`: two changes make each
failure happen, and one more hides none: the invariants also hold with five
changes over four names. `chd`: a bucket of two keys is refused for a whole
round of `probe0`, so `probe1` advances; searches run out of probes with buckets
placed; mappings fail and leave `max_bucket_size` behind. With primes from 3 on
there are functions with one vacant bin and with seven. In `cmph` two keys are
enough for CHD, since there only the way into the stored forms is new. `tables`: strings cross
words and end with them, remainders have one bit and two, and select walks over words, bytes and
steps. `cmph`: one to three keys are hashed in every way (or every way from one
vertex) to the few vertices there are, which has each degenerate edge and cycle;
for more keys there are chosen graphs: a complete graph on four vertices, two
triangles with and without a tree, five ways between two vertices (the queue of
the heuristic runs full), paths. Two attempts make each kind of retry happen,
what a third one finds is what the second one found. Bytes of 8 make BMZ8 wrap
with seven keys, and the degrees of BDZ with nine keys at a vertex, equal ones
and different ones. BRZ sorts four keys or eight into one, two or three runs; with
memories of 7, 10 and 13 bytes and lengths of two the buffers end within a
length, within a key, with the last key and with a run, and there may be more
runs than are allowed. `KeysPerBucket` stands for the 65, 128 and 174 of the
code.

`CHECK_DEADLOCK FALSE` is set where the system may stop: a worker whose clients
are done waits for ever, and so does the polite run's; a set-up that failed or
crashed is over; `Chd` is done, has failed or is undefined; a function of `Cmph` is packed, or
there is none. In the other runs deadlock is
checked.

Each property has a mutant of the code in `PROJECT.json` (a dropped bound, a
missing rewind, a swapped order) that TLC finds it violated under.

### Fairness

* `JohnnyWorker!FairSpec`: weak fairness of `johnny_works`, a loop without exit
  on a thread that the scheduler runs, and of each client's `Take`: a client
  that reads what it is sent. Clients need never connect, ask or finish.
* `JohnnySetup!FairSpec`: weak fairness of the main thread, which blocks on
  nothing but the file system. Other processes need never do anything.
* `ChdConstruction!FairSpec`: weak fairness of the computation, which
  `cmph_new`'s caller waits for. For the two steps that make the tables it is
  stated by what they do to `pc` (`MakesTables`), which comes to the same, as no
  other step leaves their states.
* `Cmph!Spec`: weak fairness of the reading of the keys, of the caller's
  `cmph_new` and of its computation, all on one thread; and of the dump and load
  of a BRZ function, without which it is of no use. The client need not change
  the configuration, dump or pack.

## 4. What is proved

With TLAPS, for every value of the constants that the modules' assumptions
admit. A theorem `P => (Spec => ...)` has `P` for a hypothesis about the
constants; `NoDoubleCR` and `PoliteClients` are conditions on what clients do
without which the statement is false of the code, and `DefaultsNeverAbort` is
about the configurations that `johnny_setup` can ask for.

**ConnectionSlots** (`SlotsAssumption`: a long is twice as wide as an int, the
connections are finitely many).

* `TypeCorrect`, `UpperHalfNeverUsed`: by the invariant `IInv`, which adds to
  them that every word is sign-extended: bits from the last int position up are
  all set or all clear. It is needed because the type alone does not survive an
  allocation: the number of trailing ones is below the width of an int only
  since a word with the last int bit set is negative and counts none.
* `Exclusiveness`, `Tracking`: as long as there were never `IntBits` connections
  open at once. The history variable `peak` remembers; `FewIInv` adds that all
  contexts are then in the low bits of the first word, one bit each, and that
  `peak` bounds the number of open connections (a pigeonhole argument finds the
  free bit). Beyond that, `slots_shared` shows both to fail.

**RequestParser** (`ParserAssumption`: a name has no space, a rest ends in the
empty line and has none before; `NoDoubleCR`: in a rest no CR follows a CR).

* `TypeCorrect`, `TheScannerStaysInStep`, `NamesInOnePieceAreServed`: the three
  invariants of the run, for every sequence of requests, every size of the buffer
  and every way `recv` cuts the stream. All follow from `Inv`, which adds two
  things to them. `InBuffer` ties the buffer to the stream: what is left to scan
  is the last of what has been received, byte for byte. `Standing` says for each
  value of `prefix_counter` where in the stream the scanner is; within a rest,
  that the counter is the length of the `Longest` part of the empty line that the
  bytes so far end in. `Cuts` says of a name ahead whether it is in pieces.
* Three lemmas carry it: `StreamPositions` (where in the concatenation each byte
  of each request is), `OneByteMore` (what one more byte does to the longest
  match), `EmptyLine` (a match of four bytes is the end of a request and of
  nothing else).
* `NoDoubleCR` is needed for `OneByteMore`: a byte that does not match sets the
  counter back to 0 even when it is a CR, so that of CR CR LF CR LF the scanner
  sees no more than LF CR LF (section 5).

**JohnnyWorker** (`WorkerAssumption`), whatever the clients do unless it says
otherwise.

* `TypeCorrect`: the invariant `Typed` adds what each position in the loop says
  of the context being served and that the counts of a connection (asked,
  received, read, sent, taken) never overtake one another.
* `NoEventOfAFreedContext`: `Events1` says of the ready list and of the batch
  that they have no connection twice and only such as are open, or the listening
  socket. A connection is closed only when it is the one being served, which is
  in neither: that is why no event of a batch finds its context gone.
* `NoUnreadRequestIsForgotten`, `NoUnsentResponseIsForgotten`,
  `NoRequestIsLeftInABuffer`: by `Wakeups`. A connection that is not being served
  has an empty buffer, and each reason to serve it has a mark of its own: bytes
  or an end in the socket, a response left over, an event it will be given.
* `NothingIsSentTwice`: by `Answers`, which ties the last unit that was sent to
  `response` and `response_length`, and both to the requests still in the buffer.
  `NobodyIsHungUpOn` is an action property from the same invariant.
* `PoliteClientsGetTheService`: with clients that send nothing before the last
  response is whole and do not leave (`PoliteClients`; they may connect in
  bursts) the worker implements the safety part of `FileService`, step by step:
  every step of the loop and of a client is a step of the service or changes
  nothing a client sees. `PoliteService` says what is owed and sent in each
  position of the loop. `worker_pipelined` and `worker_last_request` show why the
  hypothesis is there. `PoliteClientsGetWholeResponses` is a consequence that
  the first of these runs refutes for other clients.

**JohnnySetup** (`SetupAssumption`: the names are finitely many sequences of
parts).

* `WhatWasReadIsServed`: once it serves, the array holds the counted number of
  distinct readable files, each at the hash index of its name, however often the
  tree changed. `IInv` says of each phase what the array holds, and of the
  reordering that the files before `move_from` are at their places. A move
  overwrites no earlier one: the hash takes the files' keys onto as many indices
  as there are files, so the map from files to indices, onto and between finite
  sets of one size, is one-to-one.
* `TypeCorrect`: by `Types`, which adds what each phase has made so far.
* `TheTreeIsServed`: by `Whole`. While nobody changes the tree, what was counted
  and what is still to be returned by `readdir` are together the files of the
  tree, and what was read are those that were returned.
* `WhatItTakesToGoWrong`: that nothing but a tree that changed, a file that
  cannot be opened, a single file, two names that differ only in their encoding
  or a `cmph_new` that gives up on keys that all differ makes the set-up fail.
  The last is the only one that a good tree, left alone, can meet. It needs that `url_encode` is one-to-one
  (`UrlEncodeIsOneToOne`), which is shown by reading the text back from its last
  part: an escape is told from a part by its percent sign, and that itself is
  escaped.

**Chd and CHD_PH** (`ChdAssumption`; `ConstructionAssumption`: there is a key, a
seed hashes every key, and a prime number above twice the keys is accepted;
`chd_ph_ordering` writes behind `sorted_lists` when there is no key at all).
Nothing is assumed of the hash functions but that they are functions of the
keys, nor of the number of probes but that a single key has none.

* `BinsHoldThePlaced`: by `IInv`, whose `Lists` is what the search relies on and
  the code nowhere says. `Left` are the places of the list that hold a bucket
  still to be placed: those written so far at the front and those not read yet.
  The buckets there are all different and all of the size that is placed; the
  lists of the smaller sizes are as `chd_ph_ordering` made them, each bucket once
  (`BucketsOfSizeOnce`). So a bucket that is placed leaves the waiting ones for
  good (`LeftAfterPlacing`), and one that is not is moved over a place whose
  bucket has been placed or moved itself (`LeftAfterFailing`). That a failed
  probe takes out what it has put in is `UndoneLeavesNoTrace`; that the test of
  one key after the other leaves room for all is `PlaceableFits`; that the
  displacement gives back both probes, as probe0 is below the number of bins, is
  `ProbeOfADisplacement`.
* `TypeCorrect`: the rest of `IInv`. The loops need that their counters are not 0
  (`Trials`) and the first probe that the table is clear again (`Emptied`).
* `AbortsOnlyWhen`: when the search has ended no bucket waits, with a key to a
  bin as many bins are taken as there are keys, and of three vacant bins the last
  is at least bin 2. `DefaultsNeverAbort` adds that with the least load factor
  more bins than twice the keys are asked for (`HalfIsVacant`).
* `MakesAPerfectHash`: every step is one of `PerfectHash`'s or changes nothing it
  sees. The number of a key of CHD is the rank of its bin among those taken
  (`ClosedUpCounts`), which is below their number and different for different
  bins (`RanksAreThePlaces`); the keys of a number are those of a bin. Of keys
  that repeat, two items are the same, and a single key has no probe
  (`SeveralKeys`). That the number is also what `chd_search` finds in the stored
  tables is `FindsWhatIsPlaced`, which is model-checked.

**Cmph** (`SourcesAssumption`: the buffer has room for a byte and its end, and
the elements of a vector are its keys; `HashAssumption`: a seed of FCH, BDZ or
BDZ_PH hashes every key, the sizes a client asks for are numbers, and the
permutation of FCH is one; `ByteAssumption`: a byte has more values than one).
Keys may repeat, and nothing else is assumed of the
hash functions: the graphs with doubled edges, loops or cycles are among those
the theorems are about. Every one of them is of `Cmph`'s specification, with the
client's choice of algorithm and size and every retry in it; `ChoiceInv` keeps
what was chosen.

* `KeysAreRead`: by `KeyInv`, which says for a file where a line begins that has
  been read in part (`ReadsInOrder`). A chunk ends where a line does or where
  the buffer is full, so what is read next belongs to the same line exactly if
  the last chunk did not end one (`ReadsALine`); the count that comes first
  stops at the same ends (`Counts`). The other kinds give an element for an
  index. That cmph reads each source twice and must find the same keys is why
  both passes are in one invariant.
* `QueueTakesWhatIsPeeled`: by `Queueing` of `BdzInv` (`Queued` in
  `CmphLemmas`): no edge is in the queue twice, each has a vertex that neither a
  later one nor an edge outside the queue has (`Peels`), and an edge that is not
  queued shares each of its vertices with another that has not been removed,
  perhaps one that waits in the queue (`Complete`). The last part is what could
  be lost: removing an edge may leave others with a vertex of their own, and
  `bdz_generate_queue` looks at the last edge left at each of its three vertices
  and at no other. An edge that shares a vertex with itself alone is that edge.
  This part survives the byte-sized degree: a vertex with one edge left reads 1.
  That an edge of the queue has a vertex of its own (`Once` is without it,
  `Peels` is with it) does not.
* `EdgesHaveOwnVertices`: by `Assigning` of `BdzInv`, for graphs that are not
  `Overfull` (`Few`): their degrees can wrap from 2^8 to 0 and to nothing else,
  so what reads 1 is 1. Without the condition TLC refutes it, with nine equal
  keys and bytes of 8. Edges are dealt with from
  the last of the queue to the first, so by `Peels` a vertex not yet marked is
  left for each, and the values of the marked ones, which decide where the
  edges dealt with point, do not change any more (`Dealt`).
* `TablesStayInverse`: by `FchInv`. `InBuckets` says that the buckets hold the
  keys, each once, and that the order they are placed in is a permutation of
  them; the tables are inverse already then. `Placing` (`Placed` in
  `CmphLemmas`) says that the values of the buckets placed, and of the keys of
  this one up to the last tried, are the first `filled_count` of
  `random_table`. A key that is placed swaps its value with the one at
  `filled_count`, which is free; a swap leaves the tables inverse. A bucket
  taken back gives up as many places as it had filled. Nothing resets the
  tables between one try and the next, nor needs to: they are inverse, whatever
  the permutation.

Lemmas about sequences and sets that are defined by recursion or by a choice
(`FlattenSeq`, `Max`, least elements) are in `InductionLemmas`. They are induced
in terms of sets: a set of naturals that has 0 and each successor has all.

Only model-checked, and why:

* liveness (`StartsUp`, and that what is asked is answered and what is found is
  made a function): out of the prover's reach;
* `LeavesTheCore` of BMZ and BMZ8, which says what is left when edges are
  deleted one after the other, `EdgesSumUp` and `NumbersInOrder` of CHM, which
  hold because the same deletion has found no cycle, and `SequenceIsKept` and
  `RankCounts` of the succinct tables, and with them `FindsWhatIsPlaced` and
  `StoredWhole`: what recursive definitions compute for every input would have
  to be shown;
* `SumsDiffer` of BMZ and BMZ8, whose labels are chosen by way of the graph's
  folds and of its neighbours in the order of a list, and `BreaksOnlyWhen` of
  `Cmph`, which speaks of all nine algorithms at once: no proof has been tried;
* `BucketsAreWhole` of BRZ, which is about a merge of sorted runs whose buffers
  are read back in parts: no proof has been tried.

## 5. What the code does not do

The runs that end in a violation are listed under `findings`.

* `slots_shared`: `johnny_worker.c:30,33`. The `int` shift makes a word negative
  at its 32nd connection and from then on its slot 0 is handed out, taken or not.
* `parser_cut`: `johnny_worker.c:121`. The part of a name that was moved to the
  start of the buffer is overwritten by the next `recv`.
* `worker_pipelined`: `johnny_worker.c:151`. The next request is handled while
  the response before it has not been fully sent.
* `worker_last_request`: `johnny_worker.c:190`. `JOHNNY_CTX_RDHUP` is tested and
  `EPOLLRDHUP` stored.

`GoesWrongOnlyWhen` and `FindsWhatIsPlaced` state when the set-up crashes or
is undefined, and that a lookup may read one element past the files.
`johnny_setup.c:195` follows the result of `cmph_new`, which may be NULL over a
good tree too: two names that collide under both of the seeds two keys have are
enough. `StartsUp` makes the exception.
`johnny_worker.c:163` accepts one connection for an edge that may stand for many, or for none that has a descriptor: the
others stay in the backlog until the next one comes. No line of the repository
says otherwise; `JohnnyWorker` has the behaviour (`Clients`, `MaxFds`), and
`FileService` lets a connection wait.

`johnny_worker.c:133-136` starts over at the byte after one that does not match. Before the
empty line that loses nothing unless the byte is a CR: a request whose last line
ends in CR CR LF CR LF is never found complete, and the next one on the
connection is taken for a part of it. HTTP has no such line, so the instances of
`RequestParser` have none, and the theorems say so (`NoDoubleCR`).

`BreaksOnlyWhen` states what goes wrong in the algorithms of cmph, and that
nothing else does:

* `chd.c:119`: `cmph/README:289` offers several keys to a bin for CHD too, but
  `chd_new` reads the table, which has a byte for each bin then, bit by bit and
  stores more vacant bins than there is room for.
* `compressed_rank.c:49`: when all the vacant bins are 0 or 1, which takes a load
  factor near 1 (10 keys in 11 bins), `select_generate` reads the first element
  of an empty array. Johnny sets no load factor and has as many vacant bins as
  files.
* `bmz.c:274`: the queue of the heuristic has room for half of the critical
  vertices, and `vqueue_insert` asserts that there is room.
* `bmz.c:533`, `bmz8.c:541` and the packed searches: when both hashes are the
  last vertex the second one is moved to a vertex beyond the table. Such a key
  is found wherever the memory behind the table says.
* `bmz8.c:76`: the number of vertices is cut to a byte, and may be 0.
* `bdz.c:62`, `bdz_ph.c:49`: the degree of a vertex is a byte. A key that is
  repeated 257 times, which cmph refuses otherwise, gives three vertices of
  degree 1; its edges are all queued and assigned, and share a number.
* `brz.c:161`: an attempt leaves the sizes of the buckets, and in the file its
  header and functions, to the next. No second attempt gives a function that can
  be loaded.
* `brz.c:434`: a bucket without keys gets no function, and the load reads one for
  each bucket.
* `buffer_entry.c:57-92`: a buffer that ends within the length of a key stores the
  rest of it one to three words behind the length; a run that ends with a buffer
  gives one more key; a key longer than two buffers is read from behind one.
* `brz.c:752`: the packed `c` is the whole part of `c` (2 of the default 2.6), and
  the packed search computes the tables' sizes from it.

FCH counts its last mapping as a failure even when that succeeds (`fch.c:287`);
`PerfectHash` allows it.

## 6. Not modelled

Response headers and mime types (formatting); socket options, `listen`,
affinities and limits (calls without state of their own); the inactivity timeout
of `johnny_config.h`, which no code implements; failing `malloc`; the arithmetic
of the Jenkins hash and of the primality test; the search without `use_h`, which
is dead code; the space accounting and the statistics; the setters of BRZ's
directory and file, which store a value; a key larger than BRZ's memory,
which overruns it; `vstack.c` and `linear_string_map.c`, which no algorithm
uses; `cxxmph`; tests and programs.

## 7. Plan

Modelled so far, in this order: contexts, scanner, worker, set-up, CHD and its
tables, then the front end with the graph algorithms, FCH and BRZ, and CHD's
stored forms. What is left:

1. Proofs: `SumsDiffer` of `Bmz` and `Bmz8`, `BucketsAreWhole` of `Brz`; the
   position arithmetic of `bitbool.h` as lemmas.
2. `JohnnyWorker` composed with `ConnectionSlots`: two connections that share a
   context, in the terms of what their clients receive.
3. `Brz` on top of `Fch` and `Bmz8` instead of what they may return: a nested
   `cmph_new`.
