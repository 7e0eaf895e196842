-------------------------------- MODULE Chm --------------------------------
(***************************************************************************)
(* CHM of cmph (cmph/src/chm.c).  Two hash functions make every key an     *)
(* edge of a graph of n vertices, until one without cycles is found.  A    *)
(* walk of each tree then gives the vertices values g, such that the sum   *)
(* of the ends of an edge is the place of its key in the source.           *)
(***************************************************************************)
EXTENDS HashGraph, StoredFunction, FiniteSetsExt

CONSTANTS
  Seeds(_, _),   \* bound: the functions from the keys ks to pairs below n
  Iterations,    \* 20 in the code
  W              \* a cmph_uint32 is below W, 2^32 in the code

VARIABLES
  keys,        \* mph->key_source
  algo,
  c,           \* the parameter c, in hundredths; 0 asks for the default
  pc,          \* "new", "mapping", "assigning", "done", "failed"
  iterations,
  hashes,      \* chm->hashes
  graph, g,
  visited,
  stack,       \* the calls of chm_traverse, the last one first
  mphf         \* what chm_new returns

config == <<keys, algo, c>>
vars == <<config, pc, iterations, hashes, graph, g, visited, stack, mphf>>

m == Len(keys)
n == ((IF c = 0 THEN 209 ELSE c) * m + 99) \div 100
Vertices == 0 .. n - 1

NewHashes(seed) ==
  <<hash_state_new([k \in DOMAIN seed |-> seed[k][1]]),
    hash_state_new([k \in DOMAIN seed |-> seed[k][2]])>>

\* The two ends of the edge of a key; equal ones are moved apart.
Ends(h1, h2, nn) ==
  LET v1 == h1 % nn
      v2 == h2 % nn
  IN  <<v1, IF v1 = v2 THEN (v2 + 1) % nn ELSE v2>>

EdgesOfKeys(hs) ==
  FoldLeft(LAMBDA gr, key :
             LET ends == Ends(hash(hs[1], key), hash(hs[2], key), n)
             IN  graph_add_edge(gr, ends[1], ends[2]),
           graph_clear_edges, keys)

\* A graph of one vertex has nothing but self loops.
chm_gen_edges(hs) ==
  LET es == EdgesOfKeys(hs)
  IN  (\A x \in 1 .. m : es[x][1] # es[x][2]) /\ ~graph_is_cyclic(es, n)

\* Before chm_new is called.
Init == hashes = <<>> /\ graph = <<>> /\ g = <<>> /\ visited = {} /\ stack = <<>>

Called ==
  /\ pc = "new" /\ pc' = "mapping" /\ iterations' = Iterations
  /\ UNCHANGED <<config, hashes, graph, g, visited, stack, mphf>>

\* The edges of a mapping that fails are cleared by the next.
Mapping ==
  /\ pc = "mapping"
  /\ \E seed \in Seeds(keys, n) :
       LET hs == NewHashes(seed)
       IN  \/ /\ hashes' = hs /\ chm_gen_edges(hs)
              /\ graph' = EdgesOfKeys(hs) /\ pc' = "assigning"
              /\ g' = [v \in Vertices |-> 0] /\ UNCHANGED <<iterations, mphf>>
           \/ /\ UNCHANGED <<hashes, graph, g>> /\ ~chm_gen_edges(hs)
              /\ iterations' = iterations - 1
              /\ IF iterations = 1 THEN pc' = "failed" /\ mphf' = <<"NULL">>
                                   ELSE UNCHANGED <<pc, mphf>>
  /\ UNCHANGED <<config, visited, stack>>

\* The neighbours of the vertex being visited that are not visited yet.
Unvisited == SelectSeq(graph_neighbors(graph, Head(stack)), LAMBDA v : v \notin visited)

StartsTree ==
  /\ pc = "assigning" /\ stack = <<>> /\ visited # Vertices
  /\ LET i == Min(Vertices \ visited)
     IN  stack' = <<i>> /\ visited' = visited \cup {i} /\ g' = [g EXCEPT ![i] = 0]
  /\ UNCHANGED <<config, pc, iterations, hashes, graph, mphf>>

\* Mutant: the difference is not kept to the width of g.
Difference_signed(e, gv) == e - gv

Difference(e, gv) == (e - gv) % W

\* chm_traverse: on to the next neighbour, or back to the caller.
chm_traverse ==
  /\ pc = "assigning" /\ stack # <<>>
  /\ IF Unvisited = <<>>
       THEN stack' = Tail(stack) /\ UNCHANGED <<visited, g>>
       ELSE LET v == Head(stack)
                neighbor == Head(Unvisited)
            IN  /\ g' = [g EXCEPT ![neighbor] =
                           Difference(graph_edge_id(graph, v, neighbor), g[v])]
                /\ visited' = visited \cup {neighbor} /\ stack' = <<neighbor>> \o stack
  /\ UNCHANGED <<config, pc, iterations, hashes, graph, mphf>>

\* The function is made and what the construction used is given back.
Finish ==
  /\ pc = "assigning" /\ stack = <<>> /\ visited = Vertices
  /\ mphf' = [algo |-> algo, size |-> m,
              data |-> [g |-> g, hashes |-> hashes, n |-> n, m |-> m]]
  /\ pc' = "done" /\ hashes' = <<>> /\ g' = <<>> /\ graph' = <<>> /\ visited' = {}
  /\ UNCHANGED <<config, iterations, stack>>

chm_new == Called \/ Mapping \/ StartsTree \/ chm_traverse \/ Finish

---------------------------------------------------------------------------
\* Mutant: the sum is not kept to the width of g.
Value_unwrapped(gs, nn, mm, h1, h2) ==
  LET ends == Ends(h1, h2, nn) IN (gs[ends[1]] + gs[ends[2]]) % mm

\* The value of a key with these hashes: search and search_packed alike.
Value(gs, nn, mm, h1, h2) ==
  LET ends == Ends(h1, h2, nn) IN ((gs[ends[1]] + gs[ends[2]]) % W) % mm

chm_search(f, key) ==
  Value(f.data.g, f.data.n, f.data.m,
        hash(f.data.hashes[1], key), hash(f.data.hashes[2], key))

\* Mutant: m is written before n, which chm_load reads first.
chm_dump_swapped(f) ==
  __cmph_dump(f) \o <<Word(2)>>
    \o hash_state_dump(f.data.hashes[1]) \o hash_state_dump(f.data.hashes[2])
    \o <<Word(f.data.m), Word(f.data.n), Table(4, f.data.n, f.data.g)>>

chm_dump(f) ==
  __cmph_dump(f) \o <<Word(2)>>
    \o hash_state_dump(f.data.hashes[1]) \o hash_state_dump(f.data.hashes[2])
    \o <<Word(f.data.n), Word(f.data.m), Table(4, f.data.n, f.data.g)>>

\* f is the stream after its first two fields, which __cmph_load has read.
chm_load(f) ==
  [hashes |-> <<hash_state_load(f[3].value), hash_state_load(f[5].value)>>,
   n |-> f[6].value, m |-> f[7].value, g |-> f[8].value]

chm_pack(f) ==
  PackedHash(f.data.hashes[1]) \o PackedHash(f.data.hashes[2])
    \o <<Word(f.data.n), Word(f.data.m), Table(4, f.data.n, f.data.g)>>

chm_packed_size(f) ==
  4 + hash_state_packed_size(hash_get_type(f.data.hashes[1]))
    + hash_state_packed_size(hash_get_type(f.data.hashes[2])) + 4 * 4 + 4 * f.data.n

chm_search_packed(p, key) ==
  LET h1_ptr == 4
      h2_ptr == h1_ptr + hash_state_packed_size(At(p, 0)) + 4
      g_ptr == h2_ptr + hash_state_packed_size(At(p, h2_ptr - 4))
  IN  Value(At(p, g_ptr + 8), At(p, g_ptr), At(p, g_ptr + 4),
            hash_packed(At(p, h1_ptr), key), hash_packed(At(p, h2_ptr), key))

---------------------------------------------------------------------------
(* Properties. *)

\* The values fit the width of g, and every edge that was walked has the
\* number of its key as the sum of its ends, whatever was walked since.
EdgesSumUp ==
  pc = "assigning" =>
    /\ \A v \in Vertices : g[v] \in 0 .. W - 1
    /\ \A e \in EdgesOf(graph) :
         ToSet(graph[e + 1]) \subseteq visited =>
           (g[graph_vertex_id(graph, e, 0)] + g[graph_vertex_id(graph, e, 1)]) % W = e
=============================================================================
