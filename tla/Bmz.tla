-------------------------------- MODULE Bmz --------------------------------
(***************************************************************************)
(* BMZ of cmph (cmph/src/bmz.c).  The keys are the edges of a simple       *)
(* graph, which may have cycles.  The vertices of its 2-core, the critical *)
(* ones, get values from a breadth-first search that looks ahead for the   *)
(* edges not to share a sum; the others are walked like those of CHM, and  *)
(* their edges get the numbers that are left.                              *)
(***************************************************************************)
EXTENDS HashGraph, StoredFunction, FiniteSetsExt

CONSTANTS
  Seeds(_, _),           \* bound: the functions from the keys ks to pairs below n
  Iterations,            \* 100 in the code
  MapIterations,         \* 20 in the code
  W,                     \* 2^32 for bmz.c; n and the values of g are below W
  vqueue_capacity(_, _)  \* for the heuristic or not, and ncritical

VARIABLES
  keys, algo, c,
  pc,                    \* "new", "mapping", "critical", "noncritical", "done", "failed",
                         \* or "aborted" by an assertion or a trap
  iterations, iterations_map, restart_mapping,
  hashes, graph,
  critical_nodes,        \* of the graph, once graph_obtain_critical_nodes has run
  g, visited, used_edges,
  biggest_g_value, biggest_edge_value,
  q,                     \* the vertex being expanded, then the queue
  unused_g_values,
  i, unused_edge_index,  \* of bmz_traverse_non_critical_nodes
  stack,                 \* the calls of bmz_traverse, the last one first
  mphf

config == <<keys, algo, c>>
edges == <<hashes, graph, critical_nodes>>
search == <<restart_mapping, biggest_g_value, biggest_edge_value, unused_g_values>>
walk == <<i, unused_edge_index, stack>>
vars == <<config, pc, iterations, iterations_map, edges, g, visited, used_edges,
          search, q, walk, mphf>>

m == Len(keys)
n == (((IF c = 0 THEN 115 ELSE c) * m + 99) \div 100) % W
Vertices == 0 .. n - 1
heuristic == c \in 1 .. 114

NewHashes(seed) ==
  <<hash_state_new([k \in DOMAIN seed |-> seed[k][1]]),
    hash_state_new([k \in DOMAIN seed |-> seed[k][2]])>>

Ends(hs, k) ==
  LET h1 == hash(hs[1], k) % n
      h2 == hash(hs[2], k) % n
  IN  <<h1, IF h1 # h2 THEN h2 ELSE IF h2 + 1 >= n THEN 0 ELSE h2 + 1>>

EdgesOfKeys(hs) ==
  FoldLeft(LAMBDA gr, key : graph_add_edge(gr, Ends(hs, key)[1], Ends(hs, key)[2]),
           graph_clear_edges, keys)

\* No key is a self loop and no two are the same edge.
bmz_gen_edges(hs) ==
  LET es == EdgesOfKeys(hs)
  IN  \A x \in 1 .. m : /\ es[x][1] # es[x][2]
                         /\ ~graph_contains_edge(SubSeq(es, 1, x - 1), es[x][1], es[x][2])

\* Before bmz_new is called.
Init ==
  /\ restart_mapping = FALSE /\ hashes = <<>> /\ graph = graph_clear_edges
  /\ critical_nodes = {} /\ g = <<>>
  /\ visited = {} /\ used_edges = {} /\ biggest_g_value = 0 /\ biggest_edge_value = 1
  /\ q = <<>> /\ unused_g_values = <<>> /\ i = 0 /\ unused_edge_index = 0 /\ stack = <<>>

Called ==
  /\ pc = "new" /\ pc' = "mapping"
  /\ iterations' = Iterations /\ iterations_map' = MapIterations
  /\ UNCHANGED <<config, edges, g, visited, used_edges, search, q, walk, mphf>>

Mapping ==
  /\ pc = "mapping" /\ (n # 0 \/ m = 0)   \* else see Bmz8
  /\ \E seed \in Seeds(keys, n) :
       LET hs == NewHashes(seed)
       IN  \/ /\ hashes' = hs /\ bmz_gen_edges(hs)
              /\ graph' = EdgesOfKeys(hs) /\ pc' = "critical"
              /\ critical_nodes' = graph_obtain_critical_nodes(graph', n)
              /\ g' = [v \in Vertices |-> 0] /\ UNCHANGED <<iterations, mphf>>
           \/ /\ UNCHANGED <<edges, g>> /\ ~bmz_gen_edges(hs)
              /\ iterations' = iterations - 1
              /\ IF iterations = 1 THEN pc' = "failed" /\ mphf' = <<"NULL">>
                                   ELSE UNCHANGED <<pc, mphf>>
  /\ UNCHANGED <<config, iterations_map, visited, used_edges, search, q, walk>>

---------------------------------------------------------------------------
(* The critical vertices. *)

StartsComponent ==
  /\ pc = "critical" /\ q = <<>> /\ ~(critical_nodes \subseteq visited)
  /\ LET v == Min(critical_nodes \ visited)
     IN  /\ g' = [g EXCEPT ![v] = (biggest_edge_value + 1) \div 2 - 1]
         /\ visited' = visited \cup {v} /\ q' = <<v>>
  /\ unused_g_values' = <<>> /\ restart_mapping' = FALSE
  /\ UNCHANGED <<config, pc, iterations, iterations_map, edges, used_edges,
                 biggest_g_value, biggest_edge_value, walk, mphf>>

Unlabelled(v) == SelectSeq(graph_neighbors(graph, v), LAMBDA u : u \in critical_nodes \ visited)

\* The neighbours of u that have a value already, and those with which the
\* value x would give an edge a sum that is too large or taken.
Lookahead(u) == SelectSeq(graph_neighbors(graph, u), LAMBDA lav : lav \in critical_nodes \cap visited)
Objections(u, x) ==
  SelectSeq(Lookahead(u), LAMBDA lav : x + g[lav] >= m \/ x + g[lav] \in used_edges)

Collides(u, x) == Objections(u, x) # <<>> /\ x + g[Head(Objections(u, x))] < m

\* The values in the order they are tried: those the heuristic has saved,
\* then fresh ones.  The first that does not collide ends the search.
Tried == unused_g_values \o [x \in 1 .. m |-> biggest_g_value + x]
next_g_index(u) == Min({x \in DOMAIN Tried : ~Collides(u, Tried[x])})
next_g(u) == Tried[next_g_index(u)]

\* Fresh values that collide are saved; a saved one that fits gives its
\* place to the last.
Saved(u) ==
  IF next_g_index(u) > Len(unused_g_values)
    THEN SubSeq(Tried, 1, next_g_index(u) - 1)
    ELSE Front([unused_g_values EXCEPT ![next_g_index(u)] = Last(unused_g_values)])

Sums(u) == {next_g(u) + g[lav] : lav \in ToSet(Lookahead(u))}

\* The neighbour u of the vertex being expanded gets the first value that
\* collides with no sum.  A sum of m or more ends this mapping.
Label ==
  /\ pc = "critical" /\ q # <<>> /\ Unlabelled(Head(q)) # <<>>
  /\ LET u == Head(Unlabelled(Head(q)))
     IN  IF Objections(u, next_g(u)) # <<>>
           THEN /\ pc' = "restart" /\ restart_mapping' = TRUE /\ q' = <<>>
                /\ UNCHANGED <<g, visited, used_edges, biggest_g_value, biggest_edge_value,
                               unused_g_values>>
           ELSE /\ g' = [g EXCEPT ![u] = next_g(u)] /\ visited' = visited \cup {u}
                /\ used_edges' = used_edges \cup Sums(u)
                /\ biggest_g_value' = Max({biggest_g_value, next_g(u)})
                /\ biggest_edge_value' = Max({biggest_edge_value} \cup Sums(u))
                /\ unused_g_values' = IF heuristic THEN Saved(u) ELSE <<>>
                /\ IF Len(Tail(q)) = vqueue_capacity(heuristic, Cardinality(critical_nodes))
                     THEN pc' = "aborted" /\ UNCHANGED q
                     ELSE pc' = pc /\ q' = Append(q, u)
                /\ UNCHANGED restart_mapping
  /\ UNCHANGED <<config, iterations, iterations_map, edges, walk, mphf>>

\* vqueue_remove.
Dequeue ==
  /\ pc = "critical" /\ q # <<>> /\ Unlabelled(Head(q)) = <<>> /\ q' = Tail(q)
  /\ UNCHANGED <<config, pc, iterations, iterations_map, edges, g, visited,
                 used_edges, search, walk, mphf>>

bmz_traverse_critical_nodes == StartsComponent \/ Label \/ Dequeue

\* Mutant: another mapping keeps the edges that were used.
Restarts_keeping == iterations' = Iterations /\ visited' = {} /\ UNCHANGED used_edges

Restarts == iterations' = Iterations /\ visited' = {} /\ used_edges' = {}

\* restart_mapping is what the last component left it, also where the graph
\* has no critical vertex and nothing has set it since the last mapping.
EndOfCritical ==
  /\ pc = "critical" /\ q = <<>> /\ critical_nodes \subseteq visited
  /\ pc' = IF restart_mapping THEN "restart" ELSE "noncritical"
  /\ i' = 0 /\ unused_edge_index' = 0
  /\ UNCHANGED <<config, iterations, iterations_map, edges, g, visited, used_edges,
                 search, q, stack, mphf>>

RestartMapping ==
  /\ pc = "restart" /\ iterations_map' = iterations_map - 1
  /\ IF iterations_map = 1 THEN pc' = "failed" /\ mphf' = <<"NULL">>
                           ELSE pc' = "mapping" /\ UNCHANGED mphf
  /\ Restarts /\ biggest_g_value' = 0 /\ biggest_edge_value' = 1
  /\ unused_g_values' = <<>> /\ hashes' = <<>> /\ graph' = <<>>
  /\ critical_nodes' = {} /\ g' = <<>>
  /\ UNCHANGED <<config, restart_mapping, q, walk>>

---------------------------------------------------------------------------
(* The others. *)

\* The edges in their order: those with one end visited are walked from it.
ScanEdge ==
  /\ pc = "noncritical" /\ stack = <<>> /\ i < m /\ i' = i + 1
  /\ LET ends == ToSet(graph[i + 1])
     IN  stack' = IF Cardinality(ends \cap visited) = 1
                    THEN <<CHOOSE v \in ends : v \in visited>> ELSE <<>>
  /\ UNCHANGED <<config, pc, iterations, iterations_map, edges, g, visited,
                 used_edges, search, q, unused_edge_index, mphf>>

\* Then the vertices of the trees that no critical vertex belongs to.
ScanVertex ==
  /\ pc = "noncritical" /\ stack = <<>> /\ i = m /\ visited # Vertices
  /\ LET v == Min(Vertices \ visited)
     IN  g' = [g EXCEPT ![v] = 0] /\ visited' = visited \cup {v} /\ stack' = <<v>>
  /\ UNCHANGED <<config, pc, iterations, iterations_map, edges, used_edges,
                 search, q, i, unused_edge_index, mphf>>

Unvisited == SelectSeq(graph_neighbors(graph, Head(stack)), LAMBDA v : v \notin visited)
Unused == (unused_edge_index .. m - 1) \ used_edges

next_unused_edge == Min(Unused)

bmz_traverse ==
  /\ pc = "noncritical" /\ stack # <<>>
  /\ IF Unvisited = <<>>
       THEN stack' = Tail(stack) /\ UNCHANGED <<pc, g, visited, unused_edge_index>>
       ELSE IF Unused = {}
       THEN pc' = "aborted" /\ UNCHANGED <<stack, g, visited, unused_edge_index>>
       ELSE /\ g' = [g EXCEPT ![Head(Unvisited)] = (next_unused_edge - g[Head(stack)]) % W]
            /\ visited' = visited \cup {Head(Unvisited)}
            /\ unused_edge_index' = next_unused_edge + 1
            /\ stack' = <<Head(Unvisited)>> \o stack /\ UNCHANGED pc
  /\ UNCHANGED <<config, iterations, iterations_map, edges, used_edges, search, q,
                 i, mphf>>

bmz_traverse_non_critical_nodes == ScanEdge \/ ScanVertex \/ bmz_traverse

Finish ==
  /\ pc = "noncritical" /\ stack = <<>> /\ i = m /\ visited = Vertices
  /\ mphf' = [algo |-> algo, size |-> m,
              data |-> [g |-> g, hashes |-> hashes, n |-> n, m |-> m]]
  /\ pc' = "done" /\ hashes' = <<>> /\ graph' = <<>> /\ critical_nodes' = {}
  /\ g' = <<>> /\ visited' = {}
  /\ used_edges' = {}
  /\ UNCHANGED <<config, iterations, iterations_map, search, q, walk>>

bmz_new ==
  Called \/ Mapping \/ bmz_traverse_critical_nodes \/ EndOfCritical
    \/ RestartMapping \/ bmz_traverse_non_critical_nodes \/ Finish

---------------------------------------------------------------------------
\* Equal hashes are moved apart, but a search wraps one vertex too late:
\* of a key with twice the last vertex it takes g[n], behind the table.
SearchEnds(h1, h2, nn) ==
  <<h1 % nn, IF h1 % nn # h2 % nn THEN h2 % nn
             ELSE IF (h2 % nn) + 1 > nn THEN 0 ELSE (h2 % nn) + 1>>

BehindTheTable == -1   \* what is read there

Value(gs, ends) ==
  IF ends[2] \in DOMAIN gs THEN (gs[ends[1]] + gs[ends[2]]) % W ELSE BehindTheTable

bmz_search(f, key) ==
  Value(f.data.g, SearchEnds(hash(f.data.hashes[1], key), hash(f.data.hashes[2], key), f.data.n))

bmz_dump(f) ==
  __cmph_dump(f) \o <<Word(2)>>
    \o hash_state_dump(f.data.hashes[1]) \o hash_state_dump(f.data.hashes[2])
    \o <<Word(f.data.n), Word(f.data.m), Table(4, f.data.n, f.data.g)>>

bmz_load(f) ==
  [hashes |-> <<hash_state_load(f[3].value), hash_state_load(f[5].value)>>,
   n |-> f[6].value, m |-> f[7].value, g |-> f[8].value]

bmz_pack(f) ==
  PackedHash(f.data.hashes[1]) \o PackedHash(f.data.hashes[2])
    \o <<Word(f.data.n), Table(4, f.data.n, f.data.g)>>

bmz_packed_size(f) ==
  4 + hash_state_packed_size(hash_get_type(f.data.hashes[1]))
    + hash_state_packed_size(hash_get_type(f.data.hashes[2])) + 3 * 4 + 4 * f.data.n

bmz_search_packed(p, key) ==
  LET h1_ptr == 4
      h2_ptr == h1_ptr + hash_state_packed_size(At(p, 0)) + 4
      g_ptr == h2_ptr + hash_state_packed_size(At(p, h2_ptr - 4))
  IN  Value(At(p, g_ptr + 4),
            SearchEnds(hash_packed(At(p, h1_ptr), key), hash_packed(At(p, h2_ptr), key),
                       At(p, g_ptr)))

---------------------------------------------------------------------------
(* Properties. *)

Labelled == {e \in EdgesOf(graph) : ToSet(graph[e + 1]) \subseteq visited}
Sum(e) == (g[graph_vertex_id(graph, e, 0)] + g[graph_vertex_id(graph, e, 1)]) % W

\* No two edges with both ends labelled have the same sum, and none has one
\* of m or more: the lookahead compares a new sum with those of before, and
\* not with the others of the same vertex.
SumsDiffer ==
  pc \in {"critical", "noncritical"} =>
    /\ \A e \in Labelled : Sum(e) < m
    /\ \A d, e \in Labelled : Sum(d) = Sum(e) => d = e

\* While the critical vertices are labelled used_edges is what they have
\* used, so that as many numbers are left as there are other edges.
UsedAreTheSums ==
  pc = "critical" => used_edges = {Sum(e) : e \in Labelled}
=============================================================================
