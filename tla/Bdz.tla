-------------------------------- MODULE Bdz --------------------------------
(***************************************************************************)
(* BDZ of cmph (cmph/src/bdz.c).  A hash function makes every key an edge  *)
(* of three vertices, one of each third.  The edges that have a vertex of  *)
(* their own are removed, and those that get one by that, until none is    *)
(* left; in the reverse order every edge is given a vertex that no other   *)
(* edge has, and g tells which of the three it is.  The keys are numbered  *)
(* by the rank of their vertex among those that were given.                *)
(***************************************************************************)
EXTENDS Integers, Sequences, SequencesExt, FiniteSets, FiniteSetsExt, SetsInOrder, StoredFunction

CONSTANTS
  Seeds(_, _),   \* bound: the functions from the keys ks to triples below r
  Iterations,    \* 1000 in the code
  ByteLimit      \* 2^8

VARIABLES
  keys, algo, c,
  b,             \* bdz->b, the number of bits of k
  pc,            \* "new", "mapping", "queueing", "assigning", "ranking", "done", "failed"
  iterations,
  hl,            \* bdz->hl
  graph,         \* the edges, as triples
  queue, queue_tail,
  i,             \* of assigning: the edges of the queue that are left
  marked_vertices, g,
  mphf

config == <<keys, algo, c, b>>
vars == <<config, pc, iterations, hl, graph, queue, queue_tail, i, marked_vertices, g, mphf>>

UNASSIGNED == 3

m == Len(keys)

\* The third of a graph, odd.
Third(cc, mm) ==
  LET third == ((IF cc = 0 THEN 123 ELSE cc) * mm + 299) \div 300
  IN  IF third % 2 = 0 THEN third + 1 ELSE third
r == Third(c, m)
n == 3 * r
Vertices == 0 .. n - 1

k == 2 ^ b
ranktablesize == (n + k - 1) \div k

\* The three vertices of a key.
HashVector(seed, key, rr) ==
  LET v == hash(seed, key) IN  <<v[1] % rr, (v[2] % rr) + rr, (v[3] % rr) + 2 * rr>>

\* The edges of a vertex that are still in the graph, its degree, which is
\* kept in a byte, and the edge that its list begins with.
Removed == {queue[x] : x \in 1 .. queue_tail}
EdgesAt(gr, v, removed) == {e \in 0 .. Len(gr) - 1 \ removed : v \in ToSet(gr[e + 1])}
vert_degree(gr, v, removed) == Cardinality(EdgesAt(gr, v, removed)) % ByteLimit
first_edge(gr, v, removed) == Max(EdgesAt(gr, v, removed))

\* Before bdz_new is called.
Init ==
  /\ hl = <<>> /\ graph = <<>>
  /\ queue = <<>> /\ queue_tail = 0 /\ i = 0 /\ marked_vertices = {} /\ g = <<>>

Called ==
  /\ pc = "new" /\ pc' = "mapping" /\ iterations' = Iterations
  /\ UNCHANGED <<config, hl, graph, queue, queue_tail, i, marked_vertices, g, mphf>>

bdz_mapping ==
  /\ pc = "mapping" /\ pc' = "queueing"
  /\ \E seed \in Seeds(keys, r) :
       LET state == hash_state_new(seed)
           gr == [x \in 1 .. m |-> HashVector(state, keys[x], r)]
       IN  /\ hl' = state /\ graph' = gr /\ queue_tail' = 0
           /\ queue' = Ascending({e \in 0 .. m - 1 :
                                    \E v \in ToSet(gr[e + 1]) : vert_degree(gr, v, {}) = 1})
  /\ UNCHANGED <<config, iterations, i, marked_vertices, g, mphf>>

\* The edge of a vertex that has one left is queued, unless it has been.
Queues(edges, v, removed) ==
  IF vert_degree(graph, v, removed) = 1 /\ first_edge(graph, v, removed) \notin ToSet(edges)
    THEN Append(edges, first_edge(graph, v, removed)) ELSE edges

\* Mutant: only the last of the three vertices is looked at.
Freed_last(curr_edge) ==
  Queues(queue, graph[curr_edge + 1][3], Removed \cup {curr_edge})

\* The queue with the edges that have a vertex of their own once curr_edge
\* is removed, in the order of its vertices.
Freed(curr_edge) ==
  LET vertices == graph[curr_edge + 1]
      removed == Removed \cup {curr_edge}
  IN  Queues(Queues(Queues(queue, vertices[1], removed), vertices[2], removed),
             vertices[3], removed)

bdz_remove_edge ==
  /\ pc = "queueing" /\ queue_tail < Len(queue)
  /\ queue_tail' = queue_tail + 1
  /\ queue' = Freed(queue[queue_tail + 1])
  /\ UNCHANGED <<config, pc, iterations, hl, graph, i, marked_vertices, g, mphf>>

\* All the edges have been queued.  The next mapping begins with no edge.
Emptied == Len(queue) = m

QueueEnds ==
  /\ pc = "queueing" /\ queue_tail = Len(queue)
  /\ IF Emptied
       THEN /\ pc' = "assigning" /\ i' = Len(queue) /\ marked_vertices' = {}
            /\ g' = [v \in Vertices |-> UNASSIGNED]
            /\ UNCHANGED <<iterations, hl, graph, queue, queue_tail, mphf>>
       ELSE /\ iterations' = iterations - 1 /\ hl' = <<>>
            /\ graph' = <<>> /\ queue' = <<>> /\ queue_tail' = 0
            /\ IF iterations = 1 THEN pc' = "failed" /\ mphf' = <<"NULL">>
                                 ELSE pc' = "mapping" /\ UNCHANGED mphf
            /\ UNCHANGED <<i, marked_vertices, g>>
  /\ UNCHANGED config

---------------------------------------------------------------------------
\* A value of two bits is written by clearing bits of the ones there.
SETVALUE1(old, value) == 2 * ((old \div 2) * (value \div 2)) + (old % 2) * (value % 2)

\* The first vertex of an edge that is not marked, or the last of the three.
Chosen(e) == Min({x \in 1 .. 3 : graph[e + 1][x] \notin marked_vertices} \cup {3})

\* What makes the values of the three vertices point at it.
Pointer(e) ==
  LET vs == graph[e + 1]
      others == g[vs[1]] + g[vs[2]] + g[vs[3]] - g[vs[Chosen(e)]]
  IN  (5 + Chosen(e) - others) % 3

\* Mutant: only the vertex that is given gets marked.
Marks_one(e) == {graph[e + 1][Chosen(e)]}

\* The vertices of an edge from the chosen one on are marked.
Marks(e) == {graph[e + 1][x] : x \in Chosen(e) .. 3}

assigning ==
  /\ pc = "assigning" /\ i > 0 /\ i' = i - 1
  /\ LET e == queue[i]
     IN  /\ g' = [g EXCEPT ![graph[e + 1][Chosen(e)]] = SETVALUE1(@, Pointer(e))]
         /\ marked_vertices' = marked_vertices \cup Marks(e)
  /\ UNCHANGED <<config, pc, iterations, hl, graph, queue, queue_tail, mphf>>

\* What bdz_lookup_table and GETVALUE count: the vertices that were given.
Assigned(gs, from, to) == Cardinality({v \in from .. to - 1 : gs[v] # UNASSIGNED})

ranktable == [x \in 0 .. ranktablesize - 1 |-> Assigned(g, 0, x * k)]

ranking ==
  /\ pc = "assigning" /\ i = 0 /\ pc' = "done"
  /\ mphf' = [algo |-> algo, size |-> m,
              data |-> [g |-> g, hl |-> hl, ranktable |-> ranktable,
                        ranktablesize |-> ranktablesize, k |-> k, b |-> b,
                        n |-> n, m |-> m, r |-> r]]
  /\ hl' = <<>> /\ g' = <<>> /\ graph' = <<>> /\ queue' = <<>> /\ queue_tail' = 0
  /\ marked_vertices' = {}
  /\ UNCHANGED <<config, iterations, i>>

bdz_new == Called \/ bdz_mapping \/ bdz_remove_edge \/ QueueEnds \/ assigning \/ ranking

---------------------------------------------------------------------------
Vertex(gs, hs) == hs[((gs[hs[1]] + gs[hs[2]] + gs[hs[3]]) % 3) + 1]

\* Mutant: the vertex itself is counted.
rank_inclusive(bb, table, gs, vertex) ==
  table[vertex \div 2 ^ bb] + Assigned(gs, (vertex \div 2 ^ bb) * 2 ^ bb, vertex + 1)

rank(bb, table, gs, vertex) ==
  table[vertex \div 2 ^ bb] + Assigned(gs, (vertex \div 2 ^ bb) * 2 ^ bb, vertex)

bdz_search(f, key) ==
  rank(f.data.b, f.data.ranktable, f.data.g, Vertex(f.data.g, HashVector(f.data.hl, key, f.data.r)))

sizeg(nn) == (nn + 3) \div 4

bdz_dump(f) ==
  __cmph_dump(f) \o hash_state_dump(f.data.hl)
    \o <<Word(f.data.n), Word(f.data.m), Word(f.data.r), Table(1, sizeg(f.data.n), f.data.g),
         Word(f.data.k), Byte(f.data.b), Word(f.data.ranktablesize),
         Table(4, f.data.ranktablesize, f.data.ranktable)>>

bdz_load(f) ==
  [hl |-> hash_state_load(f[2].value), n |-> f[3].value, m |-> f[4].value, r |-> f[5].value,
   g |-> f[6].value, k |-> f[7].value, b |-> f[8].value, ranktablesize |-> f[9].value,
   ranktable |-> f[10].value]

bdz_pack(f) ==
  PackedHash(f.data.hl)
    \o <<Word(f.data.r), Word(f.data.ranktablesize),
         Table(4, f.data.ranktablesize, f.data.ranktable), Byte(f.data.b),
         Table(1, sizeg(f.data.n), f.data.g)>>

bdz_packed_size(f) ==
  4 + hash_state_packed_size(hash_get_type(f.data.hl)) + 3 * 4 + 4 * f.data.ranktablesize
    + 1 + sizeg(f.data.n)

bdz_search_packed(p, key) ==
  LET hl_ptr == 4
      head == hl_ptr + hash_state_packed_size(At(p, 0))
      g_ptr == head + 8 + 4 * At(p, head + 4)
      gs == At(p, g_ptr + 1)
  IN  rank(At(p, g_ptr), At(p, head + 8), gs,
           Vertex(gs, HashVector([seed |-> At(p, hl_ptr)], key, At(p, head))))

---------------------------------------------------------------------------
(* Properties. *)

\* So many edges meet at a vertex that its byte may wrap round to one.
Overfull(gr) == \E v \in Vertices : Cardinality(EdgesAt(gr, v, {})) > ByteLimit

\* The edges that were dealt with point at vertices of their own, which are
\* marked and count for the rank, whatever the later ones are given, unless
\* the degree of a vertex has wrapped to one.
OwnVertices ==
  pc = "assigning" /\ ~Overfull(graph) =>
    LET dealt == {queue[x] : x \in i + 1 .. Len(queue)}
    IN  /\ \A e \in dealt : /\ Vertex(g, graph[e + 1]) \in marked_vertices
                            /\ g[Vertex(g, graph[e + 1])] # UNASSIGNED
        /\ \A d, e \in dealt :
             Vertex(g, graph[d + 1]) = Vertex(g, graph[e + 1]) => d = e

\* The queue holds an edge once and takes every edge unless some that are
\* left have no vertex that only one of them has; a degree that wraps hides
\* none of those.
TakesWhatIsPeeled ==
  pc = "queueing" /\ queue_tail = Len(queue) =>
    /\ IsInjective(queue)
    /\ LET left == 0 .. m - 1 \ ToSet(queue)
       IN  \A e \in left : \A v \in ToSet(graph[e + 1]) :
             \E d \in left \ {e} : v \in ToSet(graph[d + 1])
=============================================================================
