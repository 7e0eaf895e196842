----------------------------- MODULE HashGraph -----------------------------
(***************************************************************************)
(* The graphs of CHM and BMZ (cmph/src/graph.c): a vertex for each hash    *)
(* value, an edge for each key.  A graph is the sequence of its edges, as  *)
(* graph_add_edge took them; edge e, from 0, is element e + 1, a pair of   *)
(* vertices.  The list of a vertex holds its edges from the newest to the  *)
(* oldest, as each edge is put before the first.                           *)
(***************************************************************************)
EXTENDS Integers, Sequences, SequencesExt, FiniteSets

graph_clear_edges == <<>>
graph_add_edge(gr, v1, v2) == Append(gr, <<v1, v2>>)

EdgesOf(gr) == 0 .. Len(gr) - 1
graph_vertex_id(gr, e, id) == gr[e + 1][id + 1]
Joins(gr, e, v1, v2) == gr[e + 1] \in {<<v1, v2>>, <<v2, v1>>}

\* The edge list of a vertex: first[v], and next[e] from there.
EdgeList(gr, v) ==
  SelectSeq([x \in 1 .. Len(gr) |-> Len(gr) - x], LAMBDA e : v \in ToSet(gr[e + 1]))

OtherEnd(gr, e, v) ==
  IF graph_vertex_id(gr, e, 0) = v THEN graph_vertex_id(gr, e, 1) ELSE graph_vertex_id(gr, e, 0)

\* The neighbours of v in the order of graph_next_neighbor.
graph_neighbors(gr, v) ==
  [x \in 1 .. Len(EdgeList(gr, v)) |-> OtherEnd(gr, EdgeList(gr, v)[x], v)]

graph_contains_edge(gr, v1, v2) == \E e \in EdgesOf(gr) : Joins(gr, e, v1, v2)

\* The newest of the edges between two neighbours.
graph_edge_id(gr, v1, v2) ==
  SelectSeq(EdgeList(gr, v1), LAMBDA e : Joins(gr, e, v1, v2))[1]

\* The edges of v that are left; it has degree one when there is one of them.
find_degree1_edge(gr, v, deleted) ==
  SelectSeq(EdgeList(gr, v), LAMBDA e : e \notin deleted)

\* Mutant: the other end of a deleted edge is not inspected.
cyclic_del_edge_only(gr, v, deleted) ==
  IF Len(find_degree1_edge(gr, v, deleted)) = 1
    THEN deleted \cup {find_degree1_edge(gr, v, deleted)[1]} ELSE deleted

\* Deletes the edge of a vertex of degree one, then that of its other end if
\* this has degree one now, and so on along the path.
cyclic_del_edge(gr, v, deleted) ==
  LET del[v1 \in (UNION {ToSet(e) : e \in ToSet(gr)}) \cup {v}, d \in SUBSET EdgesOf(gr)] ==
        LET left == find_degree1_edge(gr, v1, d)
        IN  IF Len(left) # 1 THEN d
            ELSE del[OtherEnd(gr, left[1], v1), d \cup {left[1]}]
  IN  del[v, deleted]

\* What is deleted when every vertex has been the start of a path once.
Deleted(gr, nnodes) ==
  FoldLeft(LAMBDA d, v : cyclic_del_edge(gr, v, d), {}, [x \in 1 .. nnodes |-> x - 1])

graph_is_cyclic(gr, nnodes) == Deleted(gr, nnodes) # EdgesOf(gr)

\* The ends of the edges that cannot be deleted: the 2-core.
graph_obtain_critical_nodes(gr, nnodes) ==
  UNION {ToSet(gr[e + 1]) : e \in EdgesOf(gr) \ Deleted(gr, nnodes)}

---------------------------------------------------------------------------
\* Sets of edges every vertex of which has two of them at least.
Degree(gr, es, v) == Cardinality({e \in es : v \in ToSet(gr[e + 1])})
Cycles(gr) ==
  {es \in SUBSET EdgesOf(gr) :
     \A e \in es : \A v \in ToSet(gr[e + 1]) : Degree(gr, es, v) >= 2}

\* The vertices of the edges that are on a cycle or between cycles.
CoreVertices(gr) == UNION {ToSet(gr[e + 1]) : e \in UNION Cycles(gr)}
=============================================================================
