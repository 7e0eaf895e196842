-------------------------------- MODULE Bmz8 --------------------------------
(***************************************************************************)
(* BMZ8 of cmph (cmph/src/bmz8.c): the code of BMZ over again, with bytes  *)
(* for its numbers and for the table g.  It refuses 256 keys and more; the *)
(* number of vertices is cut to a byte all the same.                       *)
(***************************************************************************)
EXTENDS HashGraph, StoredFunction, FiniteSetsExt

CONSTANTS
  Seeds(_, _), Iterations, MapIterations,   \* as for Bmz
  ByteLimit                                 \* 256 in the code

VARIABLES
  keys, algo, c, pc, iterations, iterations_map, restart_mapping, hashes, graph, critical_nodes, g,
  visited, used_edges, biggest_g_value, biggest_edge_value, q, unused_g_values, i,
  unused_edge_index, stack, mphf

\* The queue of either search has room for the critical vertices.
vqueue_capacity(heuristic, ncritical) == ncritical

Bytes == INSTANCE Bmz WITH W <- ByteLimit

work == <<iterations, iterations_map, restart_mapping, hashes, graph, critical_nodes, g,
          visited, used_edges, biggest_g_value, biggest_edge_value, q, unused_g_values, i,
          unused_edge_index, stack>>

TooMany ==
  /\ pc = "new" /\ Len(keys) >= ByteLimit
  /\ pc' = "failed" /\ mphf' = <<"NULL">> /\ UNCHANGED <<keys, algo, c, work>>

\* The number of vertices has wrapped to 0, and a hash is divided by it.
DividesByZero ==
  /\ pc = "mapping" /\ Bytes!n = 0 /\ keys # <<>>
  /\ pc' = "aborted" /\ UNCHANGED <<keys, algo, c, work, mphf>>

bmz8_gen_edges == Bytes!Mapping \/ DividesByZero
bmz8_traverse_critical_nodes == Bytes!StartsComponent \/ Bytes!Label \/ Bytes!Dequeue
bmz8_restart == Bytes!EndOfCritical \/ Bytes!RestartMapping
bmz8_traverse == Bytes!bmz_traverse
bmz8_traverse_non_critical_nodes == Bytes!ScanEdge \/ Bytes!ScanVertex \/ bmz8_traverse

Called == Len(keys) < ByteLimit /\ Bytes!Called

bmz8_new ==
  TooMany \/ Called \/ bmz8_gen_edges \/ bmz8_traverse_critical_nodes \/ bmz8_restart
    \/ bmz8_traverse_non_critical_nodes \/ Bytes!Finish

---------------------------------------------------------------------------
\* The search wraps one vertex too late here too.
bmz8_search(f, key) ==
  Bytes!Value(f.data.g, Bytes!SearchEnds(hash(f.data.hashes[1], key),
                                         hash(f.data.hashes[2], key), f.data.n))

bmz8_dump(f) ==
  __cmph_dump(f) \o <<Byte(2)>>
    \o hash_state_dump(f.data.hashes[1]) \o hash_state_dump(f.data.hashes[2])
    \o <<Byte(f.data.n), Byte(f.data.m), Table(1, f.data.n, f.data.g)>>

bmz8_load(f) ==
  [hashes |-> <<hash_state_load(f[3].value), hash_state_load(f[5].value)>>,
   n |-> f[6].value, m |-> f[7].value, g |-> f[8].value]

bmz8_pack(f) ==
  PackedHash(f.data.hashes[1]) \o PackedHash(f.data.hashes[2])
    \o <<Byte(f.data.n), Table(1, f.data.n, f.data.g)>>

bmz8_packed_size(f) ==
  4 + hash_state_packed_size(hash_get_type(f.data.hashes[1]))
    + hash_state_packed_size(hash_get_type(f.data.hashes[2])) + 2 * 4 + 1 + f.data.n

bmz8_search_packed(p, key) ==
  LET h1_ptr == 4
      h2_ptr == h1_ptr + hash_state_packed_size(At(p, 0)) + 4
      g_ptr == h2_ptr + hash_state_packed_size(At(p, h2_ptr - 4))
  IN  Bytes!Value(At(p, g_ptr + 1),
        Bytes!SearchEnds(hash_packed(At(p, h1_ptr), key), hash_packed(At(p, h2_ptr), key),
                         At(p, g_ptr)))
=============================================================================
