------------------------------- MODULE BdzPh -------------------------------
(***************************************************************************)
(* BDZ_PH of cmph (cmph/src/bdz_ph.c).  The graph, its queue and the       *)
(* order of the assignments are those of BDZ, written over again.  The     *)
(* vertices are not ranked: a key is numbered by its vertex, below n, so   *)
(* that the function is perfect but not minimal, and a vertex that is not  *)
(* given may have the value 0.  Five values are stored in a byte, as the   *)
(* digits of a number to the base 3.                                       *)
(***************************************************************************)
EXTENDS Integers, Sequences, SequencesExt, FiniteSets, FiniteSetsExt, StoredFunction

CONSTANTS
  Seeds(_, _),   \* as for Bdz
  Iterations,    \* 100 in the code
  ByteLimit      \* 2^8, as for Bdz

VARIABLES
  keys, algo, c, b, pc, iterations, hl, graph, queue, queue_tail, i, marked_vertices, g, mphf

Graph3 == INSTANCE Bdz

n == Graph3!n
Vertices == 0 .. n - 1

Called == Graph3!Called
bdz_ph_mapping == Graph3!bdz_mapping
bdz_ph_remove_edge == Graph3!bdz_remove_edge

\* Five values in a byte.
sizeg(nn) == (nn + 4) \div 5
pow3_table == <<1, 3, 9, 27, 81>>

\* The digit of a vertex in its byte.
lookup_table(byte, v) == (byte \div 3 ^ (v % 5)) % 3

bdz_ph_optimization(gs) ==
  [idx \in 0 .. sizeg(n) - 1 |->
     MapThenSumSet(LAMBDA v : gs[v] * pow3_table[(v % 5) + 1],
                   {v \in Vertices : v \div 5 = idx}) % 256]

QueueEnds ==
  /\ pc = "queueing" /\ queue_tail = Len(queue)
  /\ IF Graph3!Emptied
       THEN /\ pc' = "assigning" /\ i' = Len(queue) /\ marked_vertices' = {}
            /\ g' = [v \in Vertices |-> 0]
            /\ UNCHANGED <<iterations, hl, graph, queue, queue_tail, mphf>>
       ELSE /\ iterations' = iterations - 1 /\ hl' = <<>>
            /\ graph' = <<>> /\ queue' = <<>> /\ queue_tail' = 0
            /\ IF iterations = 1 THEN pc' = "failed" /\ mphf' = <<"NULL">>
                                 ELSE pc' = "mapping" /\ UNCHANGED mphf
            /\ UNCHANGED <<i, marked_vertices, g>>
  /\ UNCHANGED <<keys, algo, c, b>>

\* A value of two bits is written by setting bits of the zeros there.
SETVALUE0(old, value) ==
  2 * (IF old \div 2 = 1 THEN 1 ELSE value \div 2) + (IF old % 2 = 1 THEN 1 ELSE value % 2)

assigning ==
  /\ pc = "assigning" /\ i > 0 /\ i' = i - 1
  /\ LET e == queue[i]
     IN  /\ g' = [g EXCEPT ![graph[e + 1][Graph3!Chosen(e)]] = SETVALUE0(@, Graph3!Pointer(e))]
         /\ marked_vertices' = marked_vertices \cup Graph3!Marks(e)
  /\ UNCHANGED <<keys, algo, c, b, pc, iterations, hl, graph, queue, queue_tail, mphf>>

Finish ==
  /\ pc = "assigning" /\ i = 0 /\ pc' = "done"
  /\ mphf' = [algo |-> algo, size |-> n,
              data |-> [g |-> bdz_ph_optimization(g), hl |-> hl, n |-> n,
                        m |-> Len(keys), r |-> Graph3!r]]
  /\ hl' = <<>> /\ g' = <<>> /\ graph' = <<>> /\ queue' = <<>> /\ queue_tail' = 0
  /\ marked_vertices' = {}
  /\ UNCHANGED <<keys, algo, c, b, iterations, i>>

bdz_ph_new == Called \/ bdz_ph_mapping \/ bdz_ph_remove_edge \/ QueueEnds \/ assigning \/ Finish

---------------------------------------------------------------------------
Vertex(gs, hs) ==
  hs[(FoldLeft(LAMBDA sum, v : sum + lookup_table(gs[v \div 5], v), 0, hs) % 3) + 1]

bdz_ph_search(f, key) == Vertex(f.data.g, Graph3!HashVector(f.data.hl, key, f.data.r))

bdz_ph_dump(f) ==
  __cmph_dump(f) \o hash_state_dump(f.data.hl)
    \o <<Word(f.data.n), Word(f.data.m), Word(f.data.r), Table(1, sizeg(f.data.n), f.data.g)>>

bdz_ph_load(f) ==
  [hl |-> hash_state_load(f[2].value), n |-> f[3].value, m |-> f[4].value, r |-> f[5].value,
   g |-> f[6].value]

bdz_ph_pack(f) ==
  PackedHash(f.data.hl) \o <<Word(f.data.r), Table(1, sizeg(f.data.n), f.data.g)>>

bdz_ph_packed_size(f) ==
  4 + hash_state_packed_size(hash_get_type(f.data.hl)) + 2 * 4 + sizeg(f.data.n)

bdz_ph_search_packed(p, key) ==
  LET hl_ptr == 4
      ptr == hl_ptr + hash_state_packed_size(At(p, 0))
  IN  Vertex(At(p, ptr + 4), Graph3!HashVector([seed |-> At(p, hl_ptr)], key, At(p, ptr)))
=============================================================================
