----------------------------- MODULE SetsInOrder -----------------------------
(***************************************************************************)
(* What a loop over increasing numbers meets: the buckets, the keys, the   *)
(* edges and the ends of lines that cmph looks for are found in order.     *)
(***************************************************************************)
EXTENDS Integers, FiniteSets

\* The numbers of a set, the least first.
Ascending(S) ==
  [x \in 1 .. Cardinality(S) |-> CHOOSE k \in S : Cardinality({l \in S : l < k}) = x - 1]
=============================================================================
