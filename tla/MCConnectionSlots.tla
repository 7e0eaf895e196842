-------------------------- MODULE MCConnectionSlots --------------------------
(* ConnectionSlots for TLC: descriptors are interchangeable. *)
EXTENDS ConnectionSlots, TLC

Symmetry == Permutations(Conns)

=============================================================================
