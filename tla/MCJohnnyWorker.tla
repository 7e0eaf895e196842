--------------------------- MODULE MCJohnnyWorker ---------------------------
(* JohnnyWorker for TLC: connections are interchangeable. *)
EXTENDS JohnnyWorker, TLC

Symmetry == Permutations(Conns)

=============================================================================
