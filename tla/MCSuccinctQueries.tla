------------------------- MODULE MCSuccinctQueries -------------------------
(* SuccinctQueries on words of six bits, bytes of three and a step of two  *)
(* ones: up to four numbers of every length below a word, the least and    *)
(* the greatest of each, and all the sets of bins below ten.               *)
EXTENDS SuccinctQueries

MCNumbers == BoundedSeq({0, 1, 2, 3, 6, 7, 14, 15, 30, 31, 62}, 4) \ {<<>>}
MCAscents ==
  {SelectSeq([x \in 1 .. 10 |-> x - 1], LAMBDA x : x \in s) : s \in SUBSET (0 .. 9) \ {{}}}
=============================================================================
