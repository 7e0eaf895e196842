------------------------------- MODULE MCChd -------------------------------
(* Chd on one to four keys, and on three of which two are equal, in as few *)
(* bins as may be and in the number Johnny leaves it at, with one key to a *)
(* bin and with two.  Two and three keys get few probes; four keys are     *)
(* hashed to the lines that keep a bucket of two from its bins for a whole *)
(* round of probe0.                                                        *)
EXTENDS ChdConstruction

MCKeySources == {<<"a">>, <<"a", "b">>, <<"a", "b", "a">>, <<"a", "b", "c">>,
                 <<"a", "b", "c", "d">>}
MCPrimes == {3, 5, 7, 11}
MCMaxProbes(k) == CASE k = 1 -> 0 [] k < 4 -> 3 [] OTHER -> 8

Conf(a, load, most) == [algo |-> a, c |-> load, b |-> 2, keys_per_bin |-> most]
MCConfigurations ==
  {Conf("chd", 0, 1), Conf("chd", 99, 1), Conf("chd", 50, 2), Conf("chd_ph", 99, 2)}

MCSeeds(ks) ==
  [ToSet(ks) ->
     CASE Len(ks) < 3 -> {0, 1} \X (0 .. 2) \X {0, 1}
       [] Len(ks) = 3 -> {0, 1} \X {0, 1} \X {0, 1}
       [] OTHER -> ({0} \X {0, 1, 4} \X {0}) \cup ({1} \X {0} \X {0, 1})]
=============================================================================
