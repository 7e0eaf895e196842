------------------------------- MODULE MCCmph -------------------------------
(* Cmph on one to ten keys from every kind of source.  Few keys are hashed *)
(* in every way to few vertices; for more there are graphs with nested and *)
(* with separate cycles, with trees and with edges that are no key's own.  *)
EXTENDS Cmph

Names == <<<<"a">>, <<"b">>, <<"c">>, <<"d">>, <<"e">>, <<"f">>, <<"g">>, <<"h">>, <<"i">>,
           <<"j">>>>
OnDisk == <<<<"a">>, <<"b", "b", "b", "b", "b">>, <<"c">>, <<"d">>>>
Repeated == [x \in 1 .. 9 |-> <<"a">>]   \* once more than a byte of the instance counts
Vector(ks) == [kind |-> "vector", data |-> ks, nkeys |-> Len(ks), keys |-> ks]
File(text) == [kind |-> "nlfile", data |-> text]

\* Lines longer than the buffer, as long as a chunk, and ended by the file.
MCSources ==
  {Vector(SubSeq(Names, 1, x)) : x \in {2, 7, 8, 9, 10}}
  \cup {Vector(<<<<"a">>, <<"b">>, <<"a">>>>), Vector(Repeated),
        Vector(OnDisk), File(<<"a", "/", "b", "b">>),
        File(<<"a", "a", "a", "/", "b", "b", "/", "c", "/", "d">>),
        [kind |-> "byte_vector", nkeys |-> 1, keys |-> <<<<"a", "a">>>>,
         data |-> <<[keylen |-> 2, bytes |-> <<"a", "a", "x">>]>>],
        [kind |-> "struct_vector", nkeys |-> 4, keys |-> SubSeq(Names, 1, 4),
         layout |-> [struct_size |-> 3, key_offset |-> 1, key_len |-> 1],
         data |-> <<"x", "a", "x", "x", "b", "x", "x", "c", "x", "x", "d", "x">>]}

MCGraphSizes(ks, a) ==
  CASE a \in {"chd", "chd_ph"} -> {99}
    [] a = "brz" -> IF ks = OnDisk THEN {250, 300} ELSE {150, 300}
    [] Len(ks) > 4 /\ a \in {"bmz", "bmz8"} -> {114}
    [] Len(ks) = 3 /\ a = "chm" -> {134}
    [] Len(ks) = 3 /\ a = "bmz" -> {100}
    [] Len(ks) = 2 /\ a = "fch" -> {250}
    [] OTHER -> {}

\* The position of a key, and the functions that make of the keys what is
\* listed.
Place(ks, ky) == CHOOSE x \in DOMAIN ks : ks[x] = ky
SeedsOf(ks, lists) == {[ky \in ToSet(ks) |-> l[Place(ks, ky)]] : l \in lists}

K4 == <<<<0, 1>>, <<0, 2>>, <<0, 3>>, <<1, 2>>, <<1, 3>>, <<2, 3>>>>
TwoTriangles == <<<<0, 1>>, <<1, 2>>, <<2, 0>>, <<3, 4>>, <<4, 5>>, <<5, 3>>, <<5, 6>>>>
Reusing == <<<<1, 3>>, <<1, 6>>, <<1, 0>>, <<3, 4>>, <<4, 0>>, <<4, 5>>, <<5, 0>>, <<2, 6>>,
             <<6, 7>>>>
BetweenTwo == [x \in 1 .. 10 |-> IF x <= 5 THEN <<0, x + 1>> ELSE <<1, x - 4>>]
Path(k) == [x \in 1 .. k |-> <<x - 1, x>>]

Pairs(k) == (0 .. k - 1) \X (0 .. k - 1)
FewPairs(ks, third, fourth) ==
  SeedsOf(ks, {<<<<0, 1>>, p2, p3, p4>> : p2 \in {<<1, 2>>, <<0, 2>>}, p3 \in third, p4 \in fourth})

MCChmSeeds(ks, k) ==
  CASE Len(ks) = 1 -> [ToSet(ks) -> Pairs(k)]
    [] Len(ks) \in {2, 3} -> [ToSet(ks) -> {p \in Pairs(k) : p[1] \in {1, k - 1} /\ p[2] <= 2}]
    [] Len(ks) = 4 -> FewPairs(ks, {<<2, 0>>, <<0, 3>>}, {<<3, 4>>, <<8, 8>>})
    [] OTHER -> SeedsOf(ks, {Path(Len(ks))})

MCBmzSeeds(ks, k) ==
  CASE Len(ks) = 1 -> [ToSet(ks) -> Pairs(k)]
    [] Len(ks) \in {2, 3} -> [ToSet(ks) -> {p \in Pairs(k) : p[1] \in {0, k - 1}}]
    [] Len(ks) = 4 -> FewPairs(ks, {<<2, 0>>, <<0, 3>>}, {<<3, 4>>, <<2, 4>>, <<0, 1>>, <<4, 4>>})
    [] Len(ks) = 7 -> SeedsOf(ks, {K4 \o <<<<3, 4>>>>, TwoTriangles})
    [] Len(ks) = 8 -> SeedsOf(ks, {K4 \o <<<<3, 4>>, <<4, 5>>>>, TwoTriangles \o <<<<6, 4>>>>,
                                   TwoTriangles \o <<<<6, 7>>>>})
    [] Len(ks) = 9 -> SeedsOf(ks, {Reusing, Path(9)})
    [] OTHER -> SeedsOf(ks, {BetweenTwo, K4 \o <<<<3, 4>>, <<4, 5>>, <<3, 5>>, <<5, 6>>>>,
                             K4 \o <<<<4, 5>>, <<5, 6>>, <<6, 7>>, <<7, 8>>>>})

MCFchSeeds(ks, k) ==
  IF Len(ks) <= 3 THEN [ToSet(ks) -> 0 .. k - 1]
  ELSE SeedsOf(ks, {<<v1, v2, v3, v4>> :
                      v1 \in {0, 2}, v2 \in {0, 1}, v3 \in {1, 3}, v4 \in {1, 2}})

Triples(k) == (0 .. k - 1) \X (0 .. k - 1) \X (0 .. k - 1)
MCBdzSeeds(ks, k) ==
  CASE Len(ks) = 1 -> [ToSet(ks) -> Triples(k)]
    [] Len(ks) = 9 -> SeedsOf(ks, {[x \in 1 .. 9 |-> <<0, 1, 2>>],
                                   [x \in 1 .. 9 |-> <<0, x % k, x \div k>>],
                                   [x \in 1 .. 9 |-> <<x \div 2, x % 2, x % k>>]})
    [] Len(ks) = 2 -> [ToSet(ks) -> {t \in Triples(k) : t[1] = 0}]
    [] Len(ks) = 3 -> [ToSet(ks) -> {<<0, 0, 0>>, <<0, 1, 0>>, <<0, 1, 2>>, <<1, 1, 2>>, <<2, 0, 1>>}]
    [] OTHER -> [ToSet(ks) -> {<<0, 0, 0>>, <<0, 1, 0>>, <<1, 1, 2>>, <<2, 0, 2>>}]

\* The identity, and a rotation of the reverse.
MCPermuted(k) == {[x \in 0 .. k - 1 |-> x], [x \in 0 .. k - 1 |-> (k + 1 - x) % k]}
MCfch_calc_b(cc, k) ==
  CASE cc = 200 -> <<2, 2, 3, 3, 4, 4, 4, 4>>[k] [] cc = 250 -> <<3, 3, 3, 4, 4, 5, 5, 5>>[k]
    [] cc = 260 -> <<3, 3, 4, 4, 4, 5, 5, 6>>[k] [] cc = 300 -> <<3, 3, 4, 4, 5, 6, 6, 6>>[k]

\* Four keys or eight in two or three buckets, or all in one.
MCBrzSeeds(ks, k) ==
  SeedsOf(ks, IF Len(ks) = 4 THEN {<<0, 0, 1, 1>>, <<1, 0, 0, 1>>, <<0, 1, 0, 0>>, <<1, 1, 1, 1>>}
              ELSE {[x \in DOMAIN ks |-> 0], [x \in DOMAIN ks |-> x % k]})
MCBucketSeeds(ks) ==
  LET From(first) == [ky \in ToSet(ks) |-> Place(ks, ky) - first]
      zero == [ky \in ToSet(ks) |-> 0]
  IN  {<<From(1), From(0)>>}
        \cup (IF Len(ks) > 2 THEN {} ELSE {From(0), From(1), zero} \X {From(0), From(1), zero})
MCTables(k) == {[x \in 0 .. k - 1 |-> 0], [x \in 0 .. k - 1 |-> x \div 2]}
MCKeysPerBucket == [least |-> 3, most |-> 4, usual |-> 4]

MCAlgorithms(ks) ==
  CASE ks = OnDisk -> {"brz"}
    [] Len(ks) = 8 -> {"bmz", "bmz8", "brz"}
    [] ks = Repeated -> {"bdz", "bdz_ph"}
    [] Len(ks) = 9 -> {"bmz", "bmz8", "bdz", "bdz_ph"}
    [] Len(ks) > 4 -> {"bmz", "bmz8"}
    [] ToSet(ks) = {<<"a">>, <<"b">>} \/ Len(ks) = 1
         -> {"chm", "bmz", "bmz8", "fch", "bdz", "bdz_ph", "chd", "chd_ph"}
    [] OTHER -> {"chm", "bmz", "bmz8", "fch", "bdz", "bdz_ph"}

\* Two keys in one bucket or in two, in the same bin or not.
MCChdSeeds(ks) ==
  SeedsOf(ks, {<<<<0, line, 0>>, <<bucket, 0, 0>>>> : line \in 0 .. 1, bucket \in 0 .. 1})
MCMaxProbes(k) == IF k = 1 THEN 0 ELSE 4

MCIterations == [a \in ToSet(cmph_names) |-> 2]
=============================================================================
