------------------------- MODULE JohnnySetupProofs -------------------------
(***************************************************************************)
(* Theorems about JohnnySetup for every set of names and however often the *)
(* tree changes: what was read is served, a tree that nobody changes is    *)
(* served whole and nothing else is, and what it takes to go wrong.        *)
(*                                                                         *)
(* The files move to their hash indices one after the other: no move       *)
(* overwrites another because a function from a set of keys onto as many   *)
(* indices as there are files is one-to-one on the files too, whether or   *)
(* not the keys were counted.  That the files of a whole tree have keys of *)
(* their own is url_encode's doing, which is shown to be one-to-one.       *)
(***************************************************************************)
EXTENDS JohnnySetup, InductionLemmas, FiniteSetTheorems

Readable == Names \ Unreadable
Indices == 0 .. count - 1

\* The names of what is in the tree, and what a number of files is.
Counts == tree \subseteq Names /\ count \in Nat

\* The array has the size that was counted, and holds what could be opened.
Collected ==
  pc \in {"slurp", "hash", "reorder"} => files \in [Indices -> Readable \cup {Unset}]

\* No element is unset once the names are collected.
Filled == pc \in {"hash", "reorder"} => files \in [Indices -> Readable]

\* The files before move_from are at their hash indices.
Moved ==
  (pc = "reorder" /\ hash # NullHash) =>
    /\ hash \in Bijections
    /\ move_from \in 0 .. count
    /\ reordered \in [Indices -> Readable \cup {Unset}]
    /\ \A i \in 0 .. move_from - 1 : reordered[hash[Key(files[i])]] = files[i]

\* All are.
InPlace ==
  pc = "serve" =>
    /\ files \in [Indices -> Readable]
    /\ \A i \in Indices : hash[Key(files[i])] = i

IInv == Counts /\ Collected /\ Filled /\ Moved /\ InPlace

---------------------------------------------------------------------------
(* The hash function on the files. *)

HashIndex == [i \in Indices |-> hash[Key(files[i])]]

LEMMA HashIndexIsOneToOne ==
  ASSUME count \in Nat, files \in [Indices -> Readable], hash \in Bijections
  PROVE  /\ \A i \in Indices : HashIndex[i] \in Indices
         /\ \A i, k \in Indices : HashIndex[i] = HashIndex[k] => i = k
         /\ \A i \in Indices : \E k \in Indices : HashIndex[k] = i
<1>1. \A i \in Indices : Key(files[i]) \in Keys
  BY DEF Keys
<1>2. \A i \in Indices : hash[Key(files[i])] \in Indices
  BY <1>1 DEF Bijections
<1>3. \A i \in Indices : \E k \in Indices : hash[Key(files[k])] = i
  <2> SUFFICES ASSUME NEW i \in Indices PROVE \E k \in Indices : hash[Key(files[k])] = i
    OBVIOUS
  <2>1. PICK key \in Keys : hash[key] = i
    BY DEF Bijections
  <2>2. PICK k \in Indices : key = Key(files[k])
    BY <2>1 DEF Keys
  <2> QED BY <2>1, <2>2
<1>4. HashIndex \in Surjection(Indices, Indices)
  BY <1>2, <1>3 DEF HashIndex, Surjection
<1>5. IsFiniteSet(Indices)
  BY FS_Interval DEF Indices
<1>6. HashIndex \in Injection(Indices, Indices)
  BY <1>4, <1>5, FS_Surjection
<1> QED BY <1>2, <1>3, <1>6 DEF HashIndex, Injection, IsInjective

---------------------------------------------------------------------------
(* The invariant is inductive. *)

LEMMA IInvInit == Init => IInv
BY DEF Init, IInv, Counts, Collected, Filled, Moved, InPlace

LEMMA IInvCount == IInv /\ (count_files \/ counted) => IInv'
<1> SUFFICES ASSUME IInv, count_files \/ counted PROVE IInv'
  OBVIOUS
<1> USE DEF IInv, Counts, Collected, Filled, Moved, InPlace
<1>1. CASE count_files
  BY <1>1 DEF count_files
<1>2. CASE counted
  <2>1. Counts'
    BY <1>2 DEF counted
  <2>2. Collected'
    BY <1>2 DEF counted, Array, Indices
  <2> QED BY <1>2, <2>1, <2>2 DEF counted
<1> QED BY <1>1, <1>2

LEMMA IInvSlurp == IInv /\ (johnny_slurps_files \/ johnny_slurps_file \/ slurped) => IInv'
<1> SUFFICES ASSUME IInv, johnny_slurps_files \/ johnny_slurps_file \/ slurped PROVE IInv'
  OBVIOUS
<1> USE DEF IInv, Counts, Collected, Filled, Moved, InPlace
<1>1. CASE johnny_slurps_files
  BY <1>1 DEF johnny_slurps_files, Indices, built
<1>2. CASE johnny_slurps_file
  <2>1. slurp(reading) => reading \in Readable
    BY DEF slurp, Readable
  <2>2. Collected'
    BY <1>2, <2>1 DEF johnny_slurps_file, Indices
  <2> QED BY <1>2, <2>2 DEF johnny_slurps_file
<1>3. CASE slurped
  <2>1. DOMAIN files = Indices
    BY <1>3 DEF slurped
  <2>2. pc' = "hash" => files \in [Indices -> Readable]
    BY <1>3, <2>1 DEF slurped
  <2> QED BY <1>3, <2>2 DEF slurped, walk, Indices
<1> QED BY <1>1, <1>2, <1>3

LEMMA IInvHash == IInv /\ cmph_new => IInv'
<1> SUFFICES ASSUME IInv, cmph_new PROVE IInv'
  OBVIOUS
<1> USE DEF IInv, Counts, Collected, Filled, Moved, InPlace
<1>1. UNCHANGED <<tree, count, files>> /\ pc = "hash" /\ pc' = "reorder"
  BY DEF cmph_new, walk
<1>2. Moved'
  <2>1. hash' # NullHash => hash' \in Bijections
    BY DEF cmph_new
  <2>2. Bijections' = Bijections
    BY <1>1 DEF Bijections, Keys
  <2>3. reordered' \in [Indices -> Readable \cup {Unset}]
    BY DEF cmph_new, Array, Indices
  <2>4. move_from' = 0
    BY DEF cmph_new
  <2> QED BY <1>1, <2>1, <2>2, <2>3, <2>4 DEF Indices
<1> QED BY <1>1, <1>2 DEF Indices

LEMMA IInvReorder == IInv /\ reorder_johnny_files => IInv'
<1> SUFFICES ASSUME IInv, reorder_johnny_files PROVE IInv'
  OBVIOUS
<1> USE DEF IInv, Counts, Collected, Filled, Moved, InPlace
<1>1. pc = "reorder" /\ count' = count /\ hash' = hash /\ tree' = tree
  BY DEF reorder_johnny_files
<1>2. CASE hash = NullHash
  BY <1>1, <1>2 DEF reorder_johnny_files
<1>3. CASE hash # NullHash /\ move_from < count
  <2>1. UNCHANGED <<pc, files>> /\ move_from' = move_from + 1
    BY <1>3 DEF reorder_johnny_files
  <2>2. move_from \in Indices
    BY <1>1, <1>3 DEF Indices
  <2>3. reordered' = [reordered EXCEPT ![HashIndex[move_from]] = files[move_from]]
    BY <1>3, <2>2 DEF reorder_johnny_files, HashIndex
  <2>4. reordered' \in [Indices -> Readable \cup {Unset}]
    BY <1>1, <1>3, <2>2, <2>3
  <2>5. ASSUME NEW i \in 0 .. move_from PROVE reordered'[HashIndex[i]] = files[i]
    <3>1. i \in Indices /\ HashIndex[i] \in Indices
      BY <1>1, <1>3, <2>2, HashIndexIsOneToOne DEF Indices
    <3>2. CASE i = move_from
      BY <1>1, <1>3, <2>3, <3>1, <3>2
    <3>3. CASE i # move_from
      <4>1. HashIndex[i] # HashIndex[move_from]
        BY <1>1, <1>3, <2>2, <3>1, <3>3, HashIndexIsOneToOne
      <4>2. i \in 0 .. move_from - 1
        BY <1>1, <1>3, <3>3
      <4>3. reordered[HashIndex[i]] = files[i]
        BY <1>1, <1>3, <3>1, <4>2 DEF HashIndex
      <4> QED BY <1>1, <1>3, <2>3, <3>1, <4>1, <4>3
    <3> QED BY <3>2, <3>3
  <2>6. \A i \in 0 .. move_from' - 1 : i \in Indices /\ reordered'[hash[Key(files[i])]] = files[i]
    <3>1. 0 .. move_from' - 1 = 0 .. move_from /\ 0 .. move_from \subseteq Indices
      BY <1>1, <1>3, <2>1 DEF Indices
    <3>2. \A i \in Indices : HashIndex[i] = hash[Key(files[i])]
      BY DEF HashIndex
    <3> QED BY <2>5, <3>1, <3>2
  <2>7. Bijections' = Bijections
    BY <2>1 DEF Bijections, Keys
  <2> QED BY <1>1, <1>3, <2>1, <2>4, <2>6, <2>7 DEF Indices
<1>4. CASE hash # NullHash /\ ~(move_from < count)
  <2>1. files' = reordered /\ pc' = "serve"
    BY <1>4 DEF reorder_johnny_files
  <2>2. move_from = count
    BY <1>1, <1>4
  <2>3. ASSUME NEW i \in Indices PROVE reordered[i] \in Readable /\ hash[Key(reordered[i])] = i
    <3>1. PICK k \in Indices : HashIndex[k] = i
      BY <1>1, <1>4, HashIndexIsOneToOne
    <3>2. hash[Key(files[k])] = i /\ reordered[i] = files[k]
      BY <1>1, <1>4, <2>2, <3>1 DEF HashIndex, Indices
    <3> QED BY <1>1, <3>2
  <2>4. files' \in [Indices -> Readable]
    BY <1>1, <1>4, <2>1, <2>3
  <2> QED BY <1>1, <2>1, <2>3, <2>4 DEF Indices
<1> QED BY <1>2, <1>3, <1>4

\* The other processes touch the tree only, and a lookup nothing.
LEMMA IInvOthers ==
  ASSUME IInv, NEW name \in Names,
         johnny_looks_up(Key(name)) \/ Create(name) \/ Delete(name)
  PROVE  IInv'
<1> USE DEF IInv, Counts, Collected, Filled, Moved, InPlace
<1>1. CASE johnny_looks_up(Key(name))
  BY <1>1 DEF johnny_looks_up, walk, built, Indices
<1>2. CASE Create(name) \/ Delete(name)
  <2>1. tree' \subseteq Names
    BY <1>2 DEF Create, Delete
  <2>2. UNCHANGED <<pc, count, files>> /\ pc \in {"count", "slurp"}
    BY <1>2 DEF Create, Delete, Changes, Starting
  <2> QED BY <2>1, <2>2 DEF Indices
<1> QED BY <1>1, <1>2

LEMMA IInvNext == IInv /\ [Next]_vars => IInv'
<1> SUFFICES ASSUME IInv, [Next]_vars PROVE IInv'
  OBVIOUS
<1>1. CASE johnny_setup_files
  BY <1>1, IInvCount, IInvSlurp, IInvHash, IInvReorder DEF johnny_setup_files
<1>2. CASE \E name \in Names : johnny_looks_up(Key(name)) \/ Create(name) \/ Delete(name)
  BY <1>2, IInvOthers
<1>3. CASE UNCHANGED vars
  BY <1>3 DEF vars, walk, built, IInv, Counts, Collected, Filled, Moved, InPlace, Indices, Bijections, Keys
<1> QED BY <1>1, <1>2, <1>3 DEF Next

---------------------------------------------------------------------------

LEMMA IInvServes == IInv => ServesWhatWasRead
<1> SUFFICES ASSUME IInv, pc = "serve"
             PROVE  /\ Cardinality({files[i] : i \in DOMAIN files}) = count
                    /\ \A i \in DOMAIN files : files[i] \in Readable /\ hash[Key(files[i])] = i
  BY DEF ServesWhatWasRead, Readable
<1>1. files \in [Indices -> Readable] /\ \A i \in Indices : hash[Key(files[i])] = i
  BY DEF IInv, InPlace
<1>2. count \in Nat
  BY DEF IInv, Counts
<1>3. files \in Bijection(Indices, {files[i] : i \in Indices})
  BY <1>1 DEF Bijection, Injection, Surjection, IsInjective
<1>4. IsFiniteSet(Indices) /\ Cardinality(Indices) = count
  BY <1>2, FS_Interval DEF Indices
<1>5. Cardinality({files[i] : i \in Indices}) = count
  BY <1>3, <1>4, FS_Bijection DEF ExistsBijection
<1> QED BY <1>1, <1>5

(***************************************************************************)
(* However the tree changes while the server starts: once it serves, every *)
(* element of JOHNNY_FILES holds a file of its own that could be read, at  *)
(* the index at which the lookup of its name finds it.                     *)
(***************************************************************************)
THEOREM WhatWasReadIsServed == Spec => []ServesWhatWasRead
BY IInvInit, IInvNext, IInvServes, PTL DEF Spec

---------------------------------------------------------------------------
(* The types. *)

\* The phases of the set-up: what each finds of the walk and of the function.
Phases ==
  /\ pc \in {"count", "failed"} => file_counter = 0 /\ reading = Unset
  /\ pc = "count" => count + Cardinality(todo) <= Cardinality(Names) + changes
  /\ pc = "slurp" => file_counter <= count
  /\ pc \in {"count", "slurp", "hash"} => hash = NullHash /\ DOMAIN reordered = {}
  /\ pc = "reorder" => DOMAIN reordered = DOMAIN files

Types == TypeOK /\ Phases

LEMMA NamesAreFinite ==
  /\ IsFiniteSet(Names) /\ Cardinality(Names) \in Nat
  /\ \A T \in SUBSET Names : /\ IsFiniteSet(T) /\ Cardinality(T) \in Nat
                             /\ Cardinality(T) <= Cardinality(Names)
BY SetupAssumption, FS_Subset, FS_CardinalityType

LEMMA OneLess ==
  ASSUME NEW T, T \subseteq Names, NEW name \in T
  PROVE  Cardinality(T \ {name}) = Cardinality(T) - 1
<1>1. IsFiniteSet(T)
  BY NamesAreFinite
<1> QED BY <1>1, FS_RemoveElement

LEMMA OneMoreAtMost ==
  ASSUME NEW T, T \subseteq Names, NEW name \in Names
  PROVE  Cardinality(T \cup {name}) <= Cardinality(T) + 1
<1>1. IsFiniteSet(T) /\ Cardinality(T) \in Nat
  BY NamesAreFinite
<1>2. Cardinality(T \cup {name}) = IF name \in T THEN Cardinality(T) ELSE Cardinality(T) + 1
  BY <1>1, FS_AddElement, Zenon
<1> QED BY <1>1, <1>2

LEMMA UnsetIsNoName == Unset \notin Names /\ NotFound # Unset
BY SetupAssumption DEF Unset, NotFound

LEMMA TypesInit == Init => Types
<1> SUFFICES ASSUME Init PROVE Types
  OBVIOUS
<1>1. tree \subseteq Names /\ todo = tree /\ MaxChanges \in Nat
  BY SetupAssumption DEF Init
<1>2. Cardinality(todo) <= Cardinality(Names) /\ Cardinality(todo) \in Nat /\ Cardinality(Names) \in Nat
  BY <1>1, NamesAreFinite
<1>3. Phases
  BY <1>2 DEF Init, Phases, Array
<1>4. files \in [0 .. 0 - 1 -> Names \cup {Unset}] /\ reordered \in [DOMAIN reordered -> Names \cup {Unset}]
      /\ DOMAIN reordered = {}
  BY DEF Init, Array
<1>5. TypeOK
  <2>1. /\ tree \in SUBSET Names /\ todo \in SUBSET Names /\ changes \in 0 .. MaxChanges
        /\ pc = "count" /\ count \in 0 .. Cardinality(Names) + MaxChanges
        /\ file_counter \in 0 .. count + 1 /\ move_from \in 0 .. count
    BY <1>1, <1>2 DEF Init
  <2>2. files \in [0 .. (IF pc \in {"count", "failed"} THEN 0 ELSE count) - 1 -> Names \cup {Unset}]
    BY <1>4, <2>1
  <2>3. /\ hash = NullHash /\ gave_up \in BOOLEAN /\ reading = Unset /\ asked = Unset
        /\ answer = Unset
    BY DEF Init
  <2> QED BY <1>4, <2>1, <2>2, <2>3 DEF TypeOK
<1> QED BY <1>3, <1>5 DEF Types

LEMMA TypesCount == Types /\ (count_files \/ counted) => Types'
<1> SUFFICES ASSUME Types, count_files \/ counted PROVE Types'
  OBVIOUS
<1>1. /\ pc = "count" /\ count \in Nat /\ changes \in 0 .. MaxChanges /\ MaxChanges \in Nat
      /\ Cardinality(Names) \in Nat /\ tree \subseteq Names /\ todo \subseteq Names
      /\ Cardinality(todo) \in Nat
      /\ count + Cardinality(todo) <= Cardinality(Names) + changes
      /\ UNCHANGED <<tree, changes, reading, file_counter, built, asked, answer>>
  BY NamesAreFinite, SetupAssumption DEF Types, TypeOK, Phases, count_files, counted
<1>2. CASE count_files
  <2>1. PICK name \in todo : todo' = todo \ {name} /\ count' \in {count, count + 1}
    BY <1>2 DEF count_files
  <2>2. Cardinality(todo') = Cardinality(todo) - 1
    BY <1>1, <2>1, OneLess
  <2>3. /\ count' \in Nat /\ count' + Cardinality(todo') <= Cardinality(Names) + changes
        /\ Cardinality(todo') \in Nat /\ count' \in 0 .. Cardinality(Names) + MaxChanges
    <3>1. todo' \subseteq Names
      BY <1>1, <2>1
    <3>2. Cardinality(todo') \in Nat
      BY <3>1, NamesAreFinite
    <3> QED BY <1>1, <2>1, <2>2, <3>2
  <2>4. UNCHANGED <<pc, files>>
    BY <1>2 DEF count_files
  <2>5. Phases'
    BY <1>1, <2>3, <2>4 DEF Types, Phases, built
  <2>6. TypeOK'
    BY <1>1, <2>1, <2>3, <2>4 DEF Types, Phases, TypeOK, built, Bijections, Keys
  <2> QED BY <2>5, <2>6 DEF Types
<1>3. CASE counted
  <2>1. /\ count' = count /\ hash = NullHash /\ DOMAIN reordered = {} /\ file_counter = 0
        /\ reading = Unset
    BY <1>1, <1>3 DEF counted, Types, Phases
  <2>2. CASE count = 0
    BY <1>1, <1>3, <2>1, <2>2 DEF counted, Types, Phases, TypeOK, built
  <2>3. CASE count # 0
    <3>1. pc' = "slurp" /\ todo' = tree /\ files' = Array(count)
      BY <1>3, <2>3 DEF counted
    <3>2. files' \in [0 .. count - 1 -> Names \cup {Unset}]
      BY <3>1 DEF Array
    <3> QED BY <1>1, <2>1, <3>1, <3>2 DEF Types, Phases, TypeOK, built
  <2> QED BY <2>2, <2>3
<1> QED BY <1>2, <1>3

LEMMA TypesSlurp == Types /\ (johnny_slurps_files \/ johnny_slurps_file \/ slurped) => Types'
<1> SUFFICES ASSUME Types, johnny_slurps_files \/ johnny_slurps_file \/ slurped PROVE Types'
  OBVIOUS
<1>1. /\ pc = "slurp" /\ count \in Nat /\ file_counter \in 0 .. count
      /\ hash = NullHash /\ DOMAIN reordered = {} /\ TypeOK
      /\ files \in [0 .. count - 1 -> Names \cup {Unset}]
      /\ UNCHANGED <<tree, changes, built, asked, answer>>
  <2>1. pc = "slurp" /\ UNCHANGED <<tree, changes, built, asked, answer>>
    BY DEF johnny_slurps_files, johnny_slurps_file, slurped
  <2>2. hash = NullHash /\ DOMAIN reordered = {} /\ TypeOK
    BY <2>1 DEF Types, Phases
  <2>3. count \in Nat /\ files \in [0 .. count - 1 -> Names \cup {Unset}]
    BY <2>1, <2>2, NamesAreFinite, SetupAssumption DEF TypeOK
  <2>4. file_counter \in 0 .. count + 1 /\ file_counter <= count
    BY <2>1, <2>2 DEF Types, TypeOK, Phases
  <2>5. file_counter \in 0 .. count
    BY <2>3, <2>4
  <2> QED BY <2>1, <2>2, <2>3, <2>5
<1>2. CASE johnny_slurps_files
  BY <1>1, <1>2 DEF johnny_slurps_files, Types, TypeOK, Phases, built
<1>3. CASE johnny_slurps_file
  <2>1. /\ files' \in [0 .. count - 1 -> Names \cup {Unset}] /\ pc' \in {"slurp", "undefined"}
        /\ count' = count /\ todo' = todo /\ reading' = Unset
        /\ file_counter' = file_counter + 1 /\ (pc' = "slurp" => file_counter < count)
    BY <1>1, <1>3 DEF johnny_slurps_file, TypeOK
  <2> QED BY <1>1, <2>1 DEF Types, TypeOK, Phases, built
<1>4. CASE slurped
  BY <1>1, <1>4 DEF slurped, Types, TypeOK, Phases, built, walk
<1> QED BY <1>2, <1>3, <1>4

LEMMA TypesHash == Types /\ cmph_new => Types'
<1> SUFFICES ASSUME Types, cmph_new PROVE Types'
  OBVIOUS
<1>1. pc = "hash" /\ pc' = "reorder" /\ UNCHANGED <<tree, changes, walk, asked, answer>>
      /\ move_from' = 0 /\ count \in Nat
      /\ files \in [0 .. count - 1 -> Names \cup {Unset}]
  BY NamesAreFinite, SetupAssumption DEF cmph_new, Types, TypeOK
<1>2. (hash' = NullHash \/ hash' \in Bijections') /\ gave_up' \in BOOLEAN
  <2>1. Bijections' = Bijections
    BY <1>1 DEF Bijections, Keys, walk
  <2> QED BY <2>1 DEF cmph_new, Hashable, Types, TypeOK
<1>3. reordered' \in [0 .. count - 1 -> Names \cup {Unset}]
  BY DEF cmph_new, Array
<1> QED BY <1>1, <1>2, <1>3 DEF Types, TypeOK, Phases, walk
\* When none is left to move, every file is at its index and every index is one of a file.
LEMMA AllMoved ==
  ASSUME IInv, pc = "reorder", hash # NullHash, ~(move_from < count)
  PROVE  /\ \A i \in Indices : HashIndex[i] \in Indices /\ reordered[HashIndex[i]] = files[i]
         /\ \A i \in Indices : \E k \in Indices : HashIndex[k] = i
<1>1. count \in Nat /\ files \in [Indices -> Readable] /\ hash \in Bijections
  BY DEF IInv, Counts, Filled, Moved
<1>2. move_from = count /\ \A i \in 0 .. move_from - 1 : reordered[hash[Key(files[i])]] = files[i]
  BY <1>1 DEF IInv, Moved
<1>3. \A i \in Indices : reordered[HashIndex[i]] = files[i]
  BY <1>2 DEF Indices, HashIndex
<1> QED BY <1>1, <1>3, HashIndexIsOneToOne

\* Reordered, the files are the same, and so are their keys.
LEMMA TypesReorder == IInv /\ Types /\ reorder_johnny_files => Types'
<1> SUFFICES ASSUME IInv, Types, reorder_johnny_files PROVE Types'
  OBVIOUS
<1>1. /\ pc = "reorder" /\ count \in Nat /\ DOMAIN reordered = Indices
      /\ files \in [Indices -> Readable] /\ TypeOK
      /\ UNCHANGED <<tree, changes, count, todo, reading, file_counter, hash, gave_up, asked, answer>>
  BY DEF reorder_johnny_files, IInv, Counts, Filled, Types, Phases, TypeOK, Indices
<1>2. CASE hash = NullHash
  BY <1>1, <1>2 DEF reorder_johnny_files, Types, TypeOK, Phases
<1>3. CASE hash # NullHash /\ move_from < count
  <2>1. UNCHANGED <<pc, files>> /\ move_from' = move_from + 1 /\ move_from \in Indices
    BY <1>1, <1>3 DEF reorder_johnny_files, TypeOK, Indices
  <2>2. files[move_from] \in Names
    BY <1>1, <2>1 DEF Readable
  <2>3. reordered' \in [Indices -> Names \cup {Unset}]
    BY <1>1, <1>3, <2>2 DEF reorder_johnny_files, TypeOK
  <2>4. Bijections' = Bijections
    BY <2>1 DEF Bijections, Keys
  <2>5. move_from' \in 0 .. count
    BY <1>1, <2>1 DEF Indices
  <2> QED BY <1>1, <2>1, <2>3, <2>4, <2>5 DEF Types, TypeOK, Phases
<1>4. CASE hash # NullHash /\ ~(move_from < count)
  <2>1. files' = reordered /\ pc' = "serve" /\ UNCHANGED <<reordered, move_from>>
    BY <1>4 DEF reorder_johnny_files
  <2>2. hash \in Bijections /\ reordered \in [Indices -> Names \cup {Unset}]
    BY <1>1, <1>4 DEF IInv, Moved, Readable
  <2>3. /\ \A i \in Indices : HashIndex[i] \in Indices /\ reordered[HashIndex[i]] = files[i]
        /\ \A i \in Indices : \E k \in Indices : HashIndex[k] = i
    BY <1>1, <1>4, AllMoved
  <2>5. Keys' = Keys
    <3>1. DOMAIN files = Indices /\ DOMAIN files' = Indices
      BY <1>1, <2>1, <2>2
    <3>2. Keys = {Key(files[i]) : i \in Indices} /\ Keys' = {Key(reordered[i]) : i \in Indices}
      BY <2>1, <3>1 DEF Keys
    <3> QED BY <2>3, <3>2
  <2>6. hash' \in Bijections'
    <3>1. DOMAIN files' = DOMAIN files
      BY <1>1, <2>1, <2>2
    <3>2. Bijections' = Bijections
      BY <2>5, <3>1 DEF Bijections
    <3> QED BY <1>1, <2>2, <3>2
  <2> QED BY <1>1, <2>1, <2>2, <2>6 DEF Types, TypeOK, Phases, Indices
<1> QED BY <1>1, <1>2, <1>3, <1>4

LEMMA TypesOthers ==
  ASSUME Types, NEW name \in Names,
         johnny_looks_up(Key(name)) \/ Create(name) \/ Delete(name)
  PROVE  Types'
<1>1. CASE johnny_looks_up(Key(name))
  <2>1. pc = "serve" /\ pc' \in {"serve", "undefined"} /\ asked' = Key(name)
        /\ UNCHANGED <<tree, changes, walk, built>>
    BY <1>1 DEF johnny_looks_up
  <2>2. IsKey(asked')
    BY <2>1 DEF IsKey
  <2>3. answer' \in Names \cup {Unset, NotFound}
    BY <1>1, <2>1 DEF johnny_looks_up, Types, TypeOK
  <2>4. Bijections' = Bijections
    BY <2>1 DEF Bijections, Keys, walk
  <2> QED BY <2>1, <2>2, <2>3, <2>4 DEF Types, TypeOK, Phases, walk, built
<1>2. CASE Create(name) \/ Delete(name)
  <2>1. /\ pc \in {"count", "slurp"} /\ changes' = changes + 1 /\ changes < MaxChanges
        /\ UNCHANGED <<pc, count, reading, files, file_counter, built, asked, answer>>
    BY <1>2 DEF Create, Delete, Changes, Starting
  <2>2. changes \in Nat /\ MaxChanges \in Nat /\ changes' \in 0 .. MaxChanges
    BY <2>1, SetupAssumption DEF Types, TypeOK
  <2>3. tree' \subseteq Names /\ todo' \subseteq Names /\ todo \subseteq Names
    BY <1>2 DEF Create, Delete, Types, TypeOK
  <2>4. /\ Cardinality(todo) \in Nat /\ Cardinality(todo') \in Nat
        /\ Cardinality(Names) \in Nat
    BY <2>3, NamesAreFinite
  <2>5. Cardinality(todo') <= Cardinality(todo) + 1
    <3>1. todo' \in {todo, todo \cup {name}, todo \ {name}}
      BY <1>2 DEF Create, Delete
    <3>2. CASE todo' = todo \cup {name}
      BY <2>3, <3>2, OneMoreAtMost
    <3>3. CASE todo' = todo \ {name} /\ name \in todo
      <4>1. Cardinality(todo') = Cardinality(todo) - 1
        BY <2>3, <3>3, OneLess
      <4> QED BY <2>4, <4>1
    <3>4. CASE todo' = todo \/ (name \notin todo /\ todo' = todo \ {name})
      <4>1. todo' = todo
        BY <3>4
      <4> QED BY <2>4, <4>1
    <3> QED BY <3>1, <3>2, <3>3, <3>4
  <2>6. pc = "count" => count' + Cardinality(todo') <= Cardinality(Names) + changes'
    <3>1. count \in Nat /\ (pc = "count" => count + Cardinality(todo) <= Cardinality(Names) + changes)
      BY NamesAreFinite, SetupAssumption DEF Types, TypeOK, Phases
    <3> QED BY <2>1, <2>2, <2>4, <2>5, <3>1
  <2>7. Bijections' = Bijections
    BY <2>1 DEF Bijections, Keys
  <2>8. TypeOK'
    BY <2>1, <2>2, <2>3, <2>7 DEF Types, TypeOK, built
  <2>9. Phases'
    BY <2>1, <2>6 DEF Types, Phases, built
  <2> QED BY <2>8, <2>9 DEF Types
<1> QED BY <1>1, <1>2

LEMMA TypesNext == IInv /\ Types /\ [Next]_vars => Types'
<1> SUFFICES ASSUME IInv, Types, [Next]_vars PROVE Types'
  OBVIOUS
<1>1. CASE johnny_setup_files
  BY <1>1, TypesCount, TypesSlurp, TypesHash, TypesReorder DEF johnny_setup_files
<1>2. CASE \E name \in Names : johnny_looks_up(Key(name)) \/ Create(name) \/ Delete(name)
  BY <1>2, TypesOthers
<1>3. CASE UNCHANGED vars
  <2>1. Bijections' = Bijections
    BY <1>3 DEF vars, walk, Bijections, Keys
  <2> QED BY <1>3, <2>1 DEF vars, walk, built, Types, TypeOK, Phases
<1> QED BY <1>1, <1>2, <1>3 DEF Next

(***************************************************************************)
(* The two walks count and read at most what there is and what comes: the  *)
(* counter of files never passes the number counted by more than the one   *)
(* write that is out of bounds, JOHNNY_FILES keeps the size it was given   *)
(* and the hash function maps the keys onto its indices, before and after  *)
(* the files are moved.                                                    *)
(***************************************************************************)
THEOREM TypeCorrect == Spec => []TypeOK
<1>1. Types => TypeOK
  BY DEF Types
<1> QED BY <1>1, IInvInit, IInvNext, TypesInit, TypesNext, PTL DEF Spec

---------------------------------------------------------------------------
(* A tree nobody changes. *)

\* The entries the first walk has returned are counted if they are files.
Counted == pc = "count" => todo \subseteq tree /\ count = Cardinality(Served \ todo)

\* Those the second has returned are in the array, but the one about to be read.
Read ==
  pc = "slurp" =>
    /\ todo \subseteq tree /\ reading \in (Served \ todo) \cup {Unset}
    /\ {files[i] : i \in 0 .. file_counter - 1} = Served \ (todo \cup {reading})
    /\ file_counter = Cardinality(Served \ (todo \cup {reading}))
    /\ \A i \in Indices : i >= file_counter => files[i] = Unset
    /\ count = Cardinality(Served)

\* The files of the tree are those of the array, wherever they have moved to.
Complete ==
  pc \in {"hash", "reorder", "serve"} =>
    {files[i] : i \in Indices} = Served /\ count = Cardinality(Served)

\* No hash function means two files of one key, a single file, or that none
\* was found.
NoHash ==
  /\ pc \in {"slurp", "hash", "reorder"} => count # 0
  /\ (pc = "reorder" /\ hash = NullHash) => count = 1 \/ Cardinality(Keys) # count \/ gave_up
  /\ pc = "serve" => hash # NullHash

Whole == (changes = 0 => Counted /\ Read /\ Complete) /\ NoHash

LEMMA ServedIsFinite ==
  ASSUME Types
  PROVE  /\ Served \subseteq Names /\ Unset \notin Served
         /\ \A T : IsFiniteSet(Served \ T) /\ Cardinality(Served \ T) \in Nat
<1>1. Served \subseteq Names
  BY DEF Served, Types, TypeOK
<1>2. \A T : Served \ T \subseteq Names
  BY <1>1
<1> QED BY <1>1, <1>2, NamesAreFinite, UnsetIsNoName

\* One more file is counted, or read.
LEMMA OneMoreOut ==
  ASSUME Types, NEW T, NEW name \in Served, name \in T
  PROVE  Cardinality(Served \ (T \ {name})) = Cardinality(Served \ T) + 1
<1>1. Served \ (T \ {name}) = (Served \ T) \cup {name} /\ name \notin Served \ T
  OBVIOUS
<1>2. IsFiniteSet(Served \ T)
  BY ServedIsFinite
<1> QED BY <1>1, <1>2, FS_AddElement, Zenon

LEMMA WholeInit == Init => Whole
<1> SUFFICES ASSUME Init PROVE Whole
  OBVIOUS
<1>1. Served \ todo = {}
  BY DEF Init, Served
<1>2. pc = "count" /\ todo = tree /\ count = 0
  BY DEF Init
<1> QED BY <1>1, <1>2, FS_EmptySet DEF Whole, Counted, Read, Complete, NoHash

LEMMA WholeCount == Types /\ Whole /\ (count_files \/ counted) => Whole'
<1> SUFFICES ASSUME Types, Whole, count_files \/ counted PROVE Whole'
  OBVIOUS
<1>1. pc = "count" /\ changes' = changes /\ tree' = tree /\ Served' = Served /\ count \in Nat
  BY NamesAreFinite, SetupAssumption DEF count_files, counted, Served, Types, TypeOK
<1>2. CASE count_files
  <2>1. PICK name \in todo : /\ todo' = todo \ {name}
                             /\ \/ SeemsRegular(name) /\ count' = count + 1
                                \/ SeemsOther(name) /\ count' = count
    BY <1>2 DEF count_files
  <2>2. pc' = "count"
    BY <1>1, <1>2 DEF count_files
  <2>3. ASSUME changes = 0 PROVE todo' \subseteq tree /\ count' = Cardinality(Served \ todo')
    <3>1. todo \subseteq tree /\ count = Cardinality(Served \ todo)
      BY <1>1, <2>3 DEF Whole, Counted
    <3>2. CASE SeemsRegular(name) /\ count' = count + 1
      <4>1. name \in Served
        BY <2>1, <3>1, <3>2 DEF SeemsRegular, Served
      <4> QED BY <2>1, <3>1, <3>2, <4>1, OneMoreOut
    <3>3. CASE SeemsOther(name) /\ count' = count
      <4>1. name \notin Served
        BY <2>1, <3>1, <3>3 DEF SeemsOther, Served, Regular
      <4>2. Served \ todo' = Served \ todo
        BY <2>1, <4>1
      <4> QED BY <2>1, <3>1, <3>3, <4>2
    <3> QED BY <2>1, <3>2, <3>3
  <2> QED BY <1>1, <2>2, <2>3 DEF Whole, Counted, Read, Complete, NoHash
<1>3. CASE counted
  <2>1. todo = {} /\ count' = count /\ (pc' = "slurp" => count # 0 /\ todo' = tree /\ files' = Array(count))
        /\ pc' \in {"slurp", "failed"} /\ reading' = reading /\ file_counter' = file_counter
    BY <1>3 DEF counted
  <2>2. ASSUME changes = 0, pc' = "slurp" PROVE Read'
    <3>1. count = Cardinality(Served)
      <4>1. Served \ todo = Served
        BY <2>1
      <4> QED BY <1>1, <2>2, <4>1 DEF Whole, Counted
    <3>2. file_counter' = 0
      BY <1>1, <2>1 DEF Types, Phases
    <3>3. reading' \in (Served' \ todo') \cup {Unset}
      BY <1>1, <2>1 DEF Types, Phases
    <3>4. Served' \ (todo' \cup {reading'}) = {}
      BY <1>1, <2>1, <2>2 DEF Served
    <3>5. {files'[i] : i \in 0 .. file_counter' - 1} = {}
      BY <3>2
    <3>6. Cardinality(Served' \ (todo' \cup {reading'})) = 0
      BY <3>4, FS_EmptySet
    <3>7. \A i \in Indices' : files'[i] = Unset
      BY <2>1, <2>2 DEF Indices, Array
    <3> QED BY <1>1, <2>1, <2>2, <3>1, <3>2, <3>3, <3>4, <3>5, <3>6, <3>7 DEF Read
  <2> QED BY <1>1, <2>1, <2>2 DEF Whole, Counted, Read, Complete, NoHash
<1> QED BY <1>2, <1>3
LEMMA WholeSlurps == Types /\ Whole /\ johnny_slurps_files => Whole'
<1> SUFFICES ASSUME Types, Whole, johnny_slurps_files PROVE Whole'
  OBVIOUS
<1>1. /\ pc = "slurp" /\ reading = Unset /\ Served' = Served
      /\ UNCHANGED <<tree, changes, pc, count, files, file_counter>>
  BY DEF johnny_slurps_files, Served
<1>2. PICK name \in todo : /\ todo' = todo \ {name}
                           /\ \/ SeemsRegular(name) /\ reading' = name
                              \/ SeemsOther(name) /\ reading' = Unset
  BY DEF johnny_slurps_files
<1>3. ASSUME changes = 0 PROVE Read'
  <2>1. Read
    BY <1>1, <1>3 DEF Whole
  <2>2. /\ Served \ (todo' \cup {reading'}) = Served \ (todo \cup {reading})
        /\ reading' \in (Served \ todo') \cup {Unset}
    <3>1. name \in tree /\ Unset \notin Served
      BY <1>1, <1>2, <2>1, ServedIsFinite DEF Read
    <3>2. CASE SeemsRegular(name) /\ reading' = name
      <4>1. name \in Served
        BY <3>1, <3>2 DEF SeemsRegular, Served
      <4> QED BY <1>1, <1>2, <3>1, <3>2, <4>1
    <3>3. CASE SeemsOther(name) /\ reading' = Unset
      <4>1. name \notin Served
        BY <3>1, <3>3 DEF SeemsOther, Served, Regular
      <4> QED BY <1>1, <1>2, <3>1, <3>3, <4>1
    <3> QED BY <1>2, <3>2, <3>3
  <2>3. todo' \subseteq tree
    BY <1>1, <1>2, <2>1 DEF Read
  <2> QED BY <1>1, <2>1, <2>2, <2>3 DEF Read, Indices
<1> QED BY <1>1, <1>3 DEF Whole, Counted, Complete, NoHash

LEMMA WholeSlurpsFile == Types /\ Whole /\ johnny_slurps_file => Whole'
<1> SUFFICES ASSUME Types, Whole, johnny_slurps_file PROVE Whole'
  OBVIOUS
<1>1. /\ pc = "slurp" /\ reading # Unset /\ Served' = Served /\ pc' \in {"slurp", "undefined"}
      /\ UNCHANGED <<tree, changes, count, todo>>
      /\ reading' = Unset /\ file_counter' = file_counter + 1
  BY DEF johnny_slurps_file, Served
<1>2. ASSUME changes = 0, pc' = "slurp" PROVE Read'
  <2>1. Read
    BY <1>1, <1>2 DEF Whole
  <2>2. /\ count \in Nat /\ file_counter \in 0 .. count - 1
        /\ files \in [Indices -> Names \cup {Unset}]
        /\ files' = [files EXCEPT ![file_counter] = reading]
    BY <1>1, <1>2, NamesAreFinite, SetupAssumption DEF johnny_slurps_file, Types, TypeOK, Indices
  <2>3. reading \in Served \ todo /\ Unset \notin Served
    BY <1>1, <2>1, ServedIsFinite DEF Read
  <2>4. Served \ (todo' \cup {reading'}) = (Served \ (todo \cup {reading})) \cup {reading}
    BY <1>1, <2>3
  <2>5. {files'[i] : i \in 0 .. file_counter' - 1} = {files[i] : i \in 0 .. file_counter - 1} \cup {reading}
    <3>1. 0 .. file_counter' - 1 = (0 .. file_counter - 1) \cup {file_counter}
      BY <1>1, <2>2
    <3>2. 0 .. file_counter' - 1 \subseteq Indices /\ file_counter \notin 0 .. file_counter - 1
      BY <1>1, <2>2 DEF Indices
    <3>3. files'[file_counter] = reading /\ \A i \in 0 .. file_counter - 1 : files'[i] = files[i]
      BY <2>2, <3>1, <3>2
    <3> QED BY <3>1, <3>3
  <2>6. Cardinality(Served \ (todo' \cup {reading'})) = file_counter + 1
    <3>1. IsFiniteSet(Served \ (todo \cup {reading})) /\ reading \notin Served \ (todo \cup {reading})
      BY ServedIsFinite
    <3>2. Cardinality((Served \ (todo \cup {reading})) \cup {reading}) = Cardinality(Served \ (todo \cup {reading})) + 1
      BY <3>1, FS_AddElement, Zenon
    <3> QED BY <1>1, <2>1, <2>4, <3>2 DEF Read
  <2>7. \A i \in Indices' : i >= file_counter' => files'[i] = Unset
    <3> SUFFICES ASSUME NEW i \in 0 .. count - 1, i >= file_counter + 1 PROVE files'[i] = Unset
      BY <1>1 DEF Indices
    <3>1. i \in Indices /\ i # file_counter /\ i >= file_counter
      BY <2>2 DEF Indices
    <3>2. files[i] = Unset
      BY <1>1, <2>1, <3>1 DEF Read
    <3> QED BY <2>2, <3>1, <3>2
  <2>8. {files'[i] : i \in 0 .. file_counter' - 1} = Served' \ (todo' \cup {reading'})
    BY <1>1, <2>1, <2>4, <2>5 DEF Read
  <2>9. todo' \subseteq tree' /\ count' = Cardinality(Served')
    BY <1>1, <2>1 DEF Read
  <2> QED BY <1>1, <2>6, <2>7, <2>8, <2>9 DEF Read
<1>3. pc' = "undefined" => Read'
  BY DEF Read
<1> QED BY <1>1, <1>2, <1>3 DEF Whole, Counted, Complete, NoHash

LEMMA WholeSlurped == Types /\ Whole /\ slurped => Whole'
<1> SUFFICES ASSUME Types, Whole, slurped PROVE Whole'
  OBVIOUS
<1>1. /\ pc = "slurp" /\ reading = Unset /\ todo = {} /\ Served' = Served /\ pc' \in {"hash", "undefined"}
      /\ UNCHANGED <<tree, changes, count, files>> /\ Indices' = Indices
      /\ count \in Nat /\ file_counter \in 0 .. count /\ DOMAIN files = Indices
  BY NamesAreFinite, SetupAssumption DEF slurped, walk, Served, Types, TypeOK, Phases, Indices
<1>2. ASSUME changes = 0, pc' = "hash" PROVE {files[i] : i \in Indices} = Served /\ count = Cardinality(Served)
  <2>1. Read /\ \A i \in Indices : files[i] # Unset
    BY <1>1, <1>2 DEF Whole, slurped
  <2>2. file_counter = count
    <3> SUFFICES ASSUME file_counter < count PROVE FALSE
      BY <1>1
    <3>1. file_counter \in Indices /\ file_counter >= file_counter
      BY <1>1 DEF Indices
    <3> QED BY <1>1, <2>1, <3>1 DEF Read
  <2>3. Served \ (todo \cup {reading}) = Served
    BY <1>1, ServedIsFinite
  <2> QED BY <2>1, <2>2, <2>3, <1>1 DEF Read, Indices
<1> QED BY <1>1, <1>2 DEF Whole, Counted, Read, Complete, NoHash

LEMMA WholeHash == Types /\ Whole /\ cmph_new => Whole'
<1> SUFFICES ASSUME Types, Whole, cmph_new PROVE Whole'
  OBVIOUS
<1>1. /\ pc = "hash" /\ pc' = "reorder" /\ UNCHANGED <<tree, changes, walk>> /\ count \in Nat /\ count # 0
      /\ hash' = NullHash => count = 1 \/ Cardinality(Keys) # count \/ gave_up'
  <2>1. pc = "hash" /\ pc' = "reorder" /\ UNCHANGED <<tree, changes, walk>> /\ count \in Nat /\ count # 0
    BY NamesAreFinite, SetupAssumption DEF cmph_new, Types, TypeOK, Whole, NoHash
  <2>2. count > 1 /\ Cardinality(Keys) = count => hash' \in Bijections \/ gave_up'
    BY DEF cmph_new, Hashable
  <2>3. ASSUME count > 1, NullHash \in Bijections PROVE FALSE
    <3>1. 0 \in DOMAIN files
      BY <2>1, <2>3 DEF Types, TypeOK
    <3>2. PICK k \in Keys : TRUE
      BY <3>1 DEF Keys
    <3>3. Keys = DOMAIN NullHash
      BY <2>3 DEF Bijections
    <3> QED BY <3>2, <3>3 DEF NullHash
  <2> QED BY <2>1, <2>2, <2>3
<1>2. Keys' = Keys /\ Served' = Served /\ Indices' = Indices
  BY <1>1 DEF Keys, Served, Indices, walk
<1> QED BY <1>1, <1>2 DEF Whole, Counted, Read, Complete, NoHash, walk

LEMMA WholeReorder == IInv /\ Types /\ Whole /\ reorder_johnny_files => Whole'
<1> SUFFICES ASSUME IInv, Types, Whole, reorder_johnny_files PROVE Whole'
  OBVIOUS
<1>1. /\ pc = "reorder" /\ UNCHANGED <<tree, changes, count, todo, reading, file_counter, hash, gave_up>>
      /\ Served' = Served /\ Indices' = Indices /\ pc' \in {"reorder", "crashed", "serve"}
  BY DEF reorder_johnny_files, Served, Indices
<1>2. CASE hash = NullHash \/ move_from < count
  <2>1. files' = files /\ pc' \in {"reorder", "crashed"}
    BY <1>1, <1>2 DEF reorder_johnny_files
  <2>2. Keys' = Keys
    BY <2>1 DEF Keys
  <2> QED BY <1>1, <2>1, <2>2 DEF Whole, Counted, Read, Complete, NoHash
<1>3. CASE hash # NullHash /\ ~(move_from < count)
  <2>1. files' = reordered /\ pc' = "serve"
    BY <1>3 DEF reorder_johnny_files
  <2>2. {reordered[i] : i \in Indices} = {files[i] : i \in Indices}
    BY <1>1, <1>3, AllMoved
  <2> QED BY <1>1, <1>3, <2>1, <2>2 DEF Whole, Counted, Read, Complete, NoHash
<1> QED BY <1>2, <1>3

LEMMA WholeOthers ==
  ASSUME Types, Whole, NEW name \in Names,
         johnny_looks_up(Key(name)) \/ Create(name) \/ Delete(name)
  PROVE  Whole'
<1>1. CASE johnny_looks_up(Key(name))
  <2>1. /\ pc = "serve" /\ pc' \in {"serve", "undefined"} /\ UNCHANGED <<tree, changes, walk, built>>
        /\ Served' = Served /\ Indices' = Indices
    BY <1>1 DEF johnny_looks_up, Served, Indices, walk
  <2> QED BY <2>1 DEF Whole, Counted, Read, Complete, NoHash, walk, built
<1>2. CASE Create(name) \/ Delete(name)
  <2>1. changes' = changes + 1 /\ changes \in Nat /\ pc \in {"count", "slurp"} /\ UNCHANGED <<pc, count>>
    BY <1>2, SetupAssumption DEF Create, Delete, Changes, Starting, Types, TypeOK
  <2>2. changes' # 0
    BY <2>1
  <2> QED BY <2>1, <2>2 DEF Whole, NoHash
<1> QED BY <1>1, <1>2

LEMMA WholeNext == IInv /\ Types /\ Whole /\ [Next]_vars => Whole'
<1> SUFFICES ASSUME IInv, Types, Whole, [Next]_vars PROVE Whole'
  OBVIOUS
<1>1. CASE johnny_setup_files
  BY <1>1, WholeCount, WholeSlurps, WholeSlurpsFile, WholeSlurped, WholeHash, WholeReorder
     DEF johnny_setup_files
<1>2. CASE \E name \in Names : johnny_looks_up(Key(name)) \/ Create(name) \/ Delete(name)
  BY <1>2, WholeOthers
<1>3. CASE UNCHANGED vars
  <2>1. Served' = Served /\ Keys' = Keys /\ Indices' = Indices
    BY <1>3 DEF vars, walk, Served, Keys, Indices
  <2> QED BY <1>3, <2>1 DEF vars, walk, built, Whole, Counted, Read, Complete, NoHash
<1> QED BY <1>1, <1>2, <1>3 DEF Next

---------------------------------------------------------------------------
(* The lookup. *)

\* The hash function finds the place of a file, and no two files share a name.
LEMMA PlaceOfAFile ==
  ASSUME IInv, Types, Whole, changes = 0, pc = "serve"
  PROVE  /\ DOMAIN files = Indices /\ Served = {files[i] : i \in Indices}
         /\ \A i \in Indices : cmph_search(Key(files[i])) = {i}
         /\ \A f, g \in Served : Key(f) = Key(g) => f = g
         /\ \A k : (\A f \in Served : k # Key(f)) => cmph_search(k) = 0 .. count
<1>1. /\ files \in [Indices -> Readable] /\ \A i \in Indices : hash[Key(files[i])] = i
      /\ Served = {files[i] : i \in Indices}
  BY DEF IInv, InPlace, Whole, Complete
<1>2. DOMAIN hash = Keys /\ Keys = {Key(files[i]) : i \in Indices}
  BY <1>1 DEF Types, TypeOK, Whole, NoHash, Bijections, Keys
<1>3. \A i \in Indices : cmph_search(Key(files[i])) = {i}
  BY <1>1, <1>2 DEF cmph_search
<1>4. ASSUME NEW f \in Served, NEW g \in Served, Key(f) = Key(g) PROVE f = g
  <2>1. PICK i \in Indices : f = files[i]
    BY <1>1
  <2>2. PICK j \in Indices : g = files[j]
    BY <1>1
  <2>3. i = j
    BY <1>1, <1>4, <2>1, <2>2
  <2> QED BY <2>1, <2>2, <2>3
<1>5. ASSUME NEW k, \A f \in Served : k # Key(f) PROVE cmph_search(k) = 0 .. count
  BY <1>1, <1>2, <1>5 DEF cmph_search
<1> QED BY <1>1, <1>3, <1>4, <1>5

LEMMA LookedUp ==
  ASSUME IInv, Types, Whole, NEW name \in Names, johnny_looks_up(Key(name))
  PROVE  ServesTheTree'
<1> DEFINE k == Key(name)
<1>1. /\ pc = "serve" /\ asked' = k /\ Served' = Served /\ changes' = changes
  BY DEF johnny_looks_up, Served
<1>2. SUFFICES ASSUME changes = 0, answer' # Unset
               PROVE  answer' = IF \E f \in Served : Key(f) = k
                                  THEN CHOOSE f \in Served : Key(f) = k ELSE NotFound
  BY <1>1 DEF ServesTheTree
<1>3. PICK i \in cmph_search(k) :
        /\ i \in DOMAIN files
        /\ answer' = IF k = Key(files[i]) THEN files[i] ELSE NotFound
  BY <1>2 DEF johnny_looks_up
<1> HIDE DEF k
<1>4. CASE \E f \in Served : Key(f) = k
  <2>1. PICK j \in Indices : Key(files[j]) = k /\ files[j] \in Served
    BY <1>1, <1>2, <1>4, PlaceOfAFile
  <2>2. i = j /\ answer' = files[j]
    BY <1>1, <1>2, <1>3, <2>1, PlaceOfAFile
  <2>3. \A f \in Served : Key(f) = k => f = files[j]
    BY <1>1, <1>2, <2>1, PlaceOfAFile
  <2> QED BY <1>4, <2>1, <2>2, <2>3
<1>5. CASE ~\E f \in Served : Key(f) = k
  <2>1. k # Key(files[i])
    BY <1>1, <1>2, <1>3, <1>5, PlaceOfAFile
  <2> QED BY <1>3, <1>5, <2>1
<1> QED BY <1>4, <1>5

LEMMA ServesInit == Init => ServesTheTree
BY DEF Init, ServesTheTree

LEMMA ServesNext == IInv /\ Types /\ Whole /\ ServesTheTree /\ [Next]_vars => ServesTheTree'
<1> SUFFICES ASSUME IInv, Types, Whole, ServesTheTree, [Next]_vars PROVE ServesTheTree'
  OBVIOUS
<1>1. CASE johnny_setup_files \/ UNCHANGED vars
  <2>1. UNCHANGED <<tree, changes, asked, answer>>
    BY <1>1 DEF johnny_setup_files, count_files, counted, johnny_slurps_files, johnny_slurps_file,
                slurped, cmph_new, reorder_johnny_files, vars
  <2> QED BY <2>1 DEF ServesTheTree, Served
<1>2. ASSUME NEW name \in Names, johnny_looks_up(Key(name)) PROVE ServesTheTree'
  BY <1>2, LookedUp
<1>3. ASSUME NEW name \in Names, Create(name) \/ Delete(name) PROVE ServesTheTree'
  <2>1. changes' = changes + 1 /\ changes \in Nat
    BY <1>3, SetupAssumption DEF Create, Delete, Changes, Types, TypeOK
  <2>2. changes' # 0
    BY <2>1
  <2> QED BY <2>2 DEF ServesTheTree
<1> QED BY <1>1, <1>2, <1>3 DEF Next

(***************************************************************************)
(* Over a tree nobody changes, a request for a file is answered with that  *)
(* file and a request for another name with 404: the second walk finds the *)
(* files the first one counted, each keeps a place of its own when they    *)
(* are moved to their hash indices, and the lookup compares the names.     *)
(***************************************************************************)
THEOREM TheTreeIsServed == Spec => []ServesTheTree
BY IInvInit, IInvNext, TypesInit, TypesNext, WholeInit, WholeNext, ServesInit, ServesNext, PTL
   DEF Spec

---------------------------------------------------------------------------
(* The names.  The parts of a name are encoded one by one, and no escape   *)
(* ends in a percent sign or in a percent sign and one more character: the *)
(* last part can be read back from the end of the text.                    *)

\* The characters of an escape are strings, which the provers have to be told,
\* and need no more of them than that they differ.
Percent == "%"
Two == "2"
Coded == [p \in {" ", "%", "+"} |-> CASE p = " " -> "0" [] p = "%" -> "5" [] p = "+" -> "b"]
Special == {" ", "%", "+"}
Parts == STRING \cup {"%", "0", "2", "5", "b"}
Texts == Seq(Parts)

\* Neither of the last two characters is a percent sign.
EndsPlainly(w) == \A k \in {0, 1} : k < Len(w) => w[Len(w) - k] # Percent

LEMMA EscapesAreTexts ==
  /\ Two # Percent /\ Percent \in Special
  /\ \A p \in Special : Coded[p] # Percent
  /\ \A p, q \in Special : Coded[p] = Coded[q] => p = q
  /\ \A p \in Parts :
       /\ Escapes(p) \in Texts
       /\ Escapes(p) = IF p \in Special THEN <<Percent, Two, Coded[p]>> ELSE <<p>>
<1>1. /\ \A x \in Parts : <<x>> \in Seq(Parts)
      /\ \A x, y, z \in Parts : <<x, y, z>> \in Seq(Parts)
  <2> HIDE DEF Parts
  <2> QED OBVIOUS
<1>2. {"%", "0", "2", "5", "b"} \subseteq Parts
  BY DEF Parts
<1>3. Coded[" "] = "0" /\ Coded["%"] = "5" /\ Coded["+"] = "b"
  BY DEF Coded
<1>4. \A p \in Parts : Escapes(p) = IF p \in Special THEN <<Percent, Two, Coded[p]>> ELSE <<p>>
  BY <1>3 DEF Escapes, Special, Percent, Two
<1>5. \A p \in Special : Coded[p] \in Parts /\ Coded[p] # Percent
  BY <1>2, <1>3 DEF Special, Percent
<1>6. \A p, q \in Special : Coded[p] = Coded[q] => p = q
  BY <1>3 DEF Special
<1>7. Percent \in Parts /\ Two \in Parts /\ Two # Percent /\ Percent \in Special
  BY <1>2 DEF Percent, Two, Special
<1>8. \A p \in Parts : Escapes(p) \in Texts
  BY <1>1, <1>4, <1>5, <1>7 DEF Texts
<1> QED BY <1>4, <1>5, <1>6, <1>7, <1>8

\* What one part more makes of an encoded name, and what it looks like from its end.
Extend(u, p) == u \o Escapes(p)
Ending(w, u, p) ==
  IF p \in Special
    THEN Len(w) = Len(u) + 3 /\ w[Len(w) - 2] = Percent /\ w[Len(w)] = Coded[p]
    ELSE Len(w) = Len(u) + 1 /\ w[Len(w)] = p /\ (Len(w) > 2 => w[Len(w) - 2] # Percent)

LEMMA OnePartMore ==
  ASSUME NEW u \in Texts, EndsPlainly(u), NEW p \in Parts
  PROVE  LET w == u \o Escapes(p) IN
         /\ w \in Texts /\ Len(w) > 0 /\ EndsPlainly(w) /\ Ending(w, u, p)
         /\ \A i \in 1 .. Len(u) : w[i] = u[i]
<1> DEFINE e == Escapes(p)
           w == u \o e
<1>1. Len(u) \in Nat /\ e \in Texts
  BY EscapesAreTexts DEF Texts
<1>2. /\ w \in Texts /\ Len(w) = Len(u) + Len(e)
      /\ \A i \in 1 .. Len(u) + Len(e) : w[i] = IF i <= Len(u) THEN u[i] ELSE e[i - Len(u)]
  <2> HIDE DEF e
  <2> QED BY <1>1, ConcatProperties DEF Texts
<1>3. /\ Len(u) > 0 => u[Len(u)] # Percent
      /\ Len(u) > 1 => u[Len(u) - 1] # Percent
  BY <1>1 DEF EndsPlainly
<1>4. e = IF p \in Special THEN <<Percent, Two, Coded[p]>> ELSE <<p>>
  BY EscapesAreTexts
<1>5. /\ Two # Percent /\ (p \in Special => Coded[p] # Percent) /\ (p \notin Special => p # Percent)
  BY EscapesAreTexts
<1> HIDE DEF w, e
<1>6. CASE p \notin Special
  <2>1. Len(e) = 1 /\ e[1] = p
    BY <1>4, <1>6
  <2>2. Len(w) = Len(u) + 1 /\ w[Len(u) + 1] = p /\ \A i \in 1 .. Len(u) : w[i] = u[i]
    BY <1>1, <1>2, <2>1
  <2>3. Len(w) > 1 => w[Len(w) - 1] # Percent
    BY <1>1, <1>3, <2>2
  <2>4. Len(w) > 2 => w[Len(w) - 2] # Percent
    BY <1>1, <1>3, <2>2
  <2>5. EndsPlainly(w)
    BY <1>1, <1>5, <1>6, <2>2, <2>3 DEF EndsPlainly
  <2> QED BY <1>1, <1>2, <1>6, <2>2, <2>4, <2>5 DEF w, e, Ending
<1>7. CASE p \in Special
  <2>1. Len(e) = 3 /\ e[1] = Percent /\ e[2] = Two /\ e[3] = Coded[p]
    BY <1>4, <1>7
  <2>2. /\ Len(w) = Len(u) + 3 /\ \A i \in 1 .. Len(u) : w[i] = u[i]
        /\ w[Len(u) + 1] = Percent /\ w[Len(u) + 2] = Two /\ w[Len(u) + 3] = Coded[p]
    BY <1>1, <1>2, <2>1
  <2>3. Len(w) - 2 = Len(u) + 1 /\ Len(w) - 1 = Len(u) + 2 /\ Len(w) - 0 = Len(u) + 3 /\ Len(w) > 0
    BY <1>1, <2>2
  <2>4. EndsPlainly(w)
    BY <1>5, <1>7, <2>2, <2>3 DEF EndsPlainly
  <2> QED BY <1>2, <1>7, <2>2, <2>3, <2>4 DEF w, e, Ending
<1> QED BY <1>6, <1>7

LEMMA LastPartReadBack ==
  ASSUME NEW u \in Texts, EndsPlainly(u), NEW v \in Texts, EndsPlainly(v),
         NEW p \in Parts, NEW q \in Parts, Extend(u, p) = Extend(v, q)
  PROVE  p = q /\ u = v
<1> DEFINE w == u \o Escapes(p)
<1>1. w \in Texts /\ Len(w) > 0 /\ Ending(w, u, p) /\ \A i \in 1 .. Len(u) : w[i] = u[i]
  BY OnePartMore
<1>2. Ending(w, v, q) /\ \A i \in 1 .. Len(v) : w[i] = v[i]
  BY OnePartMore DEF Extend
<1> HIDE DEF w
<1>3. Len(w) \in Nat /\ Len(u) \in Nat /\ Len(v) \in Nat
  BY <1>1 DEF Texts
\* An escape has its percent sign where a plain last part has none.
<1>4. p \in Special <=> q \in Special
  <2>1. Len(w) = Len(u) + 3 \/ Len(w) = Len(v) + 3 => Len(w) > 2
    BY <1>3
  <2> QED BY <1>1, <1>2, <1>3, <2>1 DEF Ending
<1>5. p = q /\ Len(u) = Len(v)
  BY <1>1, <1>2, <1>3, <1>4, EscapesAreTexts DEF Ending
<1>6. u = v
  BY <1>1, <1>2, <1>3, <1>5, SeqEqual DEF Texts
<1> QED BY <1>5, <1>6

\* Two names of one encoding are one name, part by part from the last.
LEMMA UrlEncodeIsOneToOne ==
  ASSUME NEW a \in Texts, NEW b \in Texts, url_encode(a) = url_encode(b)
  PROVE  a = b
<1> DEFINE Codes(c) == [i \in DOMAIN c |-> Escapes(c[i])]
           Encodes(g, c) == /\ g \in [0 .. Len(c) -> Texts] /\ g[0] = <<>>
                            /\ \A i \in 1 .. Len(c) : g[i] = g[i - 1] \o Escapes(c[i])
<1>1. ASSUME NEW c \in Texts
      PROVE  \E g : Encodes(g, c) /\ url_encode(c) = g[Len(c)]
  <2>1. Len(c) \in Nat /\ DOMAIN c = 1 .. Len(c) /\ \A i \in 1 .. Len(c) : c[i] \in Parts
    BY LenProperties, ElementOfSeq DEF Texts
  <2>2. Codes(c) \in Seq(Texts) /\ Len(Codes(c)) = Len(c)
    <3>1. \A i \in 1 .. Len(c) : Escapes(c[i]) \in Texts
      BY <2>1, EscapesAreTexts
    <3>2. Codes(c) \in [1 .. Len(c) -> Texts]
      BY <2>1, <3>1
    <3> QED BY <2>1, <3>2
  <2>3. PICK g \in [0 .. Len(Codes(c)) -> Texts] :
          /\ g[0] = <<>> /\ \A i \in 1 .. Len(Codes(c)) : g[i] = g[i - 1] \o Codes(c)[i]
          /\ FlattenSeq(Codes(c)) = g[Len(Codes(c))]
    <3> HIDE DEF Codes
    <3> QED BY <2>2, FlattenUnfolds DEF Texts
  <2>4. \A i \in 1 .. Len(c) : Codes(c)[i] = Escapes(c[i])
    BY <2>1
  <2>5. url_encode(c) = FlattenSeq(Codes(c))
    BY DEF url_encode
  <2> HIDE DEF Codes
  <2> QED BY <2>2, <2>3, <2>4, <2>5
<1>2. ASSUME NEW c \in Texts, NEW g, Encodes(g, c)
      PROVE  /\ \A i \in 0 .. Len(c) : g[i] \in Texts /\ EndsPlainly(g[i]) /\ (i > 0 => Len(g[i]) > 0)
             /\ \A i \in 1 .. Len(c) : c[i] \in Parts
  <2>1. Len(c) \in Nat /\ \A i \in 1 .. Len(c) : c[i] \in Parts
    BY ElementOfSeq, LenProperties DEF Texts
  <2> DEFINE Plain == {n \in Nat : n <= Len(c) =>
                         EndsPlainly(g[n]) /\ (n > 0 => Len(g[n]) > 0)}
  <2>2. 0 \in Plain
    BY <1>2 DEF EndsPlainly
  <2>3. ASSUME NEW n \in Nat, n \in Plain PROVE n + 1 \in Plain
    <3> SUFFICES ASSUME n + 1 <= Len(c) PROVE EndsPlainly(g[n + 1]) /\ Len(g[n + 1]) > 0
      OBVIOUS
    <3>1. n + 1 \in 1 .. Len(c) /\ (n + 1) - 1 = n /\ n \in 0 .. Len(c)
      BY <2>1
    <3>2. g[n] \in Texts /\ EndsPlainly(g[n]) /\ c[n + 1] \in Parts
      BY <1>2, <2>1, <2>3, <3>1
    <3>3. g[n + 1] = g[n] \o Escapes(c[n + 1])
      BY <1>2, <3>1
    <3> QED BY <3>2, <3>3, OnePartMore
  <2>4. ASSUME NEW i \in 0 .. Len(c) PROVE i \in Plain
    <3> HIDE DEF Plain
    <3> QED BY <2>1, <2>2, <2>3, SetInduction
  <2> QED BY <1>2, <2>1, <2>4
<1>3. PICK g : Encodes(g, a) /\ url_encode(a) = g[Len(a)]
  BY <1>1
<1>4. PICK h : Encodes(h, b) /\ url_encode(b) = h[Len(b)]
  BY <1>1
<1>5. Len(a) \in Nat /\ Len(b) \in Nat
  BY DEF Texts
<1> DEFINE Same == {n \in Nat : \A j \in 0 .. Len(b) :
                      (n <= Len(a) /\ g[n] = h[j]) => j = n /\ \A k \in 1 .. n : a[k] = b[k]}
<1>6. 0 \in Same
  <2> SUFFICES ASSUME NEW j \in 0 .. Len(b), g[0] = h[j] PROVE j = 0
    OBVIOUS
  <2>1. Len(h[j]) = 0
    BY <1>3
  <2> QED BY <1>2, <1>4, <2>1
<1>7. ASSUME NEW n \in Nat, n \in Same PROVE n + 1 \in Same
  <2> SUFFICES ASSUME NEW j \in 0 .. Len(b), n + 1 <= Len(a), g[n + 1] = h[j]
               PROVE  j = n + 1 /\ \A k \in 1 .. n + 1 : a[k] = b[k]
    OBVIOUS
  <2>1. n + 1 \in 1 .. Len(a) /\ n + 1 \in 0 .. Len(a) /\ n \in 0 .. Len(a) /\ (n + 1) - 1 = n /\ n <= Len(a) /\ n + 1 > 0
    BY <1>5
  <2>2. Len(g[n + 1]) > 0
    BY <1>2, <1>3, <2>1
  <2>3. j # 0
    BY <1>4, <2>2
  <2>4. j \in 1 .. Len(b) /\ j - 1 \in 0 .. Len(b)
    BY <1>5, <2>3
  <2>5. /\ g[n] \in Texts /\ EndsPlainly(g[n]) /\ a[n + 1] \in Parts
        /\ h[j - 1] \in Texts /\ EndsPlainly(h[j - 1]) /\ b[j] \in Parts
    BY <1>2, <1>3, <1>4, <2>1, <2>4
  <2>6. Extend(g[n], a[n + 1]) = Extend(h[j - 1], b[j])
    BY <1>3, <1>4, <2>1, <2>4 DEF Extend
  <2>7. a[n + 1] = b[j] /\ g[n] = h[j - 1]
    BY <2>5, <2>6, LastPartReadBack
  <2>8. j - 1 = n /\ \A k \in 1 .. n : a[k] = b[k]
    BY <1>7, <2>1, <2>4, <2>7
  <2> QED BY <2>4, <2>7, <2>8
<1>8. Len(a) \in Same
  <2> HIDE DEF Same
  <2> QED BY <1>5, <1>6, <1>7, SetInduction
<1>9. Len(a) = Len(b) /\ \A k \in 1 .. Len(a) : a[k] = b[k]
  <2> HIDE DEF Encodes, Same
  <2>1. g[Len(a)] = h[Len(b)]
    BY <1>3, <1>4
  <2>2. Len(b) \in 0 .. Len(b) /\ Len(a) <= Len(a)
    BY <1>5
  <2>3. \A k \in 0 .. Len(b) :
           Len(a) <= Len(a) /\ g[Len(a)] = h[k] =>
             k = Len(a) /\ \A x \in 1 .. Len(a) : a[x] = b[x]
    BY <1>8 DEF Same
  <2> QED BY <2>1, <2>2, <2>3
<1> QED BY <1>9, SeqEqual DEF Texts

\* What is left of a name without its content encoding is not empty.
LEMMA NamesAreTexts ==
  ASSUME NEW name \in Names
  PROVE  WithoutEncoding(name) \in Texts /\ WithoutEncoding(name) # <<>>
<1>1. name \in Seq(Parts) /\ name # <<>> /\ Len(name) \in Nat
  <2>1. name \in Seq(STRING) /\ name # <<>> /\ STRING \subseteq Parts
    BY SetupAssumption DEF Parts
  <2>2. name \in Seq(Parts)
    BY <2>1, SeqMonotonic
  <2> QED BY <2>1, <2>2
<1>2. LastDot(name) \in 0 .. Len(name)
  <2> DEFINE dots == {0} \cup {i \in DOMAIN name : name[i] = "."}
  <2>1. dots \subseteq Nat /\ 0 \in dots /\ \A y \in dots : y <= Len(name)
    BY <1>1
  <2> HIDE DEF dots
  <2>2. Max(dots) \in dots
    BY <1>1, <2>1, GreatestElement
  <2>3. Max(dots) \in 0 .. Len(name)
    <3>1. \A y \in dots : y \in 0 .. Len(name)
      BY <1>1, <2>1
    <3> QED BY <2>2, <3>1, Zenon
  <2> QED BY <2>3 DEF LastDot, dots
<1>3. CASE get_file_extension(name) \in Encodings
  <2>1. LastDot(name) \notin {0, 1}
    BY <1>3 DEF get_file_extension, Encodings
  <2>2. LastDot(name) - 1 \in 1 .. Len(name)
    BY <1>1, <1>2, <2>1
  <2>3. /\ SubSeq(name, 1, LastDot(name) - 1) \in Seq(Parts)
        /\ Len(SubSeq(name, 1, LastDot(name) - 1)) = LastDot(name) - 1
    <3>1. \A k \in 1 .. Len(name) : SubSeq(name, 1, k) \in Seq(Parts) /\ Len(SubSeq(name, 1, k)) = k
      BY <1>1, SubSeqProperties
    <3> QED BY <2>2, <3>1
  <2>4. SubSeq(name, 1, LastDot(name) - 1) # <<>>
    BY <2>2, <2>3
  <2> QED BY <1>3, <2>3, <2>4 DEF WithoutEncoding, Texts
<1>4. CASE get_file_extension(name) \notin Encodings
  BY <1>1, <1>4 DEF WithoutEncoding, Texts
<1> QED BY <1>3, <1>4

LEMMA KeysTellNamesApart ==
  /\ \A f, g \in Names : Key(f) = Key(g) => WithoutEncoding(f) = WithoutEncoding(g)
  /\ \A f \in Names : Key(f) # Unset
<1>1. \A a, b \in Texts : url_encode(a) = url_encode(b) => a = b
  BY UrlEncodeIsOneToOne
<1>2. <<>> \in Texts /\ url_encode(<<>>) = <<>>
  BY EmptySeq DEF url_encode, FlattenSeq, Texts
<1> QED BY <1>1, <1>2, NamesAreTexts DEF Key, Unset

---------------------------------------------------------------------------
(* What goes wrong. *)

\* Of a key that occurs twice there are two files.
LEMMA TooFewKeys ==
  ASSUME Types, count = Cardinality(Served), Served = {files[i] : i \in Indices},
         DOMAIN files = Indices, Cardinality(Keys) # count
  PROVE  Collide
<1>1. Keys = {Key(f) : f \in Served}
  BY DEF Keys
<1>2. Served \subseteq Names /\ IsFiniteSet(Served)
  <2>1. Served \ {} = Served
    OBVIOUS
  <2> QED BY <2>1, ServedIsFinite
<1>3. PICK f \in Served, g \in Served : f # g /\ Key(f) = Key(g)
  <2> SUFFICES ASSUME \A f, g \in Served : Key(f) = Key(g) => f = g PROVE FALSE
    OBVIOUS
  <2> DEFINE key == [f \in Served |-> Key(f)]
  <2>1. key \in Bijection(Served, Keys)
    BY <1>1 DEF Bijection, Injection, Surjection, IsInjective
  <2>2. Cardinality(Keys) = Cardinality(Served)
    <3> HIDE DEF key
    <3> QED BY <1>2, <2>1, FS_Bijection DEF ExistsBijection
  <2> QED BY <2>2
<1>4. WithoutEncoding(f) = WithoutEncoding(g)
  BY <1>2, <1>3, KeysTellNamesApart
<1> QED BY <1>3, <1>4 DEF Collide

LEMMA SlurpsWrong ==
  ASSUME Types, Whole, GoesWrongOnlyWhen, johnny_slurps_file
  PROVE  GoesWrongOnlyWhen'
<1>1. /\ pc = "slurp" /\ reading # Unset /\ Served' = Served /\ pc' \in {"slurp", "undefined"}
      /\ tree' = tree /\ changes' = changes
  BY DEF johnny_slurps_file, Served
<1>2. ASSUME changes = 0, pc' = "undefined" PROVE Served \cap Unreadable # {}
  <2>1. Read
    BY <1>1, <1>2 DEF Whole
  <2>2. reading \in Served /\ reading \in tree
    BY <1>1, <2>1 DEF Read, Served
  <2>3. file_counter < count
    <3> DEFINE rest == Served \ (todo \cup {reading})
    <3>1. /\ IsFiniteSet(rest) /\ Cardinality(rest) \in Nat /\ reading \notin rest
          /\ rest \cup {reading} \subseteq Served
          /\ IsFiniteSet(Served) /\ Cardinality(Served) \in Nat
      <4>1. Served \ {} = Served
        OBVIOUS
      <4> QED BY <2>2, <4>1, ServedIsFinite
    <3> HIDE DEF rest
    <3>2. Cardinality(rest \cup {reading}) = Cardinality(rest) + 1
      BY <3>1, FS_AddElement, Zenon
    <3>3. Cardinality(rest \cup {reading}) <= Cardinality(Served)
      BY <3>1, FS_Subset
    <3>4. file_counter = Cardinality(rest) /\ count = Cardinality(Served)
      BY <1>1, <2>1 DEF Read, rest
    <3>5. Cardinality(rest) + 1 <= Cardinality(Served)
      BY <3>2, <3>3
    <3>6. \A m, n \in Nat : m + 1 <= n => m < n
      OBVIOUS
    <3> QED BY <3>1, <3>4, <3>5, <3>6
  <2>4. ~slurp(reading)
    BY <1>2, <2>3, <1>1 DEF johnny_slurps_file
  <2> QED BY <2>2, <2>4 DEF slurp
<1>3. ~(changes = 0) => changes' > 0
  BY <1>1 DEF Types, TypeOK
<1> QED BY <1>1, <1>2, <1>3 DEF GoesWrongOnlyWhen

LEMMA SlurpedWrong ==
  ASSUME Types, Whole, GoesWrongOnlyWhen, slurped
  PROVE  GoesWrongOnlyWhen'
<1>1. /\ pc = "slurp" /\ reading = Unset /\ todo = {} /\ Served' = Served
      /\ pc' \in {"hash", "undefined"} /\ changes' = changes
      /\ (pc' = "undefined" => \E i \in DOMAIN files : files[i] = Unset)
      /\ DOMAIN files = Indices
  BY DEF slurped, Served, Types, TypeOK, Indices
<1>2. ASSUME changes = 0, pc' = "undefined" PROVE FALSE
  <2>1. Read /\ Served \ (todo \cup {reading}) = Served /\ Unset \notin Served
    BY <1>1, <1>2, ServedIsFinite DEF Whole
  <2>2. {files[i] : i \in Indices} = Served
    BY <1>1, <2>1 DEF Read, Indices
  <2> QED BY <1>1, <1>2, <2>1, <2>2
<1>3. ~(changes = 0) => changes' > 0
  BY <1>1 DEF Types, TypeOK
<1> QED BY <1>1, <1>2, <1>3 DEF GoesWrongOnlyWhen

LEMMA ReordersWrong ==
  ASSUME IInv, Types, Whole, GoesWrongOnlyWhen, reorder_johnny_files
  PROVE  GoesWrongOnlyWhen'
<1>1. /\ pc = "reorder" /\ Served' = Served /\ changes' = changes
      /\ pc' \in {"reorder", "crashed", "serve"} /\ (pc' = "crashed" => hash = NullHash)
      /\ Collide' = Collide /\ DOMAIN files = Indices /\ gave_up' = gave_up
  BY DEF reorder_johnny_files, Served, Collide, IInv, Filled
<1>2. ASSUME changes = 0, pc' = "crashed" PROVE Cardinality(Served) = 1 \/ Collide \/ gave_up
  <2>1. /\ Served = {files[i] : i \in Indices} /\ count = Cardinality(Served)
        /\ (count = 1 \/ Cardinality(Keys) # count \/ gave_up)
    BY <1>1, <1>2 DEF Whole, Complete, NoHash
  <2> QED BY <1>1, <2>1, TooFewKeys
<1>3. ~(changes = 0) => changes' > 0
  BY <1>1 DEF Types, TypeOK
<1> QED BY <1>1, <1>2, <1>3 DEF GoesWrongOnlyWhen

LEMMA LooksUpWrong ==
  ASSUME IInv, Types, Whole, GoesWrongOnlyWhen, NEW name \in Names, johnny_looks_up(Key(name))
  PROVE  GoesWrongOnlyWhen'
<1>1. /\ pc = "serve" /\ Served' = Served /\ changes' = changes /\ asked' = Key(name)
      /\ pc' \in {"serve", "undefined"}
      /\ (pc' = "undefined" => \E i \in cmph_search(Key(name)) : i \notin DOMAIN files)
  BY DEF johnny_looks_up, Served
<1>2. ASSUME changes = 0, pc' = "undefined" PROVE \A f \in Served : Key(name) # Key(f)
  <2> SUFFICES ASSUME NEW f \in Served, Key(name) = Key(f) PROVE FALSE
    OBVIOUS
  <2>1. PICK i \in Indices : f = files[i]
    BY <1>1, <1>2, PlaceOfAFile
  <2>2. cmph_search(Key(name)) = {i} /\ i \in DOMAIN files
    BY <1>1, <1>2, <2>1, PlaceOfAFile
  <2> QED BY <1>1, <1>2, <2>2
<1>3. ~(changes = 0) => changes' > 0
  BY <1>1 DEF Types, TypeOK
<1>4. asked' # Unset
  BY <1>1, KeysTellNamesApart
<1> QED BY <1>1, <1>2, <1>3, <1>4 DEF GoesWrongOnlyWhen

LEMMA WrongNext ==
  IInv /\ Types /\ Whole /\ GoesWrongOnlyWhen /\ [Next]_vars => GoesWrongOnlyWhen'
<1> SUFFICES ASSUME IInv, Types, Whole, GoesWrongOnlyWhen, [Next]_vars PROVE GoesWrongOnlyWhen'
  OBVIOUS
<1>1. CASE UNCHANGED vars
  <2>1. UNCHANGED <<pc, tree, changes, asked, gave_up>>
    BY <1>1 DEF vars, built
  <2> QED BY <2>1 DEF GoesWrongOnlyWhen, Collide, Served
<1>2. CASE count_files \/ counted \/ johnny_slurps_files \/ cmph_new
  <2>1. pc' \notin {"crashed", "undefined"}
    BY <1>2 DEF count_files, counted, johnny_slurps_files, cmph_new
  <2> QED BY <2>1 DEF GoesWrongOnlyWhen
<1>3. CASE johnny_slurps_file \/ slurped \/ reorder_johnny_files
  BY <1>3, SlurpsWrong, SlurpedWrong, ReordersWrong
<1>4. ASSUME NEW name \in Names, johnny_looks_up(Key(name)) PROVE GoesWrongOnlyWhen'
  BY <1>4, LooksUpWrong
<1>5. ASSUME NEW name \in Names, Create(name) \/ Delete(name) PROVE GoesWrongOnlyWhen'
  <2>1. pc' \notin {"crashed", "undefined"}
    BY <1>5 DEF Create, Delete, Changes, Starting
  <2> QED BY <2>1 DEF GoesWrongOnlyWhen
<1> QED BY <1>1, <1>2, <1>3, <1>4, <1>5 DEF Next, johnny_setup_files

(***************************************************************************)
(* The set-up crashes only over a tree that changes, of a single file or   *)
(* with two files that differ in their content encoding alone (no other    *)
(* two names have one URL encoding), or when cmph_new gives up on names    *)
(* that differ; and it or a lookup does the undefined only over a tree     *)
(* that changes, after a file fopen refuses or for a name that is not      *)
(* there.                                                                  *)
(***************************************************************************)
THEOREM WhatItTakesToGoWrong == Spec => []GoesWrongOnlyWhen
<1>1. Init => GoesWrongOnlyWhen
  BY DEF Init, GoesWrongOnlyWhen
<1> QED BY <1>1, IInvInit, IInvNext, TypesInit, TypesNext, WholeInit, WholeNext, WrongNext, PTL
        DEF Spec

=============================================================================
