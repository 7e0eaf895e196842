---------------------------- MODULE JohnnySetup ----------------------------
(***************************************************************************)
(* johnny_setup_files (johnny_setup.c): the main thread counts the files   *)
(* under JOHNNY_ROOT, walks the directory a second time to read them into  *)
(* an array of that size, hashes their URL-encoded names and moves every   *)
(* file to its hash index, where the workers look it up.  Other processes  *)
(* may create and remove files between any two system calls.               *)
(*                                                                         *)
(* A name is the sequence of its parts: a character, or a piece of text    *)
(* the code treats as one.  Directories are flattened: a file's name is    *)
(* its path relative to the root, and the recursive walk is one walk over  *)
(* all of them, in any order.  The hash function is what cmph_new promises *)
(* (the module Chd is about how it is found).                              *)
(***************************************************************************)
EXTENDS Integers, Sequences, FiniteSets, SequencesExt, FiniteSetsExt

CONSTANTS
  Names,        \* the paths that may exist under JOHNNY_ROOT
  Irregular,    \* those that are neither files nor directories
  Unreadable,   \* those that fopen refuses
  MaxChanges    \* bound: files created or removed while the server starts

ASSUME SetupAssumption ==
  /\ Names \subseteq Seq(STRING) \ {<<>>} /\ IsFiniteSet(Names)
  /\ Irregular \subseteq Names /\ Unreadable \subseteq Names
  /\ MaxChanges \in Nat

VARIABLES
  tree,          \* the paths that exist
  changes,       \* how many were created or removed since the start
  pc,            \* "count", "slurp", "hash", "reorder", "serve", or how it
                 \* ended: "failed", "crashed", "undefined"
  count,         \* johnny_file_count
  todo,          \* the entries readdir may still return
  reading,       \* the file johnny_slurps_file is about to open
  files,         \* JOHNNY_FILES, from 0, by the path of the file it holds
  file_counter,
  hash,          \* JOHNNY_HASH on the names it was built from
  gave_up,       \* history: cmph_new found none for several keys that differ
  move_from, reordered,
  asked, answer  \* the last request, and the path of the file it was given

walk == <<count, todo, reading, files, file_counter>>
built == <<hash, gave_up, move_from, reordered>>
vars == <<tree, changes, pc, walk, built, asked, answer>>

Unset == <<>>      \* an element of JOHNNY_FILES that was never written
NotFound == <<"404">>
NullHash == <<>>

Array(n) == [i \in 0 .. n - 1 |-> Unset]

---------------------------------------------------------------------------
(* Names. *)

LastDot(name) == Max({0} \cup {i \in DOMAIN name : name[i] = "."})

\* What follows the last dot, unless the dot is the first character.
get_file_extension(name) ==
  IF LastDot(name) \in {0, 1} THEN <<>>
  ELSE SubSeq(name, LastDot(name) + 1, Len(name))

Encodings == {<<"gz">>, <<"br">>, <<"zstd">>}

\* johnny_slurps_file cuts the extension of a content encoding off.
WithoutEncoding(name) ==
  IF get_file_extension(name) \in Encodings THEN SubSeq(name, 1, LastDot(name) - 1) ELSE name

\* Mutant: the percent sign is on the list of characters that stay.
EscapesUnlessPercent(part) == CASE part = " " -> <<"%", "2", "0">>
                                [] part = "+" -> <<"%", "2", "b">>
                                [] OTHER -> <<part>>

\* A part with a character outside the list becomes its hexadecimal escape.
Escapes(part) == CASE part = " " -> <<"%", "2", "0">>
                   [] part = "%" -> <<"%", "2", "5">>
                   [] part = "+" -> <<"%", "2", "b">>
                   [] OTHER -> <<part>>
url_encode(name) == FlattenSeq([i \in DOMAIN name |-> Escapes(name[i])])

Key(name) == url_encode(WithoutEncoding(name))

Regular == Names \ Irregular
IsKey(k) == \E name \in Names : k = Key(name)

---------------------------------------------------------------------------
(* The set-up. *)

Init ==
  /\ tree \in SUBSET Names /\ changes = 0
  /\ pc = "count" /\ count = 0 /\ todo = tree /\ reading = Unset
  /\ files = Array(0) /\ file_counter = 0
  /\ hash = NullHash /\ gave_up = FALSE /\ move_from = 0 /\ reordered = Array(0)
  /\ asked = Unset /\ answer = Unset

\* What lstat tells of an entry: of one that is gone, whatever sb held.
SeemsRegular(name) == name \notin tree \/ name \in Regular
SeemsOther(name)   == name \notin tree \/ name \in Irregular

count_files ==
  /\ pc = "count"
  /\ \E name \in todo :
       /\ todo' = todo \ {name}
       /\ \/ SeemsRegular(name) /\ count' = count + 1
          \/ SeemsOther(name) /\ count' = count
  /\ UNCHANGED <<tree, changes, pc, reading, files, file_counter, built, asked, answer>>

\* Mutant: the directory is not opened again for the second walk.
CountedWithoutRewind ==
  /\ pc = "count" /\ todo = {}
  /\ IF count = 0 THEN pc' = "failed" /\ files' = files
                  ELSE pc' = "slurp" /\ files' = Array(count)
  /\ UNCHANGED <<tree, changes, count, todo, reading, file_counter, built, asked, answer>>

counted ==
  /\ pc = "count" /\ todo = {}
  /\ IF count = 0 THEN pc' = "failed" /\ UNCHANGED <<todo, files>>
                  ELSE pc' = "slurp" /\ todo' = tree /\ files' = Array(count)
  /\ UNCHANGED <<tree, changes, count, reading, file_counter, built, asked, answer>>

johnny_slurps_files ==
  /\ pc = "slurp" /\ reading = Unset
  /\ \E name \in todo :
       /\ todo' = todo \ {name}
       /\ \/ SeemsRegular(name) /\ reading' = name
          \/ SeemsOther(name) /\ reading' = Unset
  /\ UNCHANGED <<tree, changes, pc, count, files, file_counter, built, asked, answer>>

slurp(name) == name \in tree \ Unreadable

\* Mutant: the array is grown for a file that was not counted.
SlurpsPastTheEnd ==
  /\ pc = "slurp" /\ reading # Unset
  /\ IF slurp(reading)
       THEN files' = [i \in DOMAIN files \cup {file_counter} |->
                        IF i = file_counter THEN reading ELSE files[i]] /\ pc' = pc
       ELSE pc' = "undefined" /\ files' = files
  /\ reading' = Unset /\ file_counter' = file_counter + 1
  /\ UNCHANGED <<tree, changes, count, todo, built, asked, answer>>

\* When slurp fails its result (size_t)-1 is taken for the size, and the
\* array has room for the files that were counted.
johnny_slurps_file ==
  /\ pc = "slurp" /\ reading # Unset
  /\ IF slurp(reading) /\ file_counter < count
       THEN files' = [files EXCEPT ![file_counter] = reading] /\ pc' = pc
       ELSE pc' = "undefined" /\ files' = files
  /\ reading' = Unset /\ file_counter' = file_counter + 1
  /\ UNCHANGED <<tree, changes, count, todo, built, asked, answer>>

\* The names are collected up to the count, whatever the second walk found.
slurped ==
  /\ pc = "slurp" /\ reading = Unset /\ todo = {}
  /\ pc' = IF \A i \in DOMAIN files : files[i] # Unset THEN "hash" ELSE "undefined"
  /\ UNCHANGED <<tree, changes, walk, built, asked, answer>>

Keys == {Key(files[i]) : i \in DOMAIN files}
Bijections == {h \in [Keys -> DOMAIN files] : \A i \in DOMAIN files : \E k \in Keys : h[k] = i}

Hashable == count > 1 /\ Cardinality(Keys) = count

\* NULL for a key that occurs twice and for a single key; and for others
\* too, when none of the seeds that CHD tries would do.  (It has no more of
\* them than keys: two files have two seeds in all.)
cmph_new ==
  /\ pc = "hash" /\ pc' = "reorder"
  /\ \/ Hashable /\ hash' \in Bijections /\ UNCHANGED gave_up
     \/ hash' = NullHash /\ gave_up' = Hashable
  /\ move_from' = 0 /\ reordered' = Array(count)
  /\ UNCHANGED <<tree, changes, walk, asked, answer>>

\* Mutant: the place a file moves to is taken for the one it comes from.
ReordersBackwards ==
  /\ pc = "reorder"
  /\ IF hash = NullHash
       THEN pc' = "crashed" /\ UNCHANGED <<files, reordered, move_from>>
       ELSE IF move_from < count
       THEN /\ reordered' = [reordered EXCEPT ![move_from] = files[hash[Key(files[move_from])]]]
            /\ move_from' = move_from + 1
            /\ UNCHANGED <<pc, files>>
       ELSE files' = reordered /\ pc' = "serve" /\ UNCHANGED <<reordered, move_from>>
  /\ UNCHANGED <<tree, changes, count, todo, reading, file_counter, hash, gave_up, asked, answer>>

reorder_johnny_files ==
  /\ pc = "reorder"
  /\ IF hash = NullHash
       THEN pc' = "crashed" /\ UNCHANGED <<files, reordered, move_from>>
       ELSE IF move_from < count
       THEN /\ reordered' = [reordered EXCEPT ![hash[Key(files[move_from])]] = files[move_from]]
            /\ move_from' = move_from + 1
            /\ UNCHANGED <<pc, files>>
       ELSE files' = reordered /\ pc' = "serve" /\ UNCHANGED <<reordered, move_from>>
  /\ UNCHANGED <<tree, changes, count, todo, reading, file_counter, hash, gave_up, asked, answer>>

\* Of a name it was not built from the function makes an index of the array
\* or, when its last bin is vacant, the one after the last.
cmph_search(k) == IF k \in DOMAIN hash THEN {hash[k]} ELSE 0 .. count

\* Mutant: the name of the file found is not compared with the one asked for.
LooksUpUnchecked(k) ==
  /\ pc = "serve" /\ asked' = k
  /\ \E i \in cmph_search(k) :
       IF i \in DOMAIN files THEN answer' = files[i] /\ pc' = pc
                             ELSE answer' = Unset /\ pc' = "undefined"
  /\ UNCHANGED <<tree, changes, walk, built>>

johnny_looks_up(k) ==
  /\ pc = "serve" /\ asked' = k
  /\ \E i \in cmph_search(k) :
       IF i \in DOMAIN files
         THEN answer' = (IF k = Key(files[i]) THEN files[i] ELSE NotFound) /\ pc' = pc
         ELSE answer' = Unset /\ pc' = "undefined"
  /\ UNCHANGED <<tree, changes, walk, built>>

---------------------------------------------------------------------------
(* Other processes.  readdir may or may not return an entry that comes or  *)
(* goes while the directory is read.                                       *)

Starting == pc \in {"count", "slurp"}

Changes(name) ==
  /\ Starting /\ changes < MaxChanges /\ changes' = changes + 1
  /\ UNCHANGED <<pc, count, reading, files, file_counter, built, asked, answer>>

Create(name) ==
  /\ name \notin tree /\ tree' = tree \cup {name}
  /\ todo' \in {todo, todo \cup {name}}
  /\ Changes(name)

Delete(name) ==
  /\ name \in tree /\ tree' = tree \ {name}
  /\ todo' \in {todo, todo \ {name}}
  /\ Changes(name)

johnny_setup_files ==
  \/ count_files \/ counted
  \/ johnny_slurps_files \/ johnny_slurps_file \/ slurped
  \/ cmph_new \/ reorder_johnny_files

Next ==
  \/ johnny_setup_files
  \/ \E name \in Names : johnny_looks_up(Key(name)) \/ Create(name) \/ Delete(name)

Spec == Init /\ [][Next]_vars

\* The main thread is always scheduled again.
FairSpec == Spec /\ WF_vars(johnny_setup_files)

---------------------------------------------------------------------------
(* Properties. *)

\* The types: in particular no element outside an array is ever written.
TypeOK ==
  /\ tree \in SUBSET Names /\ todo \in SUBSET Names /\ changes \in 0 .. MaxChanges
  /\ pc \in {"count", "slurp", "hash", "reorder", "serve", "failed", "crashed", "undefined"}
  /\ count \in 0 .. Cardinality(Names) + MaxChanges
  /\ reading \in Names \cup {Unset}
  /\ files \in [0 .. (IF pc \in {"count", "failed"} THEN 0 ELSE count) - 1 -> Names \cup {Unset}]
  /\ file_counter \in 0 .. count + 1
  /\ (hash = NullHash \/ hash \in Bijections) /\ gave_up \in BOOLEAN
  /\ reordered \in [DOMAIN reordered -> Names \cup {Unset}]
  /\ DOMAIN reordered \in {{}, DOMAIN files} /\ move_from \in 0 .. count
  /\ (asked = Unset \/ IsKey(asked)) /\ answer \in Names \cup {Unset, NotFound}

\* The files a walk over the tree finds, and two that would share a key.
Served == tree \cap Regular
Collide == \E f, g \in Served : f # g /\ WithoutEncoding(f) = WithoutEncoding(g)

\* A request is answered with the file of that name, whichever way the hash
\* function moved the files, and with 404 only when there is none: over a
\* tree nobody changed every file under the root can be had by its name
\* (url_encode, reorder_johnny_files and the lookup of johnny_sends_response
\* agree with each other).
ServesTheTree ==
  (answer # Unset /\ changes = 0) =>
    answer = IF \E f \in Served : Key(f) = asked
               THEN CHOOSE f \in Served : Key(f) = asked
               ELSE NotFound

\* Over a tree that did change: once it serves, the array holds the counted
\* number of distinct files that could be read (a link among them, if it
\* was put where lstat had found nothing), each at the hash index of its key.
ServesWhatWasRead ==
  pc = "serve" =>
    /\ Cardinality({files[i] : i \in DOMAIN files}) = count
    /\ \A i \in DOMAIN files : files[i] \in Names \ Unreadable /\ hash[Key(files[i])] = i

\* What it takes for the set-up to go wrong: a tree that changes, a file
\* fopen refuses, a single file, two files that differ in their content
\* encoding alone, or that cmph_new gives up, whose result is not checked;
\* and for a lookup, a name that is not there.
GoesWrongOnlyWhen ==
  /\ pc = "crashed" => changes > 0 \/ Cardinality(Served) = 1 \/ Collide \/ gave_up
  /\ pc = "undefined" => \/ changes > 0
                         \/ Served \cap Unreadable # {}
                         \/ asked # Unset /\ \A f \in Served : asked # Key(f)

\* Both walks and the reordering end: a tree that stays as it is, of at
\* least two readable files with different keys, is served in the end,
\* unless cmph_new gives up.
StartsUp ==
  (/\ Cardinality(Served) > 1 /\ ~Collide /\ Served \cap Unreadable = {}
   /\ [](changes = 0))
    => <>(pc = "serve" \/ gave_up)

=============================================================================
