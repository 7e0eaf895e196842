---------------------------- MODULE PerfectHash ----------------------------
(***************************************************************************)
(* What cmph_new promises of a perfect hash function (cmph.h): for keys    *)
(* that are all different it makes a function that numbers them from 0     *)
(* below its size, or none.  No two keys have the same number, but for a   *)
(* function that was asked to give one to several keys (keys_per_bin).     *)
(* The size of a minimal function is the number of the keys.  Of keys that *)
(* repeat it makes none.  johnny_setup.c relies on it to give every file a *)
(* place of its own in an array.                                           *)
(***************************************************************************)
EXTENDS Naturals, Sequences, SequencesExt, FiniteSets, FiniteSetsExt

CONSTANTS
  KeySources,   \* the sequences of keys a source may hold
  LeastKeys     \* fewer keys than these get no function

VARIABLES
  keys,         \* the key source
  minimal,      \* whether the algorithm makes minimal functions
  keys_per_number,   \* how many keys may have the same number
  result        \* Pending, Null or the function on the keys

Pending == [no |-> "pending"]
Null == [no |-> "NULL"]

\* A function with its size, which gives no number to more keys than may
\* have it.
IsNumbering(ks, r, most) ==
  /\ r.number \in [ToSet(ks) -> 0 .. r.size - 1]
  /\ \A a \in ToSet(ks) : Quantify(ToSet(ks), LAMBDA b : r.number[b] = r.number[a]) <= most

Init ==
  /\ keys \in KeySources /\ minimal \in BOOLEAN /\ keys_per_number \in Nat \ {0}
  /\ result = Pending

\* The algorithm is chosen.
Configure ==
  /\ result = Pending /\ minimal' \in BOOLEAN /\ keys_per_number' \in Nat \ {0}
  /\ UNCHANGED <<keys, result>>

GiveUp == result = Pending /\ result' = Null /\ UNCHANGED <<keys, minimal, keys_per_number>>

Succeed ==
  /\ result = Pending
  /\ IsInjective(keys) /\ Len(keys) >= LeastKeys
  /\ result' \notin {Pending, Null}
  /\ IsNumbering(keys, result', keys_per_number)
  /\ (minimal => result'.size = Len(keys))
  /\ UNCHANGED <<keys, minimal, keys_per_number>>

Ends == GiveUp \/ Succeed

vars == <<keys, minimal, keys_per_number, result>>

\* The function stays what it is.
Safety == Init /\ [][Configure \/ Ends]_vars

\* A call of cmph_new comes to an end.
Spec == Safety /\ WF_vars(Ends)
=============================================================================
