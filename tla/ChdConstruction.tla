-------------------------- MODULE ChdConstruction --------------------------
(***************************************************************************)
(* CHD and CHD_PH on their own: one call of cmph_new over every            *)
(* configuration.                                                          *)
(***************************************************************************)
EXTENDS Chd

CONSTANTS
  KeySources,       \* bound: the sequences of keys
  Configurations    \* bound: algo, c, b and keys_per_bin

\* With no key at all chd_ph_ordering writes behind its sorted_lists; and
\* half of the bins at least are to be used, and there is a prime number of
\* them.
ASSUME ConstructionAssumption ==
  /\ \A conf \in Configurations : /\ conf.algo \in {"chd", "chd_ph"} /\ conf.c \in Nat
                                  /\ conf.b \in 1 .. 14 /\ conf.keys_per_bin \in 1 .. 127
  /\ \A ks \in KeySources : /\ ks \in Seq(ToSet(ks)) /\ ks # <<>> /\ MaxProbes(Len(ks)) \in Nat
                            /\ Seeds(ks) \subseteq [ToSet(ks) -> Nat \X Nat \X Nat]
                            /\ \E p \in Primes : p > 2 * Len(ks)

\* The configuration has been set up.
Configured ==
  /\ keys \in KeySources
  /\ \E conf \in Configurations :
       /\ algo = conf.algo /\ c = conf.c
       /\ b = conf.b /\ keys_per_bin = conf.keys_per_bin
  /\ pc = "new" /\ iterations = 0 /\ i = 0 /\ j = 0 /\ mphf = <<>>
  /\ Init

Spec == Configured /\ [][chd_new]_vars

\* johnny_setup_files calls cmph_new and waits for it: the search goes on,
\* and what is found is made a function.
FairSpec == Spec /\ WF_vars(Searches) /\ WF_pc(MakesTables)

\* What cmph_new has returned: the size of the function and its numbers.
Returned ==
  CASE pc = "done" -> [size |-> mphf.size, number |-> [key \in ToSet(keys) |-> NumberOf(key)]]
    [] pc \in {"failed", "aborted"} -> [no |-> "NULL"]
    [] OTHER -> [no |-> "pending"]

---------------------------------------------------------------------------
(* Properties. *)

\* CHD makes a minimal perfect hash function of the keys, CHD_PH one with
\* as many keys for a number as a bin may have; neither makes one of a
\* single key or of keys that repeat, and both always come to an end.
\* (FindsWhatIsPlaced: the numbers are what the stored function finds.)
Hash == INSTANCE PerfectHash WITH
  LeastKeys <- 2,
  minimal <- algo = "chd",
  keys_per_number <- keys_per_bin,
  result <- Returned
ImplementsPerfectHash == Hash!Spec
=============================================================================
