--------------------------- MODULE StoredFunction ---------------------------
(***************************************************************************)
(* The two forms a function of cmph is kept in: the dump, a stream that is *)
(* read in the order it was written, and the packed form, a block of       *)
(* memory that is searched by the offsets of its fields.  Both are the     *)
(* sequence of the fields that are written, each with its size in bytes.   *)
(*                                                                         *)
(* hash.c and jenkins_hash.c have one family of functions, of which a      *)
(* state is its seed; here the seed is what the function makes of the      *)
(* keys.  jenkins_hash itself stays out.                                   *)
(***************************************************************************)
EXTENDS Integers, Sequences, SequencesExt

Field(bytes, value) == [bytes |-> bytes, value |-> value]
Word(value) == Field(4, value)
Double(value) == Field(8, value)
Byte(value) == Field(1, value)

\* A table of entries of so many bytes each, copied at once.
Table(width, entries, table) == Field(width * entries, table)

SizeOf(fields) == FoldLeft(LAMBDA sum, f : sum + f.bytes, 0, fields)

\* The field that begins at an offset, and whether one does.
Begins(fields, offset, x) == SizeOf(SubSeq(fields, 1, x - 1)) = offset
At(fields, offset) == fields[CHOOSE x \in DOMAIN fields : Begins(fields, offset, x)].value

---------------------------------------------------------------------------
(* hash.c and jenkins_hash.c *)

NameOfJenkins == "jenkins"   \* cmph_hash_names[CMPH_HASH_JENKINS]
CMPH_HASH_JENKINS == 0

\* A state with its function type and its seed.
hash_state_new(values) == [hashfunc |-> CMPH_HASH_JENKINS, seed |-> values]
hash(state, key) == state.seed[key]
hash_get_type(state) == state.hashfunc

\* The name, ended by a zero, and the seed; the length comes first.
hash_state_dump(state) ==
  LET buf == <<Field(8, NameOfJenkins), Word(state.seed)>>
  IN  <<Word(SizeOf(buf)), Field(SizeOf(buf), buf)>>

hash_state_load(buf) ==
  IF buf[1].value = NameOfJenkins
    THEN [hashfunc |-> CMPH_HASH_JENKINS, seed |-> buf[2].value]
    ELSE <<"NULL">>

\* The type is packed outside.
hash_state_pack(state) == <<Word(state.seed)>>
hash_state_packed_size(hashfunc) == 4
hash_packed(seed, key) == seed[key]

PackedHash(state) == <<Word(hash_get_type(state))>> \o hash_state_pack(state)

---------------------------------------------------------------------------
(* cmph_structs.c *)

cmph_names == <<"bmz", "bmz8", "chm", "brz", "fch", "bdz", "bdz_ph", "chd_ph", "chd">>
LengthOf == [bmz |-> 3, bmz8 |-> 4, chm |-> 3, brz |-> 3, fch |-> 3, bdz |-> 3,
             bdz_ph |-> 6, chd_ph |-> 6, chd |-> 3]

__cmph_dump(mphf) == <<Field(LengthOf[mphf.algo] + 1, mphf.algo), Word(mphf.size)>>

\* Nothing is loaded of a stream that ends early or has another name.
__cmph_load(f) ==
  IF f # <<>> /\ f[1].value \in ToSet(cmph_names)
    THEN [algo |-> f[1].value, size |-> f[2].value] ELSE <<"NULL">>
=============================================================================
