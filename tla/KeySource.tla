----------------------------- MODULE KeySource -----------------------------
(***************************************************************************)
(* The key sources of cmph (the adapters of cmph/src/cmph.c).  A source is *)
(* a file of lines, a vector of pointers, a vector of byte strings that    *)
(* carry their lengths, or a vector of structs.  The keys of a file are    *)
(* counted first; then as many keys as there are are read, a chunk of the  *)
(* file or an element of the vector at a time.                             *)
(*                                                                         *)
(* Every algorithm rewinds the source and reads it again for each of its   *)
(* mappings; here the keys are read once and kept.                         *)
(***************************************************************************)
EXTENDS Integers, Sequences, SequencesExt, SetsInOrder

CONSTANTS
  Sources,   \* bound: the sources of the client
  BUFSIZ,    \* of the C library; a chunk has at most BUFSIZ - 1 characters
  NL         \* the end of a line

VARIABLES
  source,    \* the kind of the adapter, its data, and for structs their layout
  nkeys,     \* key_source->nkeys
  position,  \* of the file or the vector
  key,       \* what has been read of a line
  keys,      \* the keys that were read
  pc         \* "counting", "reading", then "config"

---------------------------------------------------------------------------
(* fgets and feof, of the C library. *)

\* The characters from the position on that fgets takes: up to the end of
\* the line, of the buffer or of the file.
Chunk(file, pos) ==
  LET rest == SubSeq(file, pos + 1, IF pos + BUFSIZ - 1 < Len(file) THEN pos + BUFSIZ - 1
                                                                    ELSE Len(file))
  IN  IF Contains(rest, NL) THEN SubSeq(rest, 1, SelectInSeq(rest, LAMBDA ch : ch = NL)) ELSE rest

EndsLine(chunk) == chunk # <<>> /\ Last(chunk) = NL

\* Only a read that looks past the last character meets the end of the file.
feof(chunk) == ~EndsLine(chunk) /\ Len(chunk) < BUFSIZ - 1

---------------------------------------------------------------------------
\* The elements of the vectors: a string, a length and the bytes behind it,
\* a part of a struct.
key_vector_read(vector, pos) == vector[pos + 1]

key_byte_vector_read(vector, pos) ==
  SubSeq(vector[pos + 1].bytes, 1, vector[pos + 1].keylen)

key_struct_vector_read(layout, memory, pos) ==
  LET offset == pos * layout.struct_size + layout.key_offset
  IN  SubSeq(memory, offset + 1, offset + layout.key_len)

Element(src, pos) ==
  CASE src.kind = "vector" -> key_vector_read(src.data, pos)
    [] src.kind = "byte_vector" -> key_byte_vector_read(src.data, pos)
    [] src.kind = "struct_vector" -> key_struct_vector_read(src.layout, src.data, pos)

\* What the client says of a vector is its number of keys.
Init ==
  /\ source \in Sources
  /\ nkeys = IF source.kind = "nlfile" THEN 0 ELSE source.nkeys
  /\ pc = IF source.kind = "nlfile" THEN "counting" ELSE "reading"
  /\ position = 0 /\ key = <<>> /\ keys = <<>>

\* One chunk; at the end of the file it is rewound.
count_nlfile_keys ==
  /\ pc = "counting"
  /\ LET chunk == Chunk(source.data, position)
     IN  IF feof(chunk)
           THEN pc' = "reading" /\ position' = 0 /\ UNCHANGED nkeys
           ELSE /\ position' = position + Len(chunk) /\ pc' = pc
                /\ nkeys' = IF EndsLine(chunk) THEN nkeys + 1 ELSE nkeys
  /\ UNCHANGED <<source, key, keys>>

\* A chunk of a key: its end without the end of the line, or with a failure
\* what there is of it.
key_nlfile_read ==
  /\ pc = "reading" /\ source.kind = "nlfile" /\ Len(keys) < nkeys
  /\ LET chunk == Chunk(source.data, position)
     IN  /\ position' = position + Len(chunk)
         /\ IF feof(chunk) THEN keys' = Append(keys, key) /\ key' = <<>>
            ELSE IF EndsLine(chunk)
            THEN keys' = Append(keys, key \o Front(chunk)) /\ key' = <<>>
            ELSE key' = key \o chunk /\ UNCHANGED keys
  /\ UNCHANGED <<source, nkeys, pc>>

ReadElement ==
  /\ pc = "reading" /\ source.kind # "nlfile" /\ Len(keys) < nkeys
  /\ position' = position + 1 /\ keys' = Append(keys, Element(source, position))
  /\ UNCHANGED <<source, nkeys, key, pc>>

\* The source is left as it was found.
Rewind ==
  /\ pc = "reading" /\ Len(keys) = nkeys
  /\ pc' = "config" /\ position' = 0
  /\ UNCHANGED <<source, nkeys, key, keys>>

Reads == count_nlfile_keys \/ key_nlfile_read \/ ReadElement \/ Rewind

---------------------------------------------------------------------------
\* The complete lines of a file.
Lines(file) ==
  LET ends == Ascending({x \in 1 .. Len(file) : file[x] = NL})
  IN  [l \in 1 .. Len(ends) |-> SubSeq(file, (IF l = 1 THEN 0 ELSE ends[l - 1]) + 1, ends[l] - 1)]

\* The keys of a source, as its client sees them.
Contents(src) == IF src.kind = "nlfile" THEN Lines(src.data) ELSE src.keys
=============================================================================
