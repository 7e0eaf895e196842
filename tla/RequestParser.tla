---------------------------- MODULE RequestParser ----------------------------
(***************************************************************************)
(* johnny_finds_filename and johnny_handles_requests (johnny_worker.c) on  *)
(* one connection: the scanner that cuts the file names out of a stream of *)
(* pipelined requests, of which recv returns any non-empty piece at a      *)
(* time.  Between two pieces it keeps only ctx->prefix_counter: 0 to 4     *)
(* bytes of CR LF CR LF matched, then 5 to 9 for the bytes of "GET /"      *)
(* skipped.                                                                *)
(*                                                                         *)
(* A request is five bytes of method, the file name, a space, and the rest *)
(* up to and including the empty line.                                     *)
(***************************************************************************)
EXTENDS Integers, Sequences, SequencesExt, FiniteSetsExt

CONSTANTS
  Names,             \* file names: sequences of bytes
  Rests,             \* what follows a file name and its space
  MaxStream,         \* bound: requests in the stream
  JOHNNY_BUFFER_SIZE

Delimiter == <<"CR", "LF", "CR", "LF">>
Method    == <<"G", "E", "T", "SP", "/">>

\* No rest contains the empty line before its end, and all have it there.
EndsIn(rest, i) == SubSeq(rest, i - 3, i) = Delimiter

ASSUME ParserAssumption ==
  /\ \A name \in Names : name \in Seq(STRING) /\ ~Contains(name, "SP")
  /\ \A rest \in Rests : rest \in Seq(STRING) /\ Len(rest) >= 4
                         /\ \A i \in 4 .. Len(rest) : EndsIn(rest, i) <=> i = Len(rest)
  /\ MaxStream \in Nat
  /\ JOHNNY_BUFFER_SIZE \in Nat \ {0}

VARIABLES
  requests,       \* what the client sends, as <<file name, rest>> pairs
  received,       \* how many bytes of it recv has returned
  buffer,         \* [0 .. JOHNNY_BUFFER_SIZE - 1 -> byte, or "?" once used up]
  buffer_offset, buffer_size, prefix_counter,  \* fields of ctx
  bytes_parsed,   \* the loop variable of johnny_finds_filename
  pc,             \* "recv" or "scan"
  served,         \* the file names handed to johnny_sends_response
  cut             \* the requests whose file name arrived in pieces

ctx == <<buffer_offset, buffer_size, prefix_counter>>
vars == <<requests, received, buffer, ctx, bytes_parsed, pc, served, cut>>

BytesOf(r) == Method \o r[1] \o <<"SP">> \o r[2]

\* The bytes of the first i requests.
Stream(i) == FlattenSeq([j \in 1 .. i |-> BytesOf(requests[j])])
stream == Stream(Len(requests))

\* Positions in the stream: the first byte of file name i (of its space, if
\* it is empty), and its space.
NameFirst(i) == Len(Stream(i - 1)) + Len(Method) + 1
NameEnd(i) == NameFirst(i) + Len(requests[i][1])

TypeOK ==
  /\ requests \in BoundedSeq(Names \X Rests, MaxStream)
  /\ received \in 0 .. Len(stream)
  /\ DOMAIN buffer = 0 .. JOHNNY_BUFFER_SIZE - 1
  /\ buffer_offset \in 0 .. JOHNNY_BUFFER_SIZE
  /\ buffer_size \in 0 .. JOHNNY_BUFFER_SIZE
  /\ prefix_counter \in 0 .. 9
  /\ bytes_parsed \in 0 .. JOHNNY_BUFFER_SIZE
  /\ pc \in {"recv", "scan"}
  /\ Len(served) <= Len(requests)
  /\ cut \subseteq 1 .. Len(requests)

Blank == [i \in 0 .. JOHNNY_BUFFER_SIZE - 1 |-> "?"]

Init ==
  /\ requests \in BoundedSeq(Names \X Rests, MaxStream)
  /\ received = 0
  /\ buffer = Blank
  /\ buffer_offset = 0
  /\ buffer_size = 0
  /\ prefix_counter = 4
  /\ bytes_parsed = 0
  /\ pc = "recv"
  /\ served = <<>>
  /\ cut = {}

recv ==
  /\ pc = "recv"
  /\ \E n \in 1 .. Min({JOHNNY_BUFFER_SIZE - buffer_offset, Len(stream) - received}) :
       /\ received' = received + n
       /\ buffer_size' = n
       /\ buffer' = [i \in DOMAIN buffer |->
            IF i \in buffer_offset .. buffer_offset + n - 1
            THEN stream[received + 1 + i - buffer_offset]
            ELSE buffer[i]]
       /\ cut' = cut \cup {i \in DOMAIN requests :
                             received + n \in NameFirst(i) .. NameEnd(i) - 1}
  /\ bytes_parsed' = buffer_offset
  /\ pc' = "scan"
  /\ UNCHANGED <<requests, buffer_offset, prefix_counter, served>>

\* The buffer is used up: the next recv fills it from its start.
UsedUp ==
  /\ buffer_offset' = 0
  /\ buffer_size' = 0
  /\ pc' = "recv"
  /\ UNCHANGED <<requests, received, bytes_parsed, served, cut>>

\* Where the file name starts, once the rest of the method is skipped.
NameStart == bytes_parsed + 9 - prefix_counter

AtName == pc = "scan" /\ bytes_parsed < buffer_size /\ prefix_counter >= 4

\* Mutants: what is left of the method is added to it, or forgotten.
MethodCutTheOtherWay ==
  /\ AtName
  /\ NameStart >= buffer_size
  /\ prefix_counter' = 9 + (NameStart - buffer_size)
  /\ buffer' = Blank
  /\ UsedUp

MethodCutForgotten ==
  /\ AtName
  /\ NameStart >= buffer_size
  /\ prefix_counter' = 9
  /\ buffer' = Blank
  /\ UsedUp

\* "end of buffer between end of http request and start of file name"
MethodCut ==
  /\ AtName
  /\ NameStart >= buffer_size
  /\ prefix_counter' = 9 - (NameStart - buffer_size)
  /\ buffer' = Blank
  /\ UsedUp

\* "partial file name": it is moved to the start of the buffer.
NameCut ==
  /\ AtName
  /\ NameStart < buffer_size
  /\ \A i \in NameStart .. buffer_size - 1 : buffer[i] # "SP"
  /\ prefix_counter' = 9
  /\ buffer' = [i \in DOMAIN buffer |->
       IF i < buffer_size - NameStart THEN buffer[NameStart + i] ELSE "?"]
  /\ UsedUp

\* "filename found": it is terminated in place and its response is sent.
NameFound ==
  /\ AtName
  /\ \E end \in NameStart .. buffer_size - 1 :
       /\ buffer[end] = "SP"
       /\ \A i \in NameStart .. end - 1 : buffer[i] # "SP"
       /\ served' = Append(served, [i \in 1 .. end - NameStart |-> buffer[NameStart + i - 1]])
       /\ buffer' = [buffer EXCEPT ![end] = "NUL"]
       /\ buffer_offset' = end + 1
       /\ bytes_parsed' = end + 1
  /\ prefix_counter' = 0
  /\ UNCHANGED <<requests, received, buffer_size, pc, cut>>

\* Mutant: a byte that does not match leaves prefix_counter.
MatchDelimiterAnywhere ==
  /\ pc = "scan"
  /\ bytes_parsed < buffer_size
  /\ prefix_counter < 4
  /\ prefix_counter' = IF buffer[bytes_parsed] = Delimiter[prefix_counter + 1]
                       THEN prefix_counter + 1
                       ELSE prefix_counter
  /\ bytes_parsed' = bytes_parsed + 1
  /\ UNCHANGED <<requests, received, buffer, buffer_offset, buffer_size, pc, served, cut>>

MatchDelimiter ==
  /\ pc = "scan"
  /\ bytes_parsed < buffer_size
  /\ prefix_counter < 4
  /\ prefix_counter' = IF buffer[bytes_parsed] = Delimiter[prefix_counter + 1]
                       THEN prefix_counter + 1
                       ELSE 0
  /\ bytes_parsed' = bytes_parsed + 1
  /\ UNCHANGED <<requests, received, buffer, buffer_offset, buffer_size, pc, served, cut>>

\* "no more file names found"
NoMoreNames ==
  /\ pc = "scan"
  /\ bytes_parsed >= buffer_size
  /\ buffer' = Blank
  /\ UsedUp
  /\ UNCHANGED prefix_counter

Next ==
  \/ recv
  \/ MethodCut \/ NameCut \/ NameFound \/ MatchDelimiter \/ NoMoreNames

Spec == Init /\ [][Next]_vars

-----------------------------------------------------------------------------

\* How much of the stream the scanner has seen.
Consumed == received - (IF pc = "scan" THEN buffer_size - bytes_parsed ELSE 0)

(***************************************************************************)
(* Wherever the stream is cut, the scanner stays in step with it: the file *)
(* names served are as many as the stream seen so far has, and             *)
(* prefix_counter says where between the last of them and the next the     *)
(* stream stands.                                                          *)
(***************************************************************************)
InStep ==
  LET n == Len(served)
      seen == SubSeq(stream, IF n = 0 THEN 1 ELSE NameEnd(n) + 1, Consumed)
      start == Len(Stream(n))
  IN  /\ n <= Len(requests)
      /\ n > 0 => NameEnd(n) <= Consumed
      /\ n < Len(requests) => Consumed < NameEnd(n + 1)
      /\ prefix_counter = 9 => Consumed >= start + Len(Method)
      /\ prefix_counter \in 4 .. 8 => Consumed = start + prefix_counter - 4
      /\ prefix_counter < 4 =>
           /\ Consumed < start
           /\ prefix_counter =
                Max({k \in 0 .. 3 : IsSuffix(SubSeq(Delimiter, 1, k), seen)})

(***************************************************************************)
(* A file name that arrives in one piece is served as it was sent; one     *)
(* that arrives in pieces is served without all its pieces but the last.   *)
(***************************************************************************)
ServedAsSent ==
  \A i \in DOMAIN served :
    /\ i \notin cut => served[i] = requests[i][1]
    /\ i \in cut => IsStrictSuffix(served[i], requests[i][1])

(***************************************************************************)
(* "partial file name": the part of the file name that has been received   *)
(* is moved to the start of the buffer so that the name is found whole     *)
(* when its end arrives.                                                   *)
(***************************************************************************)
PartialNamesAreKept ==
  \A i \in DOMAIN served :
    Len(requests[i][1]) < JOHNNY_BUFFER_SIZE => served[i] = requests[i][1]

=============================================================================
