------------------------- MODULE RequestParserProofs -------------------------
(***************************************************************************)
(* Theorems about RequestParser for every set of names and rests, every    *)
(* stream of them and every size of the buffer: wherever recv cuts the     *)
(* stream, the scanner stays in step with it.  It needs one thing of the   *)
(* requests that the format of a request does not say: a byte that does    *)
(* not match sends the scanner back to the start of the empty line even if *)
(* it is a CR, so that no CR may follow another.                           *)
(***************************************************************************)
EXTENDS RequestParser, InductionLemmas

NoDoubleCR ==
  \A rest \in Rests : \A i \in 1 .. Len(rest) - 1 : ~(rest[i] = "CR" /\ rest[i + 1] = "CR")

-----------------------------------------------------------------------------
(* The stream. *)

\* Bytes, of which the provers need to know only which differ.
Bytes == STRING \cup {"G", "E", "T", "SP", "/", "CR", "LF"}

N == Len(requests)
Name(i) == requests[i][1]
Rest(i) == requests[i][2]
Begin(i) == Len(Stream(i))   \* the last byte of request i

Requested == requests \in BoundedSeq(Names \X Rests, MaxStream)

LEMMA RequestTypes ==
  ASSUME Requested
  PROVE  /\ N \in Nat /\ DOMAIN requests = 1 .. N
         /\ \A i \in 1 .. N : /\ Name(i) \in Names /\ Rest(i) \in Rests
                              /\ Name(i) \in Seq(Bytes) /\ Rest(i) \in Seq(Bytes)
<1>1. PICK m \in 0 .. MaxStream : requests \in [1 .. m -> Names \X Rests]
  BY DEF Requested, BoundedSeq, SeqOf
<1>2. m \in Nat
  BY <1>1, ParserAssumption
<1>3. N = m
  BY <1>1, <1>2 DEF N
<1>4. \A name \in Names : name \in Seq(Bytes)
  BY ParserAssumption, SeqMonotonic DEF Bytes
<1>5. \A rest \in Rests : rest \in Seq(Bytes)
  BY ParserAssumption, SeqMonotonic DEF Bytes
<1>6. \A i \in 1 .. N : Name(i) \in Names /\ Rest(i) \in Rests
  BY <1>1, <1>3 DEF Name, Rest
<1> QED BY <1>1, <1>2, <1>3, <1>4, <1>5, <1>6

\* A sequence joined of two, by its elements.
Joined(w, s, t) ==
  /\ w \in Seq(Bytes) /\ Len(w) = Len(s) + Len(t)
  /\ \A j \in 1 .. Len(s) : w[j] = s[j]
  /\ \A j \in 1 .. Len(t) : w[Len(s) + j] = t[j]

LEMMA JoinIsJoined ==
  ASSUME NEW s \in Seq(Bytes), NEW t \in Seq(Bytes), NEW w, IsJoin(w, s, t)
  PROVE  Joined(w, s, t)
BY JoinElements DEF Joined

LEMMA FourJoined ==
  ASSUME NEW m \in Seq(Bytes), NEW p \in Seq(Bytes), NEW s \in Seq(Bytes), NEW r \in Seq(Bytes),
         NEW u, NEW v, NEW w, IsJoin(u, m, p), IsJoin(v, u, s), IsJoin(w, v, r),
         Len(m) = 5, Len(s) = 1
  PROVE  /\ w \in Seq(Bytes) /\ Len(w) = 6 + Len(p) + Len(r)
         /\ \A j \in 1 .. Len(p) : w[5 + j] = p[j]
         /\ w[6 + Len(p)] = s[1]
         /\ \A j \in 1 .. Len(r) : w[6 + Len(p) + j] = r[j]
<1>1. Len(p) \in Nat /\ Len(r) \in Nat
  BY LenProperties
<1>2. Joined(u, m, p)
  BY JoinIsJoined
<1>3. u \in Seq(Bytes)
  BY <1>2 DEF Joined
<1>4. Joined(v, u, s)
  BY <1>3, JoinIsJoined
<1>5. v \in Seq(Bytes)
  BY <1>4 DEF Joined
<1>6. Joined(w, v, r)
  BY <1>5, JoinIsJoined
<1>7. Len(u) = 5 + Len(p) /\ Len(v) = 6 + Len(p) /\ w \in Seq(Bytes) /\ Len(w) = 6 + Len(p) + Len(r)
  BY <1>1, <1>2, <1>4, <1>6 DEF Joined
<1>8. \A j \in 1 .. Len(p) : w[5 + j] = p[j]
  <2> SUFFICES ASSUME NEW j \in 1 .. Len(p) PROVE w[5 + j] = p[j]
    OBVIOUS
  <2>1. 5 + j \in 1 .. Len(u) /\ 5 + j \in 1 .. Len(v)
    BY <1>1, <1>7
  <2>2. u[5 + j] = p[j]
    BY <1>2 DEF Joined
  <2>3. v[5 + j] = u[5 + j] /\ w[5 + j] = v[5 + j]
    BY <1>4, <1>6, <2>1 DEF Joined
  <2> QED BY <2>2, <2>3
<1>9. w[6 + Len(p)] = s[1]
  <2>1. 6 + Len(p) \in 1 .. Len(v) /\ 1 \in 1 .. Len(s) /\ Len(u) + 1 = 6 + Len(p)
    BY <1>1, <1>7
  <2>2. v[Len(u) + 1] = s[1]
    BY <1>4, <2>1 DEF Joined
  <2>3. w[6 + Len(p)] = v[6 + Len(p)]
    BY <1>6, <2>1 DEF Joined
  <2> QED BY <2>1, <2>2, <2>3
<1>10. \A j \in 1 .. Len(r) : w[6 + Len(p) + j] = r[j]
  BY <1>6, <1>7 DEF Joined
<1> QED BY <1>7, <1>8, <1>9, <1>10

\* Where a request has its name, its space and its rest.
IsRequest(b, i) ==
  /\ b \in Seq(Bytes) /\ Len(b) = 6 + Len(Name(i)) + Len(Rest(i))
  /\ \A j \in 1 .. Len(Name(i)) : b[5 + j] = Name(i)[j]
  /\ b[6 + Len(Name(i))] = "SP"
  /\ \A j \in 1 .. Len(Rest(i)) : b[6 + Len(Name(i)) + j] = Rest(i)[j]

LEMMA BytesOfARequest ==
  ASSUME Requested, NEW i \in 1 .. N
  PROVE  IsRequest(BytesOf(requests[i]), i)
<1> DEFINE p == Name(i)
           r == Rest(i)
           m == Method
           s == <<"SP">>
<1>1. /\ p \in Seq(Bytes) /\ r \in Seq(Bytes) /\ Len(p) \in Nat /\ Len(r) \in Nat
  BY RequestTypes
<1>2. m \in Seq(Bytes) /\ Len(m) = 5 /\ s \in Seq(Bytes) /\ Len(s) = 1 /\ s[1] = "SP"
  <2>1. {"G", "E", "T", "SP", "/"} \subseteq Bytes
    BY DEF Bytes
  <2>2. \A B, v, w, x, y, z : {v, w, x, y, z} \subseteq B => <<v, w, x, y, z>> \in Seq(B) /\ <<y>> \in Seq(B)
    OBVIOUS
  <2> QED BY <2>1, <2>2 DEF Method
<1>3. BytesOf(requests[i]) = ((m \o p) \o s) \o r
  BY DEF BytesOf, Name, Rest
<1> HIDE DEF p, r, m, s
<1> DEFINE u == m \o p
           v == u \o s
           w == v \o r
<1>4. IsJoin(u, m, p) /\ IsJoin(v, u, s) /\ IsJoin(w, v, r)
  BY DEF IsJoin
<1>5. w = BytesOf(requests[i])
  BY <1>3 DEF w, v, u, p, r, m, s
<1> HIDE DEF u, v, w
<1>6. /\ w \in Seq(Bytes) /\ Len(w) = 6 + Len(p) + Len(r)
      /\ \A j \in 1 .. Len(p) : w[5 + j] = p[j]
      /\ w[6 + Len(p)] = "SP"
      /\ \A j \in 1 .. Len(r) : w[6 + Len(p) + j] = r[j]
  BY <1>1, <1>2, <1>4, FourJoined
<1> QED BY <1>5, <1>6 DEF p, r, IsRequest

LEMMA StreamUnfolds ==
  ASSUME Requested
  PROVE  /\ Stream(0) = <<>>
         /\ \A i \in 0 .. N : Stream(i) \in Seq(Bytes)
         /\ \A i \in 1 .. N : IsJoin(Stream(i), Stream(i - 1), BytesOf(requests[i]))
<1> DEFINE parts(i) == [j \in 1 .. i |-> BytesOf(requests[j])]
<1>1. N \in Nat /\ \A j \in 1 .. N : BytesOf(requests[j]) \in Seq(Bytes)
  BY RequestTypes, BytesOfARequest DEF IsRequest
<1>2. \A i \in 0 .. N : parts(i) \in Seq(Seq(Bytes)) /\ Len(parts(i)) = i
  <2> SUFFICES ASSUME NEW i \in 0 .. N PROVE parts(i) \in [1 .. i -> Seq(Bytes)] /\ i \in Nat
    OBVIOUS
  <2> QED BY <1>1
<1>3. \A i \in 0 .. N : Stream(i) = FlattenSeq(parts(i))
  BY DEF Stream
<1>4. Stream(0) = <<>>
  <2>1. parts(0) = <<>> /\ Len(parts(0)) = 0
    BY <1>1, <1>2, EmptySeq, SeqEqual
  <2>2. FlattenSeq(parts(0)) = <<>>
    <3> HIDE DEF parts
    <3> QED BY <2>1 DEF FlattenSeq
  <2>3. 0 \in 0 .. N
    BY <1>1
  <2> QED BY <1>3, <2>2, <2>3
<1>5. ASSUME NEW i \in 1 .. N
      PROVE  Stream(i) \in Seq(Bytes) /\ IsJoin(Stream(i), Stream(i - 1), BytesOf(requests[i]))
  <2>1. /\ parts(i - 1) \in Seq(Seq(Bytes)) /\ parts(i) \in Seq(Seq(Bytes))
        /\ Len(parts(i)) = i /\ Len(parts(i - 1)) = i - 1
        /\ \A j \in 1 .. i - 1 : parts(i)[j] = parts(i - 1)[j]
        /\ parts(i)[i] = BytesOf(requests[i])
    BY <1>1, <1>2
  <2> HIDE DEF parts
  <2>2. Len(parts(i)) = Len(parts(i - 1)) + 1
    BY <2>1
  <2>3. /\ FlattenSeq(parts(i)) \in Seq(Bytes)
        /\ IsJoin(FlattenSeq(parts(i)), FlattenSeq(parts(i - 1)), parts(i)[Len(parts(i))])
    BY <2>1, <2>2, FlattenAppends DEF IsJoin
  <2>4. Stream(i) = FlattenSeq(parts(i)) /\ Stream(i - 1) = FlattenSeq(parts(i - 1))
    BY <1>1, <1>3
  <2> QED BY <2>1, <2>3, <2>4
<1>6. \A i \in 0 .. N : i = 0 \/ i \in 1 .. N
  BY <1>1
<1> QED BY <1>4, <1>5, <1>6, EmptySeq

\* Where in the stream the requests have their bytes.
Positions ==
  /\ N \in Nat /\ stream \in Seq(Bytes) /\ Len(stream) = Begin(N)
  /\ Begin(0) = 0 /\ \A i \in 0 .. N : Begin(i) \in Nat
  /\ \A i \in 1 .. N : /\ Len(Name(i)) \in Nat /\ Len(Rest(i)) \in Nat
                       /\ NameFirst(i) = Begin(i - 1) + 6
                       /\ NameEnd(i) = Begin(i - 1) + 6 + Len(Name(i))
                       /\ Begin(i) = NameEnd(i) + Len(Rest(i))
  /\ \A i, k \in 0 .. N : i <= k => Begin(i) <= Begin(k)

Contents ==
  /\ \A i \in 1 .. N : \A j \in 1 .. Len(Name(i)) : stream[Begin(i - 1) + 5 + j] = Name(i)[j]
  /\ \A i \in 1 .. N : stream[NameEnd(i)] = "SP"
  /\ \A i \in 1 .. N : \A j \in 1 .. Len(Rest(i)) : stream[NameEnd(i) + j] = Rest(i)[j]

LEMMA StreamPositions ==
  ASSUME Requested
  PROVE  Positions /\ Contents
<1> DEFINE bytes(i) == BytesOf(requests[i])
<1>1. /\ N \in Nat /\ \A i \in 0 .. N : Stream(i) \in Seq(Bytes)
      /\ Begin(0) = 0 /\ \A i \in 0 .. N : Begin(i) \in Nat
  BY RequestTypes, StreamUnfolds DEF Begin
<1>2. \A i \in 1 .. N : IsRequest(bytes(i), i) /\ bytes(i) \in Seq(Bytes)
  BY BytesOfARequest DEF IsRequest
<1>3. \A i \in 1 .. N : IsJoin(Stream(i), Stream(i - 1), bytes(i))
  BY StreamUnfolds
<1> HIDE DEF bytes
<1>4. \A i \in 1 .. N : i - 1 \in 0 .. N /\ i \in 0 .. N
  BY <1>1
<1>5. \A i \in 1 .. N : Joined(Stream(i), Stream(i - 1), bytes(i))
  BY <1>1, <1>2, <1>3, <1>4, JoinIsJoined
<1>6. \A i \in 1 .. N : Len(Name(i)) \in Nat /\ Len(Rest(i)) \in Nat
  BY RequestTypes
<1>7. \A i \in 1 .. N : /\ NameFirst(i) = Begin(i - 1) + 6
                       /\ NameEnd(i) = Begin(i - 1) + 6 + Len(Name(i))
  <2>1. Len(Method) = 5
    BY DEF Method
  <2> QED BY <1>1, <1>4, <1>6, <2>1 DEF NameFirst, NameEnd, Begin, Name
<1>8. \A i \in 1 .. N : Begin(i) = Begin(i - 1) + Len(bytes(i))
  BY <1>5 DEF Joined, Begin
<1>9. \A i \in 1 .. N : Begin(i) = NameEnd(i) + Len(Rest(i))
  <2> SUFFICES ASSUME NEW i \in 1 .. N PROVE Begin(i) = NameEnd(i) + Len(Rest(i))
    OBVIOUS
  <2>1. Begin(i - 1) \in Nat /\ Len(Name(i)) \in Nat /\ Len(Rest(i)) \in Nat
    BY <1>1, <1>4, <1>6
  <2>2. Len(bytes(i)) = 6 + Len(Name(i)) + Len(Rest(i))
    BY <1>2 DEF IsRequest
  <2>3. NameEnd(i) = Begin(i - 1) + 6 + Len(Name(i)) /\ Begin(i) = Begin(i - 1) + Len(bytes(i))
    BY <1>7, <1>8
  <2> QED BY <2>1, <2>2, <2>3
\* Each stream is the start of the longer ones.
<1>10. ASSUME NEW i \in 0 .. N, NEW k \in 0 .. N, i <= k
       PROVE  Begin(i) <= Begin(k) /\ \A j \in 1 .. Begin(i) : Stream(k)[j] = Stream(i)[j]
  <2> DEFINE S == {d \in Nat : i + d <= N => /\ Begin(i) <= Begin(i + d)
                                             /\ \A j \in 1 .. Begin(i) : Stream(i + d)[j] = Stream(i)[j]}
  <2>1. 0 \in S
    BY <1>1
  <2>2. ASSUME NEW d \in Nat, d \in S PROVE d + 1 \in S
    <3> SUFFICES ASSUME i + (d + 1) <= N
                 PROVE  /\ Begin(i) <= Begin(i + (d + 1))
                        /\ \A j \in 1 .. Begin(i) : Stream(i + (d + 1))[j] = Stream(i)[j]
      OBVIOUS
    <3>1. PICK e : e = i + (d + 1)
      OBVIOUS
    <3>2. e \in 1 .. N /\ e - 1 = i + d /\ i + d <= N
      BY <1>1, <3>1
    <3>3. Begin(i) <= Begin(e - 1) /\ \A j \in 1 .. Begin(i) : Stream(e - 1)[j] = Stream(i)[j]
      BY <2>2, <3>2
    <3>4. Joined(Stream(e), Stream(e - 1), bytes(e)) /\ Len(bytes(e)) \in Nat
      <4>1. Joined(Stream(e), Stream(e - 1), bytes(e)) /\ IsRequest(bytes(e), e)
            /\ Len(Name(e)) \in Nat /\ Len(Rest(e)) \in Nat
        BY <1>2, <1>5, <1>6, <3>2
      <4> QED BY <4>1 DEF IsRequest
    <3>5. Begin(i) <= Begin(e)
      BY <1>1, <1>4, <1>8, <3>2, <3>3, <3>4
    <3>6. ASSUME NEW j \in 1 .. Begin(i) PROVE Stream(e)[j] = Stream(i)[j]
      <4>1. j \in 1 .. Begin(e - 1)
        BY <1>1, <1>4, <3>2, <3>3
      <4>2. Stream(e)[j] = Stream(e - 1)[j]
        BY <3>4, <4>1 DEF Joined, Begin
      <4> QED BY <3>3, <4>2
    <3> QED BY <3>1, <3>5, <3>6
  <2>3. k - i \in Nat /\ i + (k - i) = k /\ k <= N
    BY <1>1, <1>10
  <2>4. k - i \in S
    <3>1. \A n \in Nat : n \in S
      <4> HIDE DEF S
      <4> QED BY <2>1, <2>2, SetInduction
    <3> QED BY <2>3, <3>1
  <2> QED BY <2>3, <2>4
<1>11. N \in 0 .. N /\ stream = Stream(N)
  BY <1>1 DEF stream, N
<1>12. \A i \in 1 .. N : \A j \in 1 .. Len(bytes(i)) : stream[Begin(i - 1) + j] = bytes(i)[j]
  <2> SUFFICES ASSUME NEW i \in 1 .. N, NEW j \in 1 .. Len(bytes(i))
               PROVE  stream[Begin(i - 1) + j] = bytes(i)[j]
    OBVIOUS
  <2>1. Stream(i)[Begin(i - 1) + j] = bytes(i)[j]
    BY <1>5 DEF Joined, Begin
  <2>2. i \in 0 .. N /\ i <= N /\ Len(bytes(i)) \in Nat
    <3>1. IsRequest(bytes(i), i) /\ Len(Name(i)) \in Nat /\ Len(Rest(i)) \in Nat
      BY <1>2, <1>6
    <3> QED BY <1>1, <3>1 DEF IsRequest
  <2>3. Begin(i - 1) + j \in 1 .. Begin(i)
    BY <1>1, <1>4, <1>8, <2>2
  <2> QED BY <1>10, <1>11, <2>1, <2>2, <2>3
<1>13. Positions
  <2>1. Len(stream) = Begin(N) /\ stream \in Seq(Bytes)
    BY <1>1, <1>11 DEF Begin
  <2> QED BY <1>1, <1>6, <1>7, <1>9, <1>10, <2>1 DEF Positions
<1>14. Contents
  <2> SUFFICES ASSUME NEW i \in 1 .. N
               PROVE  /\ \A j \in 1 .. Len(Name(i)) : stream[Begin(i - 1) + 5 + j] = Name(i)[j]
                      /\ stream[NameEnd(i)] = "SP"
                      /\ \A j \in 1 .. Len(Rest(i)) : stream[NameEnd(i) + j] = Rest(i)[j]
    BY DEF Contents
  <2> DEFINE b == Begin(i - 1)
  <2>0. IsRequest(bytes(i), i)
    BY <1>2
  <2>1. b \in Nat /\ Len(Name(i)) \in Nat /\ Len(Rest(i)) \in Nat
    BY <1>1, <1>4, <1>6
  <2>2. \A j \in 1 .. 6 + Len(Name(i)) + Len(Rest(i)) : stream[b + j] = bytes(i)[j]
    BY <1>12, <2>0 DEF IsRequest
  <2>3. NameEnd(i) = b + 6 + Len(Name(i))
    BY <1>7
  <2> HIDE DEF b
  <2>4. ASSUME NEW j \in 1 .. Len(Name(i)) PROVE stream[b + 5 + j] = Name(i)[j]
    <3>1. 5 + j \in 1 .. 6 + Len(Name(i)) + Len(Rest(i)) /\ b + 5 + j = b + (5 + j)
      BY <2>1
    <3>2. stream[b + (5 + j)] = bytes(i)[5 + j]
      BY <2>2, <3>1
    <3>3. bytes(i)[5 + j] = Name(i)[j]
      BY <2>0 DEF IsRequest
    <3> QED BY <3>1, <3>2, <3>3
  <2>5. stream[NameEnd(i)] = "SP"
    <3>1. 6 + Len(Name(i)) \in 1 .. 6 + Len(Name(i)) + Len(Rest(i)) /\ NameEnd(i) = b + (6 + Len(Name(i)))
      BY <2>1, <2>3
    <3>2. stream[b + (6 + Len(Name(i)))] = bytes(i)[6 + Len(Name(i))]
      BY <2>2, <3>1
    <3>3. bytes(i)[6 + Len(Name(i))] = "SP"
      BY <2>0 DEF IsRequest
    <3> QED BY <3>1, <3>2, <3>3
  <2>6. ASSUME NEW j \in 1 .. Len(Rest(i)) PROVE stream[NameEnd(i) + j] = Rest(i)[j]
    <3>1. /\ 6 + Len(Name(i)) + j \in 1 .. 6 + Len(Name(i)) + Len(Rest(i))
          /\ NameEnd(i) + j = b + (6 + Len(Name(i)) + j)
      BY <2>1, <2>3
    <3>2. stream[b + (6 + Len(Name(i)) + j)] = bytes(i)[6 + Len(Name(i)) + j]
      BY <2>2, <3>1
    <3>3. bytes(i)[6 + Len(Name(i)) + j] = Rest(i)[j]
      BY <2>0 DEF IsRequest
    <3> QED BY <3>1, <3>2, <3>3
  <2> QED BY <2>4, <2>5, <2>6 DEF b
<1> QED BY <1>13, <1>14

-----------------------------------------------------------------------------
(* The search for the empty line. *)

\* The last k bytes up to position q, none before position lo, are the
\* first k of the empty line; and no more of them are.
Matched(lo, q, k) ==
  /\ q - k + 1 >= lo
  /\ \A m \in 1 .. k : stream[q - k + m] = Delimiter[m]

Longest(lo, q, k) ==
  /\ Matched(lo, q, k)
  /\ \A h \in 0 .. 3 : Matched(lo, q, h) => h <= k

LEMMA MatchedBytes ==
  ASSUME NEW lo \in Nat, NEW q \in Nat
  PROVE  /\ Matched(lo, q, 0) <=> q + 1 >= lo
         /\ Matched(lo, q, 1) <=> q >= lo /\ stream[q] = "CR"
         /\ Matched(lo, q, 2) <=> q - 1 >= lo /\ stream[q - 1] = "CR" /\ stream[q] = "LF"
         /\ Matched(lo, q, 3) <=> /\ q - 2 >= lo
                                  /\ stream[q - 2] = "CR" /\ stream[q - 1] = "LF" /\ stream[q] = "CR"
         /\ Matched(lo, q, 4) <=> /\ q - 3 >= lo
                                  /\ stream[q - 3] = "CR" /\ stream[q - 2] = "LF"
                                  /\ stream[q - 1] = "CR" /\ stream[q] = "LF"
<1> DEFINE d == Delimiter
           t == stream
<1>1. d[1] = "CR" /\ d[2] = "LF" /\ d[3] = "CR" /\ d[4] = "LF"
  BY DEF Delimiter
<1>2. \A k \in Nat : Matched(lo, q, k) <=> q - k + 1 >= lo /\ \A m \in 1 .. k : t[q - k + m] = d[m]
  BY DEF Matched
<1> HIDE DEF d, t
<1>3. 1 .. 0 = {} /\ 1 .. 1 = {1} /\ 1 .. 2 = {1, 2} /\ 1 .. 3 = {1, 2, 3} /\ 1 .. 4 = {1, 2, 3, 4}
  OBVIOUS
<1>4. Matched(lo, q, 0) <=> q + 1 >= lo
  BY <1>2
<1>5. Matched(lo, q, 1) <=> q >= lo /\ t[q] = "CR"
  <2>1. q - 1 + 1 = q
    OBVIOUS
  <2> QED BY <1>1, <1>2, <1>3, <2>1
<1>6. Matched(lo, q, 2) <=> q - 1 >= lo /\ t[q - 1] = "CR" /\ t[q] = "LF"
  <2>1. q - 2 + 1 = q - 1 /\ q - 2 + 2 = q
    OBVIOUS
  <2> QED BY <1>1, <1>2, <1>3, <2>1
<1>7. Matched(lo, q, 3) <=> /\ q - 2 >= lo
                            /\ t[q - 2] = "CR" /\ t[q - 1] = "LF" /\ t[q] = "CR"
  <2>1. q - 3 + 1 = q - 2 /\ q - 3 + 2 = q - 1 /\ q - 3 + 3 = q
    OBVIOUS
  <2> QED BY <1>1, <1>2, <1>3, <2>1
<1>8. Matched(lo, q, 4) <=> /\ q - 3 >= lo
                            /\ t[q - 3] = "CR" /\ t[q - 2] = "LF"
                            /\ t[q - 1] = "CR" /\ t[q] = "LF"
  <2>1. q - 4 + 1 = q - 3 /\ q - 4 + 2 = q - 2 /\ q - 4 + 3 = q - 1 /\ q - 4 + 4 = q
    OBVIOUS
  <2> QED BY <1>1, <1>2, <1>3, <2>1
<1> QED BY <1>4, <1>5, <1>6, <1>7, <1>8 DEF t

\* One byte more: a byte that matches lengthens the match, and one that does
\* not leaves nothing of it, if no CR follows another.
LEMMA OneByteMore ==
  ASSUME NEW lo \in Nat, NEW q \in Nat, NEW k \in 0 .. 3, q + 1 >= lo, Longest(lo, q, k),
         q >= lo => ~(stream[q] = "CR" /\ stream[q + 1] = "CR")
  PROVE  /\ stream[q + 1] = Delimiter[k + 1] =>
              /\ Matched(lo, q + 1, k + 1)
              /\ \A h \in 0 .. 3 : Matched(lo, q + 1, h) => h <= k + 1
         /\ stream[q + 1] # Delimiter[k + 1] => Longest(lo, q + 1, 0)
         /\ Matched(lo, q + 1, 4) => k = 3 /\ stream[q + 1] = Delimiter[k + 1]
<1> DEFINE t == stream
           d == Delimiter
<1>1. d[1] = "CR" /\ d[2] = "LF" /\ d[3] = "CR" /\ d[4] = "LF"
  BY DEF Delimiter
<1>2. /\ (q + 1) - 1 = q /\ (q + 1) - 2 = q - 1 /\ (q + 1) - 3 = q - 2 /\ q + 1 \in Nat
      /\ 0 .. 3 = {0, 1, 2, 3}
  OBVIOUS
<1>3. \E a, b, c, e : a = t[q + 1] /\ b = t[q] /\ c = t[q - 1] /\ e = t[q - 2]
  OBVIOUS
<1>4. PICK a, b, c, e : a = t[q + 1] /\ b = t[q] /\ c = t[q - 1] /\ e = t[q - 2]
  BY <1>3, Zenon
<1>5. /\ Matched(lo, q, 0) <=> q + 1 >= lo
      /\ Matched(lo, q, 1) <=> q >= lo /\ b = "CR"
      /\ Matched(lo, q, 2) <=> q - 1 >= lo /\ c = "CR" /\ b = "LF"
      /\ Matched(lo, q, 3) <=> q - 2 >= lo /\ e = "CR" /\ c = "LF" /\ b = "CR"
  BY <1>4, MatchedBytes
<1>6. /\ Matched(lo, q + 1, 0) <=> q + 1 + 1 >= lo
      /\ Matched(lo, q + 1, 1) <=> q + 1 >= lo /\ a = "CR"
      /\ Matched(lo, q + 1, 2) <=> q >= lo /\ b = "CR" /\ a = "LF"
      /\ Matched(lo, q + 1, 3) <=> q - 1 >= lo /\ c = "CR" /\ b = "LF" /\ a = "CR"
      /\ Matched(lo, q + 1, 4) <=> q - 2 >= lo /\ e = "CR" /\ c = "LF" /\ b = "CR" /\ a = "LF"
  <2> DEFINE r == q + 1
  <2>1. r \in Nat /\ r - 1 = q /\ r - 2 = q - 1 /\ r - 3 = q - 2 /\ a = t[r]
    BY <1>4
  <2> HIDE DEF r
  <2>2. /\ Matched(lo, r, 0) <=> r + 1 >= lo
        /\ Matched(lo, r, 1) <=> r >= lo /\ a = "CR"
        /\ Matched(lo, r, 2) <=> r - 1 >= lo /\ b = "CR" /\ a = "LF"
        /\ Matched(lo, r, 3) <=> r - 2 >= lo /\ c = "CR" /\ b = "LF" /\ a = "CR"
        /\ Matched(lo, r, 4) <=> r - 3 >= lo /\ e = "CR" /\ c = "LF" /\ b = "CR" /\ a = "LF"
    BY <1>4, <2>1, MatchedBytes
  <2> QED BY <2>1, <2>2 DEF r
<1>7. Matched(lo, q, k) /\ \A h \in {0, 1, 2, 3} : Matched(lo, q, h) => h <= k
  BY <1>2 DEF Longest
<1>8. q >= lo => ~(b = "CR" /\ a = "CR")
  BY <1>4
<1> HIDE DEF d, t
<1>9. \A h \in {0, 1, 2, 3} : Matched(lo, q + 1, h) <=>
        \/ h = 0
        \/ h = 1 /\ a = "CR"
        \/ h = 2 /\ q >= lo /\ b = "CR" /\ a = "LF"
        \/ h = 3 /\ q - 1 >= lo /\ c = "CR" /\ b = "LF" /\ a = "CR"
  BY <1>6
<1>10. /\ a = d[k + 1] =>
             /\ Matched(lo, q + 1, k + 1)
             /\ \A h \in {0, 1, 2, 3} : Matched(lo, q + 1, h) => h <= k + 1
       /\ a # d[k + 1] => \A h \in {0, 1, 2, 3} : Matched(lo, q + 1, h) => h <= 0
       /\ Matched(lo, q + 1, 4) => k = 3 /\ a = d[k + 1]
  <2>1. CASE k = 0
    BY <1>1, <1>5, <1>6, <1>7, <1>8, <1>9, <2>1
  <2>2. CASE k = 1
    BY <1>1, <1>5, <1>6, <1>7, <1>8, <1>9, <2>2
  <2>3. CASE k = 2
    BY <1>1, <1>5, <1>6, <1>7, <1>8, <1>9, <2>3
  <2>4. CASE k = 3
    BY <1>1, <1>5, <1>6, <1>7, <1>8, <1>9, <2>4
  <2> QED BY <2>1, <2>2, <2>3, <2>4
<1>11. Matched(lo, q + 1, 0)
  BY <1>6
<1>12. a = stream[q + 1] /\ d = Delimiter
  BY <1>4 DEF t, d
<1> QED BY <1>2, <1>10, <1>11, <1>12 DEF Longest

\* The rest of a request has the empty line at its end and nowhere else.
LEMMA EmptyLine ==
  ASSUME Requested, NoDoubleCR, NEW i \in 1 .. N, NEW q \in Nat, q <= Begin(i)
  PROVE  /\ Matched(NameEnd(i) + 1, q, 4) <=> q = Begin(i)
         /\ q > NameEnd(i) /\ q < Begin(i) => ~(stream[q] = "CR" /\ stream[q + 1] = "CR")
         /\ Len(Rest(i)) >= 4
<1> DEFINE r == Rest(i)
           e == NameEnd(i)
           b == Begin(i)
           s == stream
<1>1. /\ e \in Nat /\ b = e + Len(r) /\ Len(r) \in Nat
      /\ \A j \in 1 .. Len(r) : s[e + j] = r[j]
  <2>1. i - 1 \in 0 .. N /\ Begin(i - 1) \in Nat /\ Len(Name(i)) \in Nat
    BY StreamPositions DEF Positions
  <2> QED BY StreamPositions, <2>1 DEF Positions, Contents
<1>2. /\ r \in Rests /\ r \in Seq(Bytes) /\ Len(r) >= 4
      /\ \A j \in 4 .. Len(r) : EndsIn(r, j) <=> j = Len(r)
  BY RequestTypes, ParserAssumption
<1>3. Matched(e + 1, q, 4) <=> /\ q - 3 >= e + 1
                               /\ s[q - 3] = "CR" /\ s[q - 2] = "LF"
                               /\ s[q - 1] = "CR" /\ s[q] = "LF"
  BY <1>1, MatchedBytes
<1>4. \A j \in 1 .. Len(r) - 1 : ~(r[j] = "CR" /\ r[j + 1] = "CR")
  BY <1>2 DEF NoDoubleCR
<1> HIDE DEF r, e, b, s
<1>5. ASSUME NEW j \in 4 .. Len(r)
      PROVE  EndsIn(r, j) <=> /\ r[j - 3] = "CR" /\ r[j - 2] = "LF"
                              /\ r[j - 1] = "CR" /\ r[j] = "LF"
  <2> DEFINE u == SubSeq(r, j - 3, j)
             d == Delimiter
  <2>1. j - 3 \in 1 .. Len(r) /\ j - 3 \in 1 .. Len(r) + 1 /\ j \in 0 .. Len(r) /\ j - 3 <= j /\ j - (j - 3) + 1 = 4
    BY <1>1
  <2>2. u \in Seq(Bytes) /\ Len(u) = 4 /\ \A m \in 1 .. 4 : u[m] = r[(j - 3) + m - 1]
    <3>1. /\ u \in Seq(Bytes)
          /\ Len(u) = IF j - 3 <= j THEN j - (j - 3) + 1 ELSE 0
          /\ \A m \in 1 .. j - (j - 3) + 1 : u[m] = r[(j - 3) + m - 1]
      BY <1>2, <2>1, SubSeqProperties, SMTT(30)
    <3> HIDE DEF u
    <3> QED BY <2>1, <3>1
  <2> HIDE DEF u
  <2>3. u[1] = r[j - 3] /\ u[2] = r[j - 2] /\ u[3] = r[j - 1] /\ u[4] = r[j]
    <3>1. (j - 3) + 1 - 1 = j - 3 /\ (j - 3) + 2 - 1 = j - 2 /\ (j - 3) + 3 - 1 = j - 1 /\ (j - 3) + 4 - 1 = j
      BY <2>1
    <3> QED BY <2>2, <3>1
  <2>4. /\ d \in Seq(Bytes) /\ Len(d) = 4
        /\ d[1] = "CR" /\ d[2] = "LF" /\ d[3] = "CR" /\ d[4] = "LF"
    <3>1. {"CR", "LF"} \subseteq Bytes
      BY DEF Bytes
    <3>2. \A B, v, w : {v, w} \subseteq B => <<v, w, v, w>> \in Seq(B)
      OBVIOUS
    <3> QED BY <3>1, <3>2 DEF Delimiter
  <2> HIDE DEF d
  <2>5. u = d <=> \A m \in {1, 2, 3, 4} : u[m] = d[m]
    <3>1. 1 .. 4 = {1, 2, 3, 4}
      OBVIOUS
    <3>2. ASSUME \A m \in 1 .. 4 : u[m] = d[m] PROVE u = d
      BY <2>2, <2>4, <3>2, SeqEqual
    <3> QED BY <3>1, <3>2
  <2>6. EndsIn(r, j) <=> u = d
    BY DEF EndsIn, u, d
  <2> QED BY <2>3, <2>4, <2>5, <2>6
<1>6. Matched(e + 1, q, 4) <=> q = b
  <2>1. CASE q < e + 4
    BY <1>1, <1>2, <1>3, <2>1
  <2>2. CASE q >= e + 4
    <3>0. q <= e + Len(r)
      BY <1>1 DEF b
    <3>1. PICK j \in 4 .. Len(r) : q = e + j
      <4>1. q - e \in 4 .. Len(r) /\ q = e + (q - e)
        BY <1>1, <2>2, <3>0
      <4> QED BY <4>1
    <3>2. /\ q - 3 = e + (j - 3) /\ q - 2 = e + (j - 2) /\ q - 1 = e + (j - 1)
          /\ j - 3 \in 1 .. Len(r) /\ j - 2 \in 1 .. Len(r) /\ j - 1 \in 1 .. Len(r) /\ j \in 1 .. Len(r)
          /\ q - 3 >= e + 1
      BY <1>1, <3>1
    <3>3. s[q - 3] = r[j - 3] /\ s[q - 2] = r[j - 2] /\ s[q - 1] = r[j - 1] /\ s[q] = r[j]
      BY <1>1, <3>1, <3>2
    <3>4. Matched(e + 1, q, 4) <=> EndsIn(r, j)
      BY <1>3, <1>5, <3>2, <3>3
    <3>5. q = b <=> j = Len(r)
      <4>1. \A x, y, z \in Nat : x + y = x + z <=> y = z
        OBVIOUS
      <4>2. e \in Nat /\ j \in Nat /\ Len(r) \in Nat /\ b = e + Len(r)
        BY <1>1
      <4>3. e + j = e + Len(r) <=> j = Len(r)
        BY <4>1, <4>2
      <4> QED BY <3>1, <4>2, <4>3
    <3> QED BY <1>2, <3>4, <3>5
  <2> QED BY <1>1, <2>1, <2>2
<1>7. ASSUME q > e, q < b PROVE ~(s[q] = "CR" /\ s[q + 1] = "CR")
  <2>1. PICK j \in 1 .. Len(r) - 1 : q = e + j
    <3>1. q - e \in 1 .. Len(r) - 1 /\ q = e + (q - e)
      BY <1>1, <1>7
    <3> QED BY <3>1
  <2>2. s[q] = r[j] /\ s[q + 1] = r[j + 1]
    <3>1. q + 1 = e + (j + 1) /\ j \in 1 .. Len(r) /\ j + 1 \in 1 .. Len(r)
      BY <1>1, <2>1
    <3> QED BY <1>1, <2>1, <3>1
  <2> QED BY <1>4, <2>1, <2>2
<1> QED BY <1>2, <1>6, <1>7 DEF r, e, b, s

-----------------------------------------------------------------------------
(* Where the scanner stands after q bytes with n names served.             *)

Standing(n, q, p) ==
  /\ n <= N
  /\ p \in 4 .. 8 => q = Begin(n) + p - 4
  /\ p = 9 => q >= Begin(n) + 5
  /\ p >= 4 /\ n < N => q < NameEnd(n + 1)
  /\ p < 4 => n > 0 /\ NameEnd(n) <= q /\ q < Begin(n) /\ Longest(NameEnd(n) + 1, q, p)

\* The byte before the name, or before what is left of it, is the one at q + 9 - p.
LEMMA AheadOfAName ==
  ASSUME Requested, NEW n \in Nat, NEW q \in Nat, NEW p \in 4 .. 9, Standing(n, q, p), q < Len(stream)
  PROVE  /\ n + 1 \in 1 .. N /\ Begin(n) \in Nat
         /\ NameFirst(n + 1) = Begin(n) + 6 /\ NameEnd(n + 1) = Begin(n) + 6 + Len(Name(n + 1))
         /\ Len(Name(n + 1)) \in Nat
         /\ q + 9 - p >= Begin(n) + 5 /\ q + 9 - p < NameEnd(n + 1)
         /\ p # 9 => q + 9 - p = Begin(n) + 5
<1>1. N \in Nat /\ Len(stream) = Begin(N) /\ n \in 0 .. N /\ Begin(n) \in Nat
  BY StreamPositions DEF Positions, Standing
<1>2. n < N
  BY <1>1 DEF Standing
<1>3. n + 1 \in 1 .. N /\ (n + 1) - 1 = n
  BY <1>1, <1>2
<1>4. /\ NameFirst(n + 1) = Begin(n) + 6 /\ NameEnd(n + 1) = Begin(n) + 6 + Len(Name(n + 1))
      /\ Len(Name(n + 1)) \in Nat
  BY <1>3, StreamPositions DEF Positions
<1>5. CASE p = 9
  BY <1>1, <1>2, <1>3, <1>4, <1>5 DEF Standing
<1>6. CASE p # 9
  <2>1. p \in 4 .. 8 /\ q = Begin(n) + p - 4
    BY <1>6 DEF Standing
  <2>2. q + 9 - p = Begin(n) + 5
    BY <1>1, <2>1
  <2> QED BY <1>1, <1>2, <1>3, <1>4, <2>2
<1> QED BY <1>5, <1>6

LEMMA NameBytes ==
  ASSUME Requested, NEW n \in Nat, n + 1 \in 1 .. N, NEW x \in Begin(n) + 6 .. NameEnd(n + 1) - 1
  PROVE  /\ x - (Begin(n) + 5) \in 1 .. Len(Name(n + 1))
         /\ stream[x] = Name(n + 1)[x - (Begin(n) + 5)] /\ stream[x] # "SP"
<1>1. (n + 1) - 1 = n /\ N \in Nat
  BY StreamPositions DEF Positions
<1>2. /\ n \in 0 .. N /\ Begin(n) \in Nat
      /\ NameEnd(n + 1) = Begin(n) + 6 + Len(Name(n + 1)) /\ Len(Name(n + 1)) \in Nat
  BY <1>1, StreamPositions DEF Positions
<1>3. PICK j \in 1 .. Len(Name(n + 1)) : x = Begin(n) + 5 + j
  <2>1. x - (Begin(n) + 5) \in 1 .. Len(Name(n + 1)) /\ x = Begin(n) + 5 + (x - (Begin(n) + 5))
    BY <1>2
  <2> QED BY <2>1
<1>4. stream[Begin(n) + 5 + j] = Name(n + 1)[j]
  BY <1>1, StreamPositions DEF Contents
<1>5. Name(n + 1)[j] # "SP"
  BY RequestTypes, ParserAssumption DEF Contains
<1>6. x - (Begin(n) + 5) = j
  BY <1>2, <1>3
<1> QED BY <1>3, <1>4, <1>5, <1>6

\* The bytes received end within the method.
LEMMA EndsInMethod ==
  ASSUME Requested, NEW n \in Nat, NEW q \in Nat, NEW p \in 4 .. 9, Standing(n, q, p),
         NEW r \in Nat, q < r, r <= Len(stream), q + 9 - p >= r
  PROVE  p # 9 /\ p + (r - q) \in 5 .. 9 /\ Standing(n, r, p + (r - q))
<1>1. /\ n + 1 \in 1 .. N /\ Begin(n) \in Nat /\ Len(Name(n + 1)) \in Nat
      /\ NameEnd(n + 1) = Begin(n) + 6 + Len(Name(n + 1))
      /\ q + 9 - p >= Begin(n) + 5 /\ q + 9 - p < NameEnd(n + 1)
      /\ p # 9 => q + 9 - p = Begin(n) + 5
  <2>1. q < Len(stream) /\ Len(stream) \in Nat
    BY StreamPositions DEF Positions
  <2> QED BY <2>1, AheadOfAName
<1>2. p # 9 /\ p + (r - q) \in 5 .. 9 /\ r = Begin(n) + (p + (r - q)) - 4 /\ r < NameEnd(n + 1)
  BY <1>1, SMTT(30)
<1> QED BY <1>1, <1>2, SMTT(30) DEF Standing

\* They end within the name.
LEMMA EndsInName ==
  ASSUME Requested, NEW n \in Nat, NEW q \in Nat, NEW p \in 4 .. 9, Standing(n, q, p),
         NEW r \in Nat, q < r, r <= Len(stream), q + 9 - p < r,
         \A x \in q + 9 - p + 1 .. r : stream[x] # "SP"
  PROVE  n + 1 \in 1 .. N /\ r < NameEnd(n + 1) /\ Standing(n, r, 9)
<1>1. /\ n + 1 \in 1 .. N /\ Begin(n) \in Nat /\ Len(Name(n + 1)) \in Nat
      /\ NameEnd(n + 1) = Begin(n) + 6 + Len(Name(n + 1))
      /\ q + 9 - p >= Begin(n) + 5 /\ q + 9 - p < NameEnd(n + 1)
  <2>1. q < Len(stream) /\ Len(stream) \in Nat
    BY StreamPositions DEF Positions
  <2> QED BY <2>1, AheadOfAName
<1>2. stream[NameEnd(n + 1)] = "SP"
  BY <1>1, StreamPositions DEF Contents
<1>3. ~(NameEnd(n + 1) <= r)
  <2> SUFFICES ASSUME NameEnd(n + 1) <= r PROVE FALSE
    OBVIOUS
  <2>1. NameEnd(n + 1) \in q + 9 - p + 1 .. r
    BY <1>1, SMTT(30)
  <2> QED BY <1>2, <2>1
<1>4. r < NameEnd(n + 1) /\ r >= Begin(n) + 5
  BY <1>1, <1>3
<1> QED BY <1>1, <1>4 DEF Standing

\* The space found is the one after the name.
LEMMA EndsAName ==
  ASSUME Requested, NEW n \in Nat, NEW q \in Nat, NEW p \in 4 .. 9, Standing(n, q, p),
         q < Len(stream), NEW e \in Nat, q + 9 - p < e, stream[e] = "SP",
         \A x \in q + 9 - p + 1 .. e - 1 : stream[x] # "SP"
  PROVE  n + 1 \in 1 .. N /\ e = NameEnd(n + 1) /\ Standing(n + 1, e, 0)
<1>1. /\ n + 1 \in 1 .. N /\ Begin(n) \in Nat /\ Len(Name(n + 1)) \in Nat
      /\ NameEnd(n + 1) = Begin(n) + 6 + Len(Name(n + 1))
      /\ q + 9 - p >= Begin(n) + 5 /\ q + 9 - p < NameEnd(n + 1)
  BY AheadOfAName
<1>2. stream[NameEnd(n + 1)] = "SP"
  BY <1>1, StreamPositions DEF Contents
<1>3. ~(NameEnd(n + 1) < e)
  <2> SUFFICES ASSUME NameEnd(n + 1) < e PROVE FALSE
    OBVIOUS
  <2>1. NameEnd(n + 1) \in q + 9 - p + 1 .. e - 1
    BY <1>1, SMTT(30)
  <2> QED BY <1>2, <2>1
<1>4. ~(e < NameEnd(n + 1))
  <2> SUFFICES ASSUME e < NameEnd(n + 1) PROVE FALSE
    OBVIOUS
  <2>1. e \in Begin(n) + 6 .. NameEnd(n + 1) - 1
    BY <1>1
  <2> QED BY <1>1, <2>1, NameBytes
<1>5. e = NameEnd(n + 1)
  <2>1. NameEnd(n + 1) \in Nat
    BY <1>1
  <2> QED BY <1>3, <1>4, <2>1
<1>6. n + 1 <= N /\ n + 1 > 0 /\ n + 1 \in 0 .. N
  BY <1>1
<1>7. e < Begin(n + 1)
  <2>1. Begin(n + 1) = NameEnd(n + 1) + Len(Rest(n + 1)) /\ Len(Rest(n + 1)) \in Nat
    BY <1>1, StreamPositions DEF Positions
  <2>2. Len(Rest(n + 1)) >= 4
    BY <1>1, RequestTypes, ParserAssumption
  <2> QED BY <1>5, <2>1, <2>2
<1>8. Longest(e + 1, e, 0)
  <2>1. Matched(e + 1, e, 0)
    BY DEF Matched
  <2>2. ASSUME NEW h \in 0 .. 3, Matched(e + 1, e, h) PROVE h <= 0
    BY <2>2 DEF Matched
  <2> QED BY <2>1, <2>2 DEF Longest
<1> QED BY <1>1, <1>5, <1>6, <1>7, <1>8 DEF Standing

\* A byte of the rest is seen.
LEMMA ByteOfTheRest ==
  ASSUME Requested, NoDoubleCR, NEW n \in Nat, NEW q \in Nat, NEW p \in 0 .. 3, Standing(n, q, p)
  PROVE  Standing(n, q + 1, IF stream[q + 1] = Delimiter[p + 1] THEN p + 1 ELSE 0)
<1> DEFINE lo == NameEnd(n) + 1
           hit == stream[q + 1] = Delimiter[p + 1]
<1>1. n <= N /\ n > 0 /\ NameEnd(n) <= q /\ q < Begin(n) /\ Longest(lo, q, p)
  BY DEF Standing
<1>2. /\ n \in 1 .. N /\ n \in 0 .. N /\ N \in Nat
      /\ NameEnd(n) \in Nat /\ Begin(n) \in Nat
  <2>1. n \in 1 .. N /\ n - 1 \in 0 .. N /\ n \in 0 .. N /\ N \in Nat
    BY <1>1, StreamPositions DEF Positions
  <2>2. Begin(n - 1) \in Nat /\ Len(Name(n)) \in Nat /\ NameEnd(n) = Begin(n - 1) + 6 + Len(Name(n)) /\ Begin(n) \in Nat
    BY <2>1, StreamPositions DEF Positions
  <2> QED BY <2>1, <2>2
<1>3. q >= lo => ~(stream[q] = "CR" /\ stream[q + 1] = "CR")
  BY <1>1, <1>2, EmptyLine
<1>4. lo \in Nat /\ q + 1 \in Nat /\ q + 1 >= lo /\ q + 1 <= Begin(n)
  BY <1>1, <1>2
<1>5. Matched(lo, q + 1, 4) <=> q + 1 = Begin(n)
  BY <1>2, <1>4, EmptyLine
<1> HIDE DEF lo
<1>6. /\ hit => Matched(lo, q + 1, p + 1) /\ \A h \in 0 .. 3 : Matched(lo, q + 1, h) => h <= p + 1
      /\ ~hit => Longest(lo, q + 1, 0)
      /\ Matched(lo, q + 1, 4) => p = 3 /\ hit
  BY <1>1, <1>3, <1>4, OneByteMore
<1> HIDE DEF hit
<1>7. CASE hit /\ p = 3
  <2>1. q + 1 = Begin(n)
    BY <1>5, <1>6, <1>7
  <2>2. n < N => q + 1 < NameEnd(n + 1)
    <3> SUFFICES ASSUME n < N PROVE q + 1 < NameEnd(n + 1)
      OBVIOUS
    <3>1. n + 1 \in 1 .. N /\ (n + 1) - 1 = n
      BY <1>2
    <3>2. NameEnd(n + 1) = Begin(n) + 6 + Len(Name(n + 1)) /\ Len(Name(n + 1)) \in Nat
      BY <3>1, StreamPositions DEF Positions
    <3> QED BY <1>2, <2>1, <3>2
  <2>3. Standing(n, q + 1, 4)
    BY <1>1, <1>2, <2>1, <2>2 DEF Standing
  <2> QED BY <1>7, <2>3 DEF hit
<1>8. CASE hit /\ p # 3
  <2>1. q + 1 < Begin(n)
    BY <1>2, <1>4, <1>5, <1>6, <1>8
  <2>2. Longest(lo, q + 1, p + 1) /\ p + 1 \in 0 .. 3
    BY <1>6, <1>8 DEF Longest
  <2>3. Standing(n, q + 1, p + 1)
    BY <1>1, <1>2, <2>1, <2>2 DEF Standing, lo
  <2> QED BY <1>8, <2>3 DEF hit
<1>9. CASE ~hit
  <2>1. q + 1 < Begin(n)
    BY <1>2, <1>4, <1>5, <1>6, <1>9
  <2>2. Longest(lo, q + 1, 0)
    BY <1>6, <1>9
  <2>3. Standing(n, q + 1, 0)
    BY <1>1, <1>2, <2>1, <2>2 DEF Standing, lo
  <2> QED BY <1>9, <2>3 DEF hit
<1> QED BY <1>7, <1>8, <1>9

\* What is served is behind, and the next name is the only one that can be in pieces.
LEMMA BehindAndAhead ==
  ASSUME Requested, NEW n \in Nat, NEW q \in Nat, NEW p \in 0 .. 9, Standing(n, q, p)
  PROVE  /\ \A i \in 1 .. n : NameEnd(i) <= q
         /\ \A i \in 1 .. N : i > n /\ q \in NameFirst(i) .. NameEnd(i) - 1 => i = n + 1 /\ p = 9
<1>1. /\ N \in Nat /\ \A i \in 0 .. N : Begin(i) \in Nat
      /\ \A i \in 1 .. N : /\ Len(Name(i)) \in Nat /\ Len(Rest(i)) \in Nat
                           /\ NameFirst(i) = Begin(i - 1) + 6
                           /\ NameEnd(i) = Begin(i - 1) + 6 + Len(Name(i))
                           /\ Begin(i) = NameEnd(i) + Len(Rest(i))
      /\ \A i, k \in 0 .. N : i <= k => Begin(i) <= Begin(k)
  BY StreamPositions DEF Positions
<1>2. n \in 0 .. N
  BY <1>1 DEF Standing
<1>3. ASSUME NEW i \in 1 .. N, i <= n PROVE NameEnd(i) <= q
  <2>1. i \in 0 .. N /\ i - 1 \in 0 .. N /\ Begin(i) \in Nat /\ Begin(n) \in Nat /\ Begin(i - 1) \in Nat
    BY <1>1, <1>2
  <2>2. /\ Len(Name(i)) \in Nat /\ Len(Rest(i)) \in Nat
        /\ NameEnd(i) = Begin(i - 1) + 6 + Len(Name(i)) /\ Begin(i) = NameEnd(i) + Len(Rest(i))
    BY <1>1
  <2>3. NameEnd(i) \in Nat /\ NameEnd(i) <= Begin(i)
    BY <2>1, <2>2
  <2>4. CASE p >= 4
    <3>1. q >= Begin(n)
      <4>1. CASE p = 9
        BY <2>1, <4>1 DEF Standing
      <4>2. CASE p # 9
        <5>1. p \in 4 .. 8
          BY <2>4, <4>2
        <5> QED BY <2>1, <5>1 DEF Standing
      <4> QED BY <4>1, <4>2
    <3>2. Begin(i) <= Begin(n)
      BY <1>1, <1>2, <1>3, <2>1
    <3> QED BY <2>1, <2>3, <3>1, <3>2
  <2>5. CASE p < 4
    <3>1. n > 0 /\ NameEnd(n) <= q
      BY <2>5 DEF Standing
    <3>2. CASE i = n
      BY <3>1, <3>2
    <3>3. CASE i # n
      <4>1. n \in 1 .. N /\ n - 1 \in 0 .. N /\ i <= n - 1
        BY <1>1, <1>2, <1>3, <3>1, <3>3
      <4>2. Begin(i) <= Begin(n - 1) /\ Begin(n - 1) \in Nat /\ NameEnd(n) = Begin(n - 1) + 6 + Len(Name(n)) /\ Len(Name(n)) \in Nat
        BY <1>1, <2>1, <4>1
      <4> QED BY <2>1, <2>3, <3>1, <4>2
    <3> QED BY <3>2, <3>3
  <2> QED BY <2>4, <2>5
<1>4. ASSUME NEW i \in 1 .. N, i > n, q \in NameFirst(i) .. NameEnd(i) - 1
      PROVE  i = n + 1 /\ p = 9
  <2>1. /\ i - 1 \in 0 .. N /\ n <= i - 1 /\ n < N /\ n + 1 \in 1 .. N /\ n + 1 \in 0 .. N /\ (n + 1) - 1 = n
    <3>1. N \in Nat /\ n \in Nat /\ i \in 1 .. N /\ i > n
      BY <1>1, <1>2, <1>4
    <3> QED BY <3>1
  <2>2. Begin(n) <= Begin(i - 1) /\ Begin(n) \in Nat /\ Begin(i - 1) \in Nat /\ q >= Begin(i - 1) + 6
    BY <1>1, <1>2, <1>4, <2>1
  <2>3. p = 9
    <3>1. CASE p < 4
      <4>1. q < Begin(n)
        BY <3>1 DEF Standing
      <4> QED BY <2>2, <4>1
    <3>2. CASE p \in 4 .. 8
      <4>1. q = Begin(n) + p - 4
        BY <3>2 DEF Standing
      <4> QED BY <2>2, <3>2, <4>1
    <3> QED BY <3>1, <3>2
  <2>4. q < NameEnd(n + 1)
    BY <2>1, <2>3 DEF Standing
  <2>5. CASE i # n + 1
    <3>1. n + 1 <= i - 1 /\ Begin(n + 1) <= Begin(i - 1) /\ Begin(n + 1) \in Nat
      <4>1. n + 1 <= i - 1
        BY <1>4, <2>5
      <4> QED BY <1>1, <2>1, <4>1
    <3>2. /\ Begin(n + 1) = NameEnd(n + 1) + Len(Rest(n + 1)) /\ Len(Rest(n + 1)) \in Nat
          /\ NameEnd(n + 1) = Begin(n) + 6 + Len(Name(n + 1)) /\ Len(Name(n + 1)) \in Nat
      BY <1>1, <2>1
    <3> QED BY <2>2, <2>4, <3>1, <3>2
  <2> QED BY <2>3, <2>5
<1>5. \A i \in 1 .. n : i \in 1 .. N /\ i <= n
  BY <1>1, <1>2
<1> QED BY <1>3, <1>4, <1>5

-----------------------------------------------------------------------------
(* The inductive invariant.                                                *)

BufferBytes == Bytes \cup {"?", "NUL"}

Typed ==
  /\ TypeOK
  /\ buffer \in [0 .. JOHNNY_BUFFER_SIZE - 1 -> BufferBytes]
  /\ served \in Seq(Seq(BufferBytes))
  /\ pc = "recv" => buffer_offset = 0

\* What is left to scan is the last of what has been received.
InBuffer ==
  pc = "scan" =>
    /\ buffer_size <= received
    /\ bytes_parsed <= buffer_size
    /\ \A i \in bytes_parsed .. buffer_size - 1 : buffer[i] = stream[received - buffer_size + i + 1]

\* A name ahead is in pieces when what has been received ends within it, or
\* when what has been scanned does.
Within(q, i) == q \in NameFirst(i) .. NameEnd(i) - 1

Cuts ==
  \A i \in 1 .. N : i > Len(served) =>
    (i \in cut <=> \/ Within(received, i)
                   \/ i = Len(served) + 1 /\ prefix_counter = 9 /\ Within(Consumed, i))

Inv ==
  /\ Typed
  /\ InBuffer
  /\ Standing(Len(served), Consumed, prefix_counter)
  /\ Cuts
  /\ ServedAsSent

LEMMA InvFacts ==
  ASSUME Inv
  PROVE  /\ Requested /\ N \in Nat /\ Len(requests) = N /\ DOMAIN requests = 1 .. N
         /\ stream \in Seq(Bytes) /\ Len(stream) \in Nat
         /\ received \in Nat /\ received <= Len(stream)
         /\ JOHNNY_BUFFER_SIZE \in Nat \ {0}
         /\ buffer_offset \in Nat /\ buffer_size \in Nat /\ bytes_parsed \in Nat
         /\ buffer_size <= JOHNNY_BUFFER_SIZE /\ bytes_parsed <= JOHNNY_BUFFER_SIZE
         /\ prefix_counter \in 0 .. 9 /\ pc \in {"recv", "scan"}
         /\ Len(served) \in Nat /\ Len(served) <= N
         /\ DOMAIN served = 1 .. Len(served)
         /\ pc = "recv" => Consumed = received
         /\ pc = "scan" => Consumed = received - (buffer_size - bytes_parsed)
         /\ Consumed \in Nat /\ Consumed <= received
<1>1. Requested /\ TypeOK /\ served \in Seq(Seq(BufferBytes))
  BY DEF Inv, Typed, TypeOK, Requested
<1>2. N \in Nat /\ stream \in Seq(Bytes) /\ Len(stream) \in Nat
  BY <1>1, StreamPositions DEF Positions
<1>3. /\ received \in Nat /\ received <= Len(stream) /\ JOHNNY_BUFFER_SIZE \in Nat \ {0}
      /\ buffer_offset \in Nat /\ buffer_size \in Nat /\ bytes_parsed \in Nat
      /\ buffer_size <= JOHNNY_BUFFER_SIZE /\ bytes_parsed <= JOHNNY_BUFFER_SIZE
      /\ prefix_counter \in 0 .. 9 /\ pc \in {"recv", "scan"}
      /\ Len(requests) = N /\ Len(served) <= N
  BY <1>1, <1>2, ParserAssumption DEF TypeOK, N
<1>4. Len(served) \in Nat /\ DOMAIN served = 1 .. Len(served)
  BY <1>1
<1>5. DOMAIN requests = 1 .. N
  BY <1>1, RequestTypes
<1>6. pc = "scan" => buffer_size <= received /\ bytes_parsed <= buffer_size
  BY DEF Inv, InBuffer
<1>7. /\ pc = "recv" => Consumed = received
      /\ pc = "scan" => Consumed = received - (buffer_size - bytes_parsed)
      /\ Consumed \in Nat /\ Consumed <= received
  BY <1>3, <1>6 DEF Consumed
<1> QED BY <1>1, <1>2, <1>3, <1>4, <1>5, <1>7

\* The requests do not change, so that nothing that is said of the stream does.
LEMMA Frozen ==
  ASSUME requests' = requests
  PROVE  /\ N' = N /\ stream' = stream /\ (Requested' <=> Requested)
         /\ \A i : Name(i)' = Name(i) /\ NameFirst(i)' = NameFirst(i) /\ NameEnd(i)' = NameEnd(i)
         /\ \A q, i : Within(q, i)' <=> Within(q, i)
         /\ \A n, q, p : Standing(n, q, p)' <=> Standing(n, q, p)
<1>1. N' = N /\ (Requested' <=> Requested)
  BY DEF N, Requested
<1>2. \A i : Stream(i)' = Stream(i)
  BY DEF Stream, BytesOf
<1>3. \A i : Begin(i)' = Begin(i) /\ Name(i)' = Name(i)
  BY <1>2 DEF Begin, Name
<1>4. stream' = stream
  BY <1>2 DEF stream
<1>5. \A i : NameFirst(i)' = NameFirst(i)
  BY <1>2 DEF NameFirst, Method
<1>6. \A i : NameEnd(i)' = NameEnd(i)
  BY <1>5 DEF NameEnd
<1>7. \A q, i : Within(q, i)' <=> Within(q, i)
  BY <1>5, <1>6 DEF Within
<1>8. \A lo, q, k : Matched(lo, q, k)' <=> Matched(lo, q, k)
  BY <1>4 DEF Matched, Delimiter
<1>9. \A lo, q, k : Longest(lo, q, k)' <=> Longest(lo, q, k)
  BY <1>8 DEF Longest
<1>10. \A n, q, p : Standing(n, q, p)' <=> Standing(n, q, p)
  BY <1>1, <1>3, <1>6, <1>9 DEF Standing
<1> QED BY <1>1, <1>3, <1>4, <1>5, <1>6, <1>7, <1>10

-----------------------------------------------------------------------------
(* Every action keeps it.                                                  *)

LEMMA MinOfTwo ==
  ASSUME NEW a \in Int, NEW b \in Int
  PROVE  Min({a, b}) \in Int /\ Min({a, b}) <= a /\ Min({a, b}) <= b
<1>1. \E x \in {a, b} : \A y \in {a, b} : x <= y
  OBVIOUS
<1> QED BY <1>1 DEF Min

LEMMA InitKeeps ==
  ASSUME Init
  PROVE  Inv
<1>1. Requested
  BY DEF Init, Requested
<1>2. /\ N \in Nat /\ Len(requests) = N /\ Begin(0) = 0
      /\ stream \in Seq(Bytes) /\ Len(stream) \in Nat /\ JOHNNY_BUFFER_SIZE \in Nat \ {0}
      /\ \A i \in 1 .. N : NameFirst(i) = Begin(i - 1) + 6 /\ Begin(i - 1) \in Nat
  <2>1. \A i \in 1 .. N : i - 1 \in 0 .. N
    BY <1>1, StreamPositions DEF Positions
  <2> QED BY <1>1, <2>1, StreamPositions, ParserAssumption DEF Positions, N
<1>3. served = <<>> /\ Len(served) = 0 /\ DOMAIN served = {} /\ served \in Seq(Seq(BufferBytes))
  BY DEF Init
<1>4. Typed
  <2>1. buffer \in [0 .. JOHNNY_BUFFER_SIZE - 1 -> BufferBytes]
    <3>1. "?" \in BufferBytes
      BY DEF BufferBytes
    <3> QED BY <3>1 DEF Init, Blank
  <2>2. TypeOK
    BY <1>2, <1>3 DEF Init, TypeOK, Blank
  <2> QED BY <1>3, <2>1, <2>2 DEF Typed, Init
<1>5. Consumed = 0
  BY DEF Consumed, Init
<1>6. Standing(0, 0, 4)
  <2>1. 0 < N => 0 < NameEnd(0 + 1)
    <3> SUFFICES ASSUME 0 < N PROVE 0 < NameEnd(1)
      OBVIOUS
    <3>1. 1 \in 1 .. N /\ 1 - 1 = 0
      BY <1>2
    <3>2. NameEnd(1) = Begin(0) + 6 + Len(Name(1)) /\ Len(Name(1)) \in Nat
      BY <1>1, <3>1, StreamPositions DEF Positions
    <3> QED BY <1>2, <3>2
  <2> QED BY <1>2, <2>1 DEF Standing
<1>7. Cuts
  <2>1. ASSUME NEW i \in 1 .. N PROVE ~Within(0, i)
    BY <1>2, <2>1 DEF Within
  <2>2. cut = {} /\ received = 0
    BY DEF Init
  <2> QED BY <1>5, <2>1, <2>2 DEF Cuts
<1>8. ServedAsSent
  BY <1>3 DEF ServedAsSent
<1>9. InBuffer
  BY DEF InBuffer, Init
<1>10. prefix_counter = 4
  BY DEF Init
<1> QED BY <1>3, <1>4, <1>5, <1>6, <1>7, <1>8, <1>9, <1>10 DEF Inv

LEMMA ServedIsKept ==
  ASSUME ServedAsSent, requests' = requests, served' = served,
         \A i \in DOMAIN served : i \in cut' <=> i \in cut
  PROVE  ServedAsSent'
BY DEF ServedAsSent

LEMMA RecvKeeps ==
  ASSUME Inv, recv
  PROVE  Inv'
<1> DEFINE n == Len(served)
<1>1. /\ pc = "recv" /\ pc' = "scan" /\ bytes_parsed' = buffer_offset
      /\ requests' = requests /\ buffer_offset' = buffer_offset
      /\ prefix_counter' = prefix_counter /\ served' = served
  BY DEF recv
<1>2. buffer_offset = 0
  BY <1>1 DEF Inv, Typed
<1>3. /\ Requested /\ N \in Nat /\ Len(requests) = N /\ DOMAIN requests = 1 .. N
      /\ stream \in Seq(Bytes) /\ Len(stream) \in Nat
      /\ received \in Nat /\ received <= Len(stream) /\ JOHNNY_BUFFER_SIZE \in Nat \ {0}
      /\ prefix_counter \in 0 .. 9 /\ n \in Nat /\ n <= N /\ DOMAIN served = 1 .. n
      /\ Consumed = received
  BY <1>1, InvFacts
<1> DEFINE m == Min({JOHNNY_BUFFER_SIZE - buffer_offset, Len(stream) - received})
<1>4. PICK k \in 1 .. m :
        /\ received' = received + k
        /\ buffer_size' = k
        /\ buffer' = [i \in DOMAIN buffer |->
             IF i \in buffer_offset .. buffer_offset + k - 1
             THEN stream[received + 1 + i - buffer_offset]
             ELSE buffer[i]]
        /\ cut' = cut \cup {i \in DOMAIN requests : received + k \in NameFirst(i) .. NameEnd(i) - 1}
  BY DEF recv
<1>5. k \in Nat /\ k >= 1 /\ k <= JOHNNY_BUFFER_SIZE /\ received + k <= Len(stream)
  <2>1. JOHNNY_BUFFER_SIZE - buffer_offset \in Int /\ Len(stream) - received \in Int
    BY <1>2, <1>3
  <2>2. m \in Int /\ m <= JOHNNY_BUFFER_SIZE - buffer_offset /\ m <= Len(stream) - received
    BY <2>1, MinOfTwo
  <2> HIDE DEF m
  <2> QED BY <1>2, <1>3, <2>2
<1>6. /\ N' = N /\ stream' = stream
      /\ \A i : Name(i)' = Name(i) /\ NameFirst(i)' = NameFirst(i) /\ NameEnd(i)' = NameEnd(i)
      /\ \A q, i : Within(q, i)' <=> Within(q, i)
      /\ \A a, q, p : Standing(a, q, p)' <=> Standing(a, q, p)
  BY <1>1, Frozen
<1>7. /\ \A i \in DOMAIN buffer : buffer'[i] = IF i <= k - 1 THEN stream[received + i + 1] ELSE buffer[i]
      /\ DOMAIN buffer' = DOMAIN buffer /\ DOMAIN buffer = 0 .. JOHNNY_BUFFER_SIZE - 1
      /\ buffer \in [0 .. JOHNNY_BUFFER_SIZE - 1 -> BufferBytes]
  <2>1. DOMAIN buffer = 0 .. JOHNNY_BUFFER_SIZE - 1 /\ buffer \in [0 .. JOHNNY_BUFFER_SIZE - 1 -> BufferBytes]
    BY DEF Inv, Typed
  <2>2. ASSUME NEW i \in DOMAIN buffer
        PROVE  buffer'[i] = IF i <= k - 1 THEN stream[received + i + 1] ELSE buffer[i]
    <3>1. i \in Nat
      BY <1>3, <2>1
    <3>2. i \in buffer_offset .. buffer_offset + k - 1 <=> i <= k - 1
      BY <1>2, <1>5, <3>1
    <3>3. received + 1 + i - buffer_offset = received + i + 1
      BY <1>2, <1>3, <3>1
    <3> QED BY <1>4, <3>2, <3>3
  <2> QED BY <1>4, <2>1, <2>2
<1>8. Typed'
  <2>1. buffer' \in [0 .. JOHNNY_BUFFER_SIZE - 1 -> BufferBytes]
    <3>1. \A i \in 0 .. JOHNNY_BUFFER_SIZE - 1 : i <= k - 1 => stream[received + i + 1] \in BufferBytes
      <4> SUFFICES ASSUME NEW i \in 0 .. JOHNNY_BUFFER_SIZE - 1, i <= k - 1
                   PROVE  stream[received + i + 1] \in BufferBytes
        OBVIOUS
      <4>1. received + i + 1 \in 1 .. Len(stream)
        BY <1>3, <1>5
      <4>2. stream[received + i + 1] \in Bytes
        BY <1>3, <4>1
      <4> QED BY <4>2 DEF BufferBytes
    <3>2. \A i \in 0 .. JOHNNY_BUFFER_SIZE - 1 : buffer'[i] \in BufferBytes
      BY <1>7, <3>1
    <3>3. buffer' = [i \in 0 .. JOHNNY_BUFFER_SIZE - 1 |-> buffer'[i]]
      BY <1>4, <1>7
    <3> QED BY <3>2, <3>3
  <2>2. TypeOK'
    <3>1. requests' \in BoundedSeq(Names \X Rests, MaxStream)
      BY <1>1, <1>3 DEF Requested
    <3>2. cut' \subseteq 1 .. Len(requests')
      BY <1>1, <1>3, <1>4 DEF Inv, Typed, TypeOK
    <3>3. bytes_parsed' \in 0 .. JOHNNY_BUFFER_SIZE /\ buffer_offset' \in 0 .. JOHNNY_BUFFER_SIZE
      BY <1>1, <1>2, <1>3
    <3>4. buffer_size' \in 0 .. JOHNNY_BUFFER_SIZE /\ received' \in 0 .. Len(stream)
      BY <1>3, <1>4, <1>5
    <3>5. Len(served') <= Len(requests') /\ prefix_counter' \in 0 .. 9
      BY <1>1, <1>3
    <3> QED BY <1>1, <1>6, <1>7, <3>1, <3>2, <3>3, <3>4, <3>5 DEF TypeOK
  <2>3. served' \in Seq(Seq(BufferBytes))
    BY <1>1 DEF Inv, Typed
  <2> QED BY <1>1, <2>1, <2>2, <2>3 DEF Typed
<1>9. InBuffer'
  <2>1. buffer_size' <= received' /\ bytes_parsed' <= buffer_size'
    BY <1>1, <1>2, <1>3, <1>4, <1>5
  <2>2. ASSUME NEW i \in bytes_parsed' .. buffer_size' - 1
        PROVE  buffer'[i] = stream[received' - buffer_size' + i + 1]
    <3>1. i \in 0 .. k - 1
      BY <1>1, <1>2, <1>4, <2>2
    <3>2. i \in DOMAIN buffer /\ i <= k - 1
      BY <1>3, <1>5, <1>7, <3>1
    <3>3. received' - buffer_size' + i + 1 = received + i + 1
      BY <1>3, <1>4, <1>5, <3>1
    <3> QED BY <1>7, <3>2, <3>3
  <2> QED BY <1>6, <2>1, <2>2 DEF InBuffer
<1>10. Consumed' = Consumed
  BY <1>1, <1>2, <1>3, <1>4, <1>5 DEF Consumed
<1>11. Standing(n, received, prefix_counter)
  BY <1>3 DEF Inv
<1>12. /\ \A i \in 1 .. n : NameEnd(i) <= received
       /\ \A i \in 1 .. N : i > n /\ Within(received, i) => i = n + 1 /\ prefix_counter = 9
  BY <1>3, <1>11, BehindAndAhead DEF Within
<1>13. \A i \in 1 .. N : i \in cut' <=> i \in cut \/ Within(received', i)
  BY <1>3, <1>4 DEF Within
<1>14. Cuts'
  <2>1. ASSUME NEW i \in 1 .. N, i > n
        PROVE  i \in cut' <=> \/ Within(received', i)
                              \/ i = n + 1 /\ prefix_counter = 9 /\ Within(received, i)
    <3>1. i \in cut <=> \/ Within(received, i)
                        \/ i = n + 1 /\ prefix_counter = 9 /\ Within(received, i)
      BY <1>3, <2>1 DEF Inv, Cuts
    <3> QED BY <1>12, <1>13, <2>1, <3>1
  <2> QED BY <1>1, <1>3, <1>6, <1>10, <2>1 DEF Cuts, Within
<1>15. ServedAsSent'
  <2>1. ASSUME NEW i \in 1 .. n PROVE i \in cut' <=> i \in cut
    <3>1. i \in 1 .. N /\ NameEnd(i) <= received /\ NameEnd(i) \in Int /\ NameFirst(i) \in Int
      <4>1. i \in 1 .. N /\ i - 1 \in 0 .. N
        BY <1>3
      <4>2. Begin(i - 1) \in Nat /\ Len(Name(i)) \in Nat /\ NameEnd(i) = Begin(i - 1) + 6 + Len(Name(i))
            /\ NameFirst(i) = Begin(i - 1) + 6
        BY <1>3, <4>1, StreamPositions DEF Positions
      <4> QED BY <1>12, <4>1, <4>2
    <3>2. ~Within(received', i)
      BY <1>3, <1>4, <1>5, <3>1 DEF Within
    <3> QED BY <1>13, <3>1, <3>2
  <2> QED BY <1>1, <1>3, <2>1, ServedIsKept DEF Inv
<1>16. Standing(Len(served), Consumed, prefix_counter)'
  BY <1>1, <1>3, <1>6, <1>10, <1>11 DEF Standing
<1> QED BY <1>8, <1>9, <1>14, <1>15, <1>16 DEF Inv

\* A name that what has been scanned ends within is one that what has been
\* received ends within.
ScannedWithin ==
  \A i \in 1 .. N :
    i = Len(served) + 1 /\ prefix_counter = 9 /\ Within(Consumed, i) => Within(received, i)

\* What the steps that use up the buffer have in common.
LEMMA UsedUpKeeps ==
  ASSUME Inv, UsedUp,
         buffer' \in [0 .. JOHNNY_BUFFER_SIZE - 1 -> BufferBytes], prefix_counter' \in 0 .. 9,
         Standing(Len(served), received, prefix_counter'),
         ScannedWithin
  PROVE  Inv'
<1> DEFINE n == Len(served)
<1>1. /\ buffer_offset' = 0 /\ buffer_size' = 0 /\ pc' = "recv" /\ requests' = requests
      /\ received' = received /\ bytes_parsed' = bytes_parsed /\ served' = served /\ cut' = cut
  BY DEF UsedUp
<1>2. /\ Requested /\ N \in Nat /\ Len(requests) = N
      /\ received \in Nat /\ received <= Len(stream) /\ Len(stream) \in Nat
      /\ JOHNNY_BUFFER_SIZE \in Nat \ {0}
      /\ n \in Nat /\ n <= N /\ DOMAIN served = 1 .. n
  BY InvFacts
<1>3. /\ N' = N /\ stream' = stream
      /\ \A q, i : Within(q, i)' <=> Within(q, i)
      /\ \A a, q, p : Standing(a, q, p)' <=> Standing(a, q, p)
  BY <1>1, Frozen
<1>4. Typed'
  <2>1. TypeOK'
    <3>1. cut' \subseteq 1 .. Len(requests') /\ bytes_parsed' \in 0 .. JOHNNY_BUFFER_SIZE
          /\ requests' \in BoundedSeq(Names \X Rests, MaxStream)
      BY <1>1 DEF Inv, Typed, TypeOK
    <3>2. received' \in 0 .. Len(stream) /\ Len(served') <= Len(requests')
          /\ buffer_offset' \in 0 .. JOHNNY_BUFFER_SIZE /\ buffer_size' \in 0 .. JOHNNY_BUFFER_SIZE
      BY <1>1, <1>2
    <3> QED BY <1>1, <1>3, <3>1, <3>2 DEF TypeOK
  <2>2. served' \in Seq(Seq(BufferBytes))
    BY <1>1 DEF Inv, Typed
  <2> QED BY <1>1, <2>1, <2>2 DEF Typed
<1>5. InBuffer'
  BY <1>1 DEF InBuffer
<1>6. Consumed' = received
  BY <1>1, <1>2 DEF Consumed
<1>7. Standing(Len(served), Consumed, prefix_counter)'
  BY <1>1, <1>2, <1>3, <1>6 DEF Standing
<1>8. Cuts'
  <2>1. ASSUME NEW i \in 1 .. N, i > n
        PROVE  i \in cut <=> \/ Within(received, i)
                             \/ i = n + 1 /\ prefix_counter' = 9 /\ Within(received, i)
    BY <1>2, <2>1 DEF Inv, Cuts, ScannedWithin
  <2> QED BY <1>1, <1>3, <1>6, <2>1 DEF Cuts, Within
<1>9. ServedAsSent'
  BY <1>1, ServedIsKept DEF Inv
<1> QED BY <1>4, <1>5, <1>7, <1>8, <1>9 DEF Inv

\* What is left of the buffer before a step of the scanner.
LEMMA Scanning ==
  ASSUME Inv, pc = "scan", bytes_parsed < buffer_size
  PROVE  /\ Standing(Len(served), Consumed, prefix_counter)
         /\ Consumed \in Nat /\ Consumed < received /\ Consumed < Len(stream)
         /\ received = Consumed + (buffer_size - bytes_parsed)
         /\ \A i \in bytes_parsed .. buffer_size - 1 : stream[Consumed + (i - bytes_parsed) + 1] = buffer[i]
<1>1. /\ buffer_size \in Nat /\ bytes_parsed \in Nat /\ received \in Nat /\ received <= Len(stream)
      /\ Consumed \in Nat /\ Consumed = received - (buffer_size - bytes_parsed) /\ Len(stream) \in Nat
  BY InvFacts
<1>2. \A i \in bytes_parsed .. buffer_size - 1 : buffer[i] = stream[received - buffer_size + i + 1]
  BY DEF Inv, InBuffer
<1>3. ASSUME NEW i \in bytes_parsed .. buffer_size - 1
      PROVE  stream[Consumed + (i - bytes_parsed) + 1] = buffer[i]
  <2>1. Consumed + (i - bytes_parsed) + 1 = received - buffer_size + i + 1
    BY <1>1
  <2> QED BY <1>2, <2>1
<1> QED BY <1>1, <1>3 DEF Inv

LEMMA BlankBuffer == Blank \in [0 .. JOHNNY_BUFFER_SIZE - 1 -> BufferBytes]
<1>1. "?" \in BufferBytes
  BY DEF BufferBytes
<1> QED BY <1>1 DEF Blank

LEMMA NoMoreNamesKeeps ==
  ASSUME Inv, NoMoreNames
  PROVE  Inv'
<1>1. /\ pc = "scan" /\ bytes_parsed >= buffer_size /\ buffer' = Blank /\ UsedUp
      /\ prefix_counter' = prefix_counter
  BY DEF NoMoreNames
<1>2. /\ buffer_size \in Nat /\ bytes_parsed \in Nat /\ received \in Nat
      /\ Consumed = received - (buffer_size - bytes_parsed) /\ prefix_counter \in 0 .. 9
  BY <1>1, InvFacts
<1>3. bytes_parsed <= buffer_size
  BY <1>1 DEF Inv, InBuffer
<1>4. Consumed = received
  BY <1>1, <1>2, <1>3
<1>5. Standing(Len(served), received, prefix_counter')
  BY <1>1, <1>4 DEF Inv
<1>6. ScannedWithin
  BY <1>4 DEF ScannedWithin
<1>7. buffer' \in [0 .. JOHNNY_BUFFER_SIZE - 1 -> BufferBytes] /\ prefix_counter' \in 0 .. 9
  BY <1>1, <1>2, BlankBuffer
<1> QED BY <1>1, <1>5, <1>6, <1>7, UsedUpKeeps

LEMMA MethodCutKeeps ==
  ASSUME Inv, MethodCut
  PROVE  Inv'
<1> DEFINE n == Len(served)
           q == Consumed
           p == prefix_counter
<1>1. /\ pc = "scan" /\ bytes_parsed < buffer_size /\ p >= 4 /\ NameStart >= buffer_size
      /\ p' = 9 - (NameStart - buffer_size) /\ buffer' = Blank /\ UsedUp
  BY DEF MethodCut, AtName
<1>2. /\ Requested /\ buffer_size \in Nat /\ bytes_parsed \in Nat /\ received \in Nat
      /\ received <= Len(stream) /\ p \in 0 .. 9 /\ n \in Nat
  BY InvFacts
<1>3. /\ Standing(n, q, p) /\ q \in Nat /\ q < received
      /\ received = q + (buffer_size - bytes_parsed)
  BY <1>1, Scanning
<1>4. p' = p + (received - q) /\ q + 9 - p >= received /\ p \in 4 .. 9
  BY <1>1, <1>2, <1>3 DEF NameStart
<1>5. p # 9 /\ p' \in 5 .. 9 /\ Standing(n, received, p')
  <2>1. p # 9 /\ p + (received - q) \in 5 .. 9 /\ Standing(n, received, p + (received - q))
    <3> HIDE DEF n, q, p
    <3> QED BY <1>2, <1>3, <1>4, EndsInMethod
  <2> QED BY <1>4, <2>1 DEF Standing
<1>6. buffer' \in [0 .. JOHNNY_BUFFER_SIZE - 1 -> BufferBytes] /\ prefix_counter' \in 0 .. 9
  BY <1>1, <1>5, BlankBuffer
<1>7. Standing(Len(served), received, prefix_counter')
  BY <1>5
<1>8. ScannedWithin
  BY <1>5 DEF ScannedWithin
<1> QED BY <1>1, <1>6, <1>7, <1>8, UsedUpKeeps

LEMMA NameCutKeeps ==
  ASSUME Inv, NameCut
  PROVE  Inv'
<1> DEFINE n == Len(served)
           q == Consumed
           p == prefix_counter
<1>1. /\ pc = "scan" /\ bytes_parsed < buffer_size /\ p >= 4 /\ NameStart < buffer_size
      /\ \A i \in NameStart .. buffer_size - 1 : buffer[i] # "SP"
      /\ p' = 9 /\ UsedUp
      /\ buffer' = [i \in DOMAIN buffer |->
           IF i < buffer_size - NameStart THEN buffer[NameStart + i] ELSE "?"]
  BY DEF NameCut, AtName
<1>2. /\ Requested /\ buffer_size \in Nat /\ bytes_parsed \in Nat /\ received \in Nat
      /\ received <= Len(stream) /\ p \in 0 .. 9 /\ n \in Nat /\ n <= N /\ N \in Nat
      /\ JOHNNY_BUFFER_SIZE \in Nat \ {0} /\ buffer_size <= JOHNNY_BUFFER_SIZE
  BY InvFacts
<1>3. /\ Standing(n, q, p) /\ q \in Nat /\ q < received
      /\ received = q + (buffer_size - bytes_parsed)
      /\ \A i \in bytes_parsed .. buffer_size - 1 : stream[q + (i - bytes_parsed) + 1] = buffer[i]
  BY <1>1, Scanning
<1>4. /\ q + 9 - p < received /\ p \in 4 .. 9
      /\ NameStart = bytes_parsed + 9 - p /\ NameStart \in Nat /\ NameStart >= bytes_parsed
  BY <1>1, <1>2, <1>3 DEF NameStart
<1>5. ASSUME NEW x \in q + 9 - p + 1 .. received PROVE stream[x] # "SP"
  <2>1. PICK i \in NameStart .. buffer_size - 1 : x = q + (i - bytes_parsed) + 1 /\ i \in bytes_parsed .. buffer_size - 1
    <3> DEFINE i == x - q - 1 + bytes_parsed
    <3>1. i \in NameStart .. buffer_size - 1 /\ x = q + (i - bytes_parsed) + 1 /\ i \in bytes_parsed .. buffer_size - 1
      BY <1>2, <1>3, <1>4, <1>5
    <3> QED BY <3>1
  <2> QED BY <1>1, <1>3, <2>1
<1>6. n + 1 \in 1 .. N /\ received < NameEnd(n + 1) /\ Standing(n, received, 9)
  <2> HIDE DEF n, q, p
  <2> QED BY <1>2, <1>3, <1>4, <1>5, EndsInName
<1>7. Standing(Len(served), received, prefix_counter')
  BY <1>1, <1>6 DEF Standing
<1>8. ScannedWithin
  <2> SUFFICES ASSUME Within(q, n + 1) PROVE Within(received, n + 1)
    BY DEF ScannedWithin
  <2>1. NameFirst(n + 1) \in Int /\ NameEnd(n + 1) \in Int
    <3>1. (n + 1) - 1 \in 0 .. N
      BY <1>2
    <3>2. /\ NameFirst(n + 1) = Begin((n + 1) - 1) + 6 /\ Begin((n + 1) - 1) \in Nat
          /\ NameEnd(n + 1) = Begin((n + 1) - 1) + 6 + Len(Name(n + 1)) /\ Len(Name(n + 1)) \in Nat
      BY <1>2, <1>6, <3>1, StreamPositions DEF Positions
    <3> QED BY <3>2
  <2> QED BY <1>2, <1>3, <1>6, <2>1 DEF Within
<1>9. buffer' \in [0 .. JOHNNY_BUFFER_SIZE - 1 -> BufferBytes]
  <2>1. buffer \in [0 .. JOHNNY_BUFFER_SIZE - 1 -> BufferBytes]
    BY DEF Inv, Typed
  <2>2. "?" \in BufferBytes
    BY DEF BufferBytes
  <2>3. ASSUME NEW i \in 0 .. JOHNNY_BUFFER_SIZE - 1, i < buffer_size - NameStart
        PROVE  buffer[NameStart + i] \in BufferBytes
    <3>1. NameStart + i \in 0 .. JOHNNY_BUFFER_SIZE - 1
      BY <1>2, <1>4, <2>3
    <3> QED BY <2>1, <3>1
  <2> QED BY <1>1, <2>1, <2>2, <2>3
<1>10. prefix_counter' \in 0 .. 9
  BY <1>1
<1> QED BY <1>1, <1>7, <1>8, <1>9, <1>10, UsedUpKeeps

LEMMA MatchDelimiterKeeps ==
  ASSUME Inv, NoDoubleCR, MatchDelimiter
  PROVE  Inv'
<1> DEFINE n == Len(served)
           q == Consumed
           p == prefix_counter
<1>1. /\ pc = "scan" /\ bytes_parsed < buffer_size /\ p < 4
      /\ p' = IF buffer[bytes_parsed] = Delimiter[p + 1] THEN p + 1 ELSE 0
      /\ bytes_parsed' = bytes_parsed + 1
      /\ requests' = requests /\ received' = received /\ buffer' = buffer /\ buffer_offset' = buffer_offset
      /\ buffer_size' = buffer_size /\ pc' = pc /\ served' = served /\ cut' = cut
  BY DEF MatchDelimiter
<1>2. /\ Requested /\ buffer_size \in Nat /\ bytes_parsed \in Nat /\ received \in Nat
      /\ received <= Len(stream) /\ p \in 0 .. 9 /\ n \in Nat /\ n <= N /\ N \in Nat /\ Len(requests) = N
      /\ JOHNNY_BUFFER_SIZE \in Nat \ {0} /\ buffer_size <= JOHNNY_BUFFER_SIZE /\ DOMAIN served = 1 .. n
      /\ Consumed = received - (buffer_size - bytes_parsed)
  BY <1>1, InvFacts
<1>3. /\ Standing(n, q, p) /\ q \in Nat /\ q < received
      /\ \A i \in bytes_parsed .. buffer_size - 1 : stream[q + (i - bytes_parsed) + 1] = buffer[i]
  BY <1>1, Scanning
<1>4. p \in 0 .. 3
  BY <1>1, <1>2
<1>5. stream[q + 1] = buffer[bytes_parsed]
  <2>1. bytes_parsed \in bytes_parsed .. buffer_size - 1 /\ q + (bytes_parsed - bytes_parsed) + 1 = q + 1
    BY <1>1, <1>2, <1>3
  <2> QED BY <1>3, <2>1
<1>6. Standing(n, q + 1, p')
  <2>1. Standing(n, q + 1, IF stream[q + 1] = Delimiter[p + 1] THEN p + 1 ELSE 0)
    <3> HIDE DEF n, q, p
    <3> QED BY <1>2, <1>3, <1>4, ByteOfTheRest
  <2> QED BY <1>1, <1>5, <2>1 DEF Standing
<1>7. p' \in 0 .. 4
  BY <1>1, <1>4
<1>8. /\ N' = N /\ stream' = stream
      /\ \A x, i : Within(x, i)' <=> Within(x, i)
      /\ \A a, x, y : Standing(a, x, y)' <=> Standing(a, x, y)
  BY <1>1, Frozen
<1>9. Typed'
  <2>1. TypeOK'
    <3>1. bytes_parsed' \in 0 .. JOHNNY_BUFFER_SIZE /\ prefix_counter' \in 0 .. 9
      BY <1>1, <1>2, <1>7
    <3>2. TypeOK
      BY DEF Inv, Typed
    <3> QED BY <1>1, <1>8, <3>1, <3>2 DEF TypeOK
  <2> QED BY <1>1, <2>1 DEF Inv, Typed
<1>10. InBuffer'
  <2>1. bytes_parsed' <= buffer_size
    BY <1>1, <1>2
  <2>2. ASSUME NEW i \in bytes_parsed' .. buffer_size - 1
        PROVE  buffer[i] = stream[received - buffer_size + i + 1]
    <3>1. i \in bytes_parsed .. buffer_size - 1
      BY <1>1, <1>2, <2>2
    <3> QED BY <1>1, <3>1 DEF Inv, InBuffer
  <2>3. buffer_size <= received
    BY <1>1 DEF Inv, InBuffer
  <2> QED BY <1>1, <1>8, <2>1, <2>2, <2>3 DEF InBuffer
<1>11. Consumed' = q + 1
  BY <1>1, <1>2, <1>3 DEF Consumed
<1>12. Standing(Len(served), Consumed, prefix_counter)'
  <2>1. PICK a, x, y : a = n /\ x = q + 1 /\ y = p'
    OBVIOUS
  <2>2. Standing(a, x, y)
    BY <1>6, <2>1
  <2>3. Standing(a, x, y)'
    <3>1. Standing(a, x, y)' <=> Standing(a, x, y)
      BY <1>8
    <3> QED BY <2>2, <3>1
  <2>4. Len(served)' = a /\ Consumed' = x /\ prefix_counter' = y
    BY <1>1, <1>11, <2>1
  <2> QED BY <2>3, <2>4 DEF Standing
<1>13. Cuts'
  <2>1. ASSUME NEW i \in 1 .. N, i > n PROVE i \in cut <=> Within(received, i)
    BY <1>2, <1>4, <2>1 DEF Inv, Cuts
  <2>2. prefix_counter' # 9
    BY <1>7
  <2> QED BY <1>1, <1>8, <2>1, <2>2 DEF Cuts, Within
<1>14. ServedAsSent'
  BY <1>1, ServedIsKept DEF Inv
<1> QED BY <1>9, <1>10, <1>12, <1>13, <1>14 DEF Inv

LEMMA SuffixElements ==
  ASSUME NEW S, NEW s \in Seq(S), NEW t \in Seq(S), Len(s) <= Len(t)
  PROVE  IsSuffix(s, t) <=> \A i \in 1 .. Len(s) : s[i] = t[Len(t) - Len(s) + i]
<1> DEFINE l == Len(s)
           m == Len(t)
           rs == Reverse(s)
           rt == Reverse(t)
           ps == SubSeq(rs, 1, Len(rs))
           pt == SubSeq(rt, 1, Len(rs))
<1>1. l \in Nat /\ m \in Nat /\ l <= m
  BY LenProperties
<1>2. rs \in Seq(S) /\ Len(rs) = l /\ \A i \in 1 .. l : rs[i] = s[l - i + 1]
  <2>1. rs = [i \in 1 .. l |-> s[l - i + 1]]
    BY DEF Reverse
  <2>2. \A i \in 1 .. l : l - i + 1 \in 1 .. l
    BY <1>1
  <2>3. \A i \in 1 .. l : s[l - i + 1] \in S
    BY <2>2, ElementOfSeq
  <2> HIDE DEF rs
  <2>4. rs \in [1 .. l -> S]
    BY <2>1, <2>3
  <2> QED BY <1>1, <2>1, <2>4
<1>3. rt \in Seq(S) /\ Len(rt) = m /\ \A i \in 1 .. m : rt[i] = t[m - i + 1]
  <2>1. rt = [i \in 1 .. m |-> t[m - i + 1]]
    BY DEF Reverse
  <2>2. \A i \in 1 .. m : m - i + 1 \in 1 .. m
    BY <1>1
  <2>3. \A i \in 1 .. m : t[m - i + 1] \in S
    BY <2>2, ElementOfSeq
  <2> HIDE DEF rt
  <2>4. rt \in [1 .. m -> S]
    BY <2>1, <2>3
  <2> QED BY <1>1, <2>1, <2>4
<1>4. IsSuffix(s, t) <=> ps = pt
  BY <1>1, <1>2, <1>3 DEF IsSuffix, IsPrefix
<1> HIDE DEF rs, rt
<1>5. \A u \in Seq(S) : l <= Len(u) =>
        /\ SubSeq(u, 1, l) \in Seq(S) /\ Len(SubSeq(u, 1, l)) = l
        /\ \A i \in 1 .. l : SubSeq(u, 1, l)[i] = u[i]
  <2> SUFFICES ASSUME NEW u \in Seq(S), l <= Len(u)
               PROVE  /\ SubSeq(u, 1, l) \in Seq(S) /\ Len(SubSeq(u, 1, l)) = l
                      /\ \A i \in 1 .. l : SubSeq(u, 1, l)[i] = u[i]
    OBVIOUS
  <2> DEFINE w == SubSeq(u, 1, l)
  <2>1. Len(u) \in Nat /\ 1 \in 1 .. Len(u) + 1 /\ l \in 0 .. Len(u)
    BY <1>1, LenProperties
  <2>2. /\ w \in Seq(S) /\ Len(w) = IF 1 <= l THEN l - 1 + 1 ELSE 0
        /\ \A i \in 1 .. l - 1 + 1 : w[i] = u[1 + i - 1]
    BY <2>1, SubSeqProperties
  <2> HIDE DEF w
  <2>3. \A i \in 1 .. l : 1 + i - 1 = i /\ i \in 1 .. l - 1 + 1
    BY <1>1
  <2>4. Len(w) = l
    BY <1>1, <2>2
  <2>5. \A i \in 1 .. l : w[i] = u[i]
    BY <2>2, <2>3
  <2> QED BY <2>2, <2>4, <2>5 DEF w
<1>6. /\ ps \in Seq(S) /\ Len(ps) = l /\ \A i \in 1 .. l : ps[i] = rs[i]
      /\ pt \in Seq(S) /\ Len(pt) = l /\ \A i \in 1 .. l : pt[i] = rt[i]
  BY <1>1, <1>2, <1>3, <1>5
<1> HIDE DEF ps, pt
<1>7. ps = pt <=> \A i \in 1 .. l : rs[i] = rt[i]
  <2>1. ASSUME \A i \in 1 .. l : rs[i] = rt[i] PROVE ps = pt
    BY <1>6, <2>1, SeqEqual
  <2> QED BY <1>6, <2>1
<1>8. \A i \in 1 .. l : rs[i] = s[l - i + 1] /\ rt[i] = t[m - i + 1]
  BY <1>1, <1>2, <1>3
<1>9. ASSUME \A i \in 1 .. l : rs[i] = rt[i], NEW i \in 1 .. l PROVE s[i] = t[m - l + i]
  <2>1. l - i + 1 \in 1 .. l /\ l - (l - i + 1) + 1 = i /\ m - (l - i + 1) + 1 = m - l + i
    BY <1>1
  <2> QED BY <1>8, <1>9, <2>1
<1>10. ASSUME \A i \in 1 .. l : s[i] = t[m - l + i], NEW i \in 1 .. l PROVE rs[i] = rt[i]
  <2>1. l - i + 1 \in 1 .. l /\ m - l + (l - i + 1) = m - i + 1
    BY <1>1
  <2> QED BY <1>8, <1>10, <2>1
<1> QED BY <1>4, <1>7, <1>9, <1>10

LEMMA NameFoundKeeps ==
  ASSUME Inv, NameFound
  PROVE  Inv'
<1>1. PICK n, q, p, s : n = Len(served) /\ q = Consumed /\ p = prefix_counter /\ s = q + 9 - p
  OBVIOUS
<1>2. /\ pc = "scan" /\ bytes_parsed < buffer_size /\ p >= 4 /\ prefix_counter' = 0
      /\ requests' = requests /\ received' = received /\ buffer_size' = buffer_size
      /\ pc' = pc /\ cut' = cut
  BY <1>1 DEF NameFound, AtName
<1>3. PICK end \in NameStart .. buffer_size - 1 :
       /\ buffer[end] = "SP"
       /\ \A i \in NameStart .. end - 1 : buffer[i] # "SP"
       /\ served' = Append(served, [i \in 1 .. end - NameStart |-> buffer[NameStart + i - 1]])
       /\ buffer' = [buffer EXCEPT ![end] = "NUL"]
       /\ buffer_offset' = end + 1
       /\ bytes_parsed' = end + 1
  BY DEF NameFound
<1>4. /\ Requested /\ buffer_size \in Nat /\ bytes_parsed \in Nat /\ received \in Nat
      /\ received <= Len(stream) /\ Len(stream) \in Nat
      /\ p \in 0 .. 9 /\ n \in Nat /\ n <= N /\ N \in Nat /\ Len(requests) = N
      /\ JOHNNY_BUFFER_SIZE \in Nat \ {0} /\ buffer_size <= JOHNNY_BUFFER_SIZE /\ DOMAIN served = 1 .. n
  BY <1>1, InvFacts
<1>5. /\ Standing(n, q, p) /\ q \in Nat /\ q < received /\ q < Len(stream)
      /\ received = q + (buffer_size - bytes_parsed)
      /\ \A i \in bytes_parsed .. buffer_size - 1 : stream[q + (i - bytes_parsed) + 1] = buffer[i]
  BY <1>1, <1>2, Scanning
<1>6. p \in 4 .. 9
  BY <1>2, <1>4
<1>7. /\ NameStart = bytes_parsed + 9 - p /\ NameStart \in Nat /\ NameStart >= bytes_parsed /\ s \in Nat
      /\ NameStart = bytes_parsed + (s - q) /\ s >= q
  BY <1>1, <1>4, <1>5, <1>6 DEF NameStart
<1>8. PICK e : e = q + (end - bytes_parsed) + 1
  OBVIOUS
<1>9. /\ e \in Nat /\ s < e /\ e <= received /\ end \in Nat /\ end < buffer_size /\ end >= bytes_parsed
      /\ end - NameStart = e - 1 - s /\ e - 1 - s \in Nat
  BY <1>3, <1>4, <1>5, <1>7, <1>8
<1>10. stream[e] = "SP"
  BY <1>3, <1>4, <1>5, <1>8, <1>9
<1>11. ASSUME NEW x \in s + 1 .. e - 1
       PROVE  /\ NameStart + (x - s) - 1 \in NameStart .. end - 1
              /\ stream[x] = buffer[NameStart + (x - s) - 1] /\ stream[x] # "SP"
  <2>1. PICK i : i = NameStart + (x - s) - 1
    OBVIOUS
  <2>2. /\ i \in NameStart .. end - 1 /\ i \in bytes_parsed .. buffer_size - 1
        /\ q + (i - bytes_parsed) + 1 = x
    BY <1>4, <1>5, <1>7, <1>8, <1>9, <2>1
  <2>3. stream[x] = buffer[i] /\ buffer[i] # "SP"
    BY <1>3, <1>5, <2>2
  <2> QED BY <2>1, <2>2, <2>3
<1>12. n + 1 \in 1 .. N /\ e = NameEnd(n + 1) /\ Standing(n + 1, e, 0)
  <2>1. \A x \in q + 9 - p + 1 .. e - 1 : stream[x] # "SP"
    BY <1>1, <1>11
  <2>2. q + 9 - p < e
    BY <1>1, <1>9
  <2> QED BY <1>4, <1>5, <1>6, <1>9, <1>10, <2>1, <2>2, EndsAName
<1>13. PICK b, l : b = Begin(n) /\ l = Len(Name(n + 1))
  OBVIOUS
<1>13a. /\ b \in Nat /\ l \in Nat /\ NameFirst(n + 1) = b + 6 /\ NameEnd(n + 1) = b + 6 + l
       /\ e = b + 6 + l /\ s >= b + 5 /\ s < e /\ (p # 9 => s = b + 5)
  <2>0. /\ Requested /\ n \in Nat /\ q \in Nat /\ p \in 4 .. 9 /\ Standing(n, q, p)
        /\ q < Len(stream)
    BY <1>2, <1>4, <1>5
  <2>1. /\ Begin(n) \in Nat /\ Len(Name(n + 1)) \in Nat
        /\ NameFirst(n + 1) = Begin(n) + 6 /\ NameEnd(n + 1) = Begin(n) + 6 + Len(Name(n + 1))
        /\ q + 9 - p >= Begin(n) + 5 /\ q + 9 - p < NameEnd(n + 1)
        /\ (p # 9 => q + 9 - p = Begin(n) + 5)
    BY <2>0, AheadOfAName
  <2> QED BY <1>1, <1>12, <1>13, <2>1
<1>14. /\ N' = N /\ stream' = stream
       /\ \A x, i : Within(x, i)' <=> Within(x, i)
       /\ \A a, x, y : Standing(a, x, y)' <=> Standing(a, x, y)
  BY <1>2, Frozen
\* What is served.
<1>15. PICK w : w = [i \in 1 .. end - NameStart |-> buffer[NameStart + i - 1]]
  OBVIOUS
<1>16. /\ w \in Seq(BufferBytes) /\ Len(w) = e - 1 - s
       /\ \A i \in 1 .. e - 1 - s : w[i] = stream[s + i]
  <2>1. w = [i \in 1 .. e - 1 - s |-> buffer[NameStart + i - 1]]
    BY <1>9, <1>15
  <2>2. ASSUME NEW i \in 1 .. e - 1 - s
        PROVE  buffer[NameStart + i - 1] = stream[s + i] /\ stream[s + i] \in BufferBytes
    <3>1. s + i \in s + 1 .. e - 1 /\ (s + i) - s = i /\ s + i \in 1 .. Len(stream)
      BY <1>4, <1>7, <1>9
    <3>2. stream \in Seq(Bytes)
      BY InvFacts
    <3>3. stream[s + i] \in Bytes
      BY <1>4, <3>1, <3>2
    <3>4. stream[s + i] = buffer[NameStart + i - 1]
      BY <1>11, <3>1
    <3> QED BY <3>3, <3>4 DEF BufferBytes
  <2>3. w \in [1 .. e - 1 - s -> BufferBytes]
    BY <2>1, <2>2
  <2> QED BY <1>9, <2>1, <2>2, <2>3
<1>17. /\ served \in Seq(Seq(BufferBytes)) /\ served' \in Seq(Seq(BufferBytes)) /\ Len(served') = n + 1
       /\ \A i \in 1 .. n : served'[i] = served[i]
       /\ served'[n + 1] = w
  <2>1. served \in Seq(Seq(BufferBytes)) /\ served' = Append(served, w)
    BY <1>3, <1>15 DEF Inv, Typed
  <2> QED BY <1>1, <1>4, <1>16, <2>1, AppendProperties
<1>18. Typed'
  <2>1. buffer' \in [0 .. JOHNNY_BUFFER_SIZE - 1 -> BufferBytes]
    <3>1. "NUL" \in BufferBytes
      BY DEF BufferBytes
    <3>2. buffer \in [0 .. JOHNNY_BUFFER_SIZE - 1 -> BufferBytes]
      BY DEF Inv, Typed
    <3> QED BY <1>3, <3>1, <3>2
  <2>2. TypeOK'
    <3>1. /\ buffer_offset' \in 0 .. JOHNNY_BUFFER_SIZE /\ bytes_parsed' \in 0 .. JOHNNY_BUFFER_SIZE
          /\ prefix_counter' \in 0 .. 9
      BY <1>2, <1>3, <1>4, <1>9
    <3>2. /\ requests' \in BoundedSeq(Names \X Rests, MaxStream) /\ received' \in 0 .. Len(stream')
          /\ buffer_size' \in 0 .. JOHNNY_BUFFER_SIZE /\ pc' \in {"recv", "scan"}
          /\ cut' \subseteq 1 .. Len(requests')
      BY <1>2, <1>14 DEF Inv, Typed, TypeOK
    <3>3. Len(served') <= Len(requests')
      BY <1>2, <1>4, <1>12, <1>17
    <3>4. DOMAIN buffer' = 0 .. JOHNNY_BUFFER_SIZE - 1
      BY <2>1
    <3> QED BY <3>1, <3>2, <3>3, <3>4 DEF TypeOK
  <2> QED BY <1>2, <1>17, <2>1, <2>2 DEF Typed
<1>19. InBuffer'
  <2>1. buffer_size <= received /\ bytes_parsed' <= buffer_size
    BY <1>2, <1>3, <1>4, <1>9 DEF Inv, InBuffer
  <2>2. ASSUME NEW i \in bytes_parsed' .. buffer_size - 1
        PROVE  buffer'[i] = stream[received - buffer_size + i + 1]
    <3>1. i \in bytes_parsed .. buffer_size - 1 /\ i # end /\ i \in 0 .. JOHNNY_BUFFER_SIZE - 1
      BY <1>3, <1>4, <1>9, <2>2
    <3>2. DOMAIN buffer = 0 .. JOHNNY_BUFFER_SIZE - 1
      BY DEF Inv, Typed
    <3>3. buffer'[i] = buffer[i]
      BY <1>3, <3>1, <3>2
    <3> QED BY <1>2, <3>1, <3>3 DEF Inv, InBuffer
  <2> QED BY <1>2, <1>14, <2>1, <2>2 DEF InBuffer
<1>20. Consumed' = e
  BY <1>2, <1>3, <1>4, <1>5, <1>8, <1>9 DEF Consumed
<1>21. Standing(Len(served), Consumed, prefix_counter)'
  <2>1. PICK a : a = n + 1
    OBVIOUS
  <2>2. Standing(a, e, 0)
    BY <1>12, <2>1
  <2>3. Standing(a, e, 0)'
    BY <1>14, <2>2
  <2>4. Len(served)' = a /\ Consumed' = e /\ prefix_counter' = 0
    BY <1>2, <1>17, <1>20, <2>1
  <2> QED BY <2>3, <2>4 DEF Standing
<1>22. ASSUME NEW i \in 1 .. N, i > n
       PROVE  i \in cut <=> (Within(received, i) \/ (i = n + 1 /\ p = 9 /\ Within(q, i)))
  <2>1. Cuts /\ i > Len(served)
    BY <1>1, <1>22 DEF Inv
  <2>2. i \in cut <=> \/ Within(received, i)
                      \/ i = Len(served) + 1 /\ prefix_counter = 9 /\ Within(Consumed, i)
    BY <1>22, <2>1 DEF Cuts
  <2> QED BY <1>1, <2>2
<1>23. Cuts'
  <2>1. ASSUME NEW i \in 1 .. N, i > n + 1 PROVE i \in cut <=> Within(received, i)
    <3>1. i > n /\ i # n + 1
      BY <1>4, <2>1
    <3>2. i \in cut <=> (Within(received, i) \/ (i = n + 1 /\ p = 9 /\ Within(q, i)))
      BY <1>22, <3>1
    <3> QED BY <3>1, <3>2
  <2> QED BY <1>2, <1>14, <1>17, <2>1 DEF Cuts, Within
<1>24. n + 1 \in cut <=> p = 9 /\ Within(q, n + 1)
  <2>1. ~Within(received, n + 1)
    BY <1>4, <1>9, <1>13a DEF Within
  <2>2. n + 1 \in 1 .. N /\ n + 1 > n
    BY <1>4, <1>12
  <2> QED BY <1>22, <2>1, <2>2
<1>25. /\ Name(n + 1) \in Seq(Bytes) /\ requests[n + 1][1] = Name(n + 1)
       /\ Name(n + 1) \in Seq(BufferBytes)
       /\ \A i \in 1 .. e - 1 - s : w[i] = Name(n + 1)[s + i - (b + 5)]
  <2>1. ASSUME NEW i \in 1 .. e - 1 - s PROVE w[i] = Name(n + 1)[s + i - (b + 5)]
    <3>1. s + i \in b + 6 .. (b + 6 + l) - 1
      BY <1>7, <1>13a
    <3>2. s + i \in Begin(n) + 6 .. NameEnd(n + 1) - 1
      BY <1>13, <1>13a, <3>1
    <3>3. \A x \in Begin(n) + 6 .. NameEnd(n + 1) - 1 : stream[x] = Name(n + 1)[x - (Begin(n) + 5)]
      BY <1>4, <1>12, NameBytes
    <3>4. stream[s + i] = Name(n + 1)[(s + i) - (Begin(n) + 5)]
      BY <3>2, <3>3, Zenon
    <3>5. w[i] = stream[s + i]
      BY <1>16, <2>1
    <3>6. (s + i) - (Begin(n) + 5) = s + i - (b + 5)
      BY <1>7, <1>13, <1>13a, <2>1
    <3> QED BY <3>4, <3>5, <3>6
  <2>2. Name(n + 1) \in Seq(Bytes) /\ requests[n + 1][1] = Name(n + 1)
    BY <1>4, <1>12, RequestTypes DEF Name
  <2>3. Name(n + 1) \in Seq(BufferBytes)
    BY <2>2, SeqMonotonic DEF BufferBytes
  <2> QED BY <2>1, <2>2, <2>3
<1>26. ASSUME n + 1 \notin cut PROVE w = Name(n + 1)
  <2>1. s = b + 5
    <3>1. CASE p # 9
      BY <1>13a, <3>1
    <3>2. CASE p = 9
      <4>1. ~(q \in NameFirst(n + 1) .. NameEnd(n + 1) - 1) /\ s = q
        BY <1>1, <1>5, <1>24, <1>26, <3>2 DEF Within
      <4>2. ~(q \in b + 6 .. (b + 6 + l) - 1)
        BY <1>13a, <4>1
      <4> QED BY <1>5, <1>13a, <4>1, <4>2
    <3> QED BY <3>1, <3>2
  <2>2. e - 1 - s = l
    BY <1>13a, <2>1
  <2>3. \A i \in 1 .. l : w[i] = Name(n + 1)[i]
    <3>1. \A i \in 1 .. l : s + i - (b + 5) = i
      BY <1>13a, <2>1
    <3> QED BY <1>25, <2>2, <3>1
  <2> QED BY <1>13, <1>16, <1>25, <2>2, <2>3, SeqEqual
<1>27. ASSUME n + 1 \in cut PROVE IsStrictSuffix(w, Name(n + 1))
  <2>1. s = q /\ q >= b + 6
    <3>1. p = 9 /\ q \in NameFirst(n + 1) .. NameEnd(n + 1) - 1
      BY <1>24, <1>27 DEF Within
    <3> QED BY <1>1, <1>5, <1>13a, <3>1
  <2>2. Len(w) < l /\ Len(w) \in Nat /\ Len(w) = e - 1 - s
    <3>1. Len(w) = e - 1 - s /\ Len(w) \in Nat
      BY <1>9, <1>16
    <3>2. e - 1 - s < l
      BY <1>5, <1>13a, <2>1
    <3> QED BY <3>1, <3>2
  <2>3. \A i \in 1 .. Len(w) : w[i] = Name(n + 1)[l - Len(w) + i]
    <3>1. \A i \in 1 .. e - 1 - s : s + i - (b + 5) = l - (e - 1 - s) + i
      BY <1>7, <1>13a
    <3> QED BY <1>25, <2>2, <3>1
  <2>4. Len(w) <= Len(Name(n + 1)) /\ w # Name(n + 1)
    BY <1>13, <1>13a, <2>2
  <2>5. IsSuffix(w, Name(n + 1))
    BY <1>13, <1>16, <1>25, <2>3, <2>4, SuffixElements
  <2> QED BY <2>4, <2>5 DEF IsStrictSuffix
<1>28. ServedAsSent'
  <2>1. DOMAIN served' = 1 .. n + 1
    BY <1>17
  <2>2. ASSUME NEW i \in 1 .. n + 1
        PROVE  /\ i \notin cut => served'[i] = requests[i][1]
               /\ i \in cut => IsStrictSuffix(served'[i], requests[i][1])
    <3>1. CASE i = n + 1
      BY <1>17, <1>25, <1>26, <1>27, <3>1
    <3>2. CASE i # n + 1
      <4>1. i \in 1 .. n
        BY <1>4, <3>2
      <4> QED BY <1>4, <1>17, <4>1 DEF Inv, ServedAsSent
    <3> QED BY <3>1, <3>2
  <2> QED BY <1>2, <2>1, <2>2 DEF ServedAsSent
<1> QED BY <1>18, <1>19, <1>21, <1>23, <1>28 DEF Inv

-----------------------------------------------------------------------------
(* What the invariant implies.                                             *)

\* The bytes seen end in a part of the empty line when the last of them match it.
LEMMA SuffixIsMatched ==
  ASSUME NEW lo \in Nat \ {0}, NEW q \in Nat, q + 1 >= lo, q <= Len(stream), stream \in Seq(Bytes),
         NEW k \in 0 .. 3
  PROVE  IsSuffix(SubSeq(Delimiter, 1, k), SubSeq(stream, lo, q)) <=> Matched(lo, q, k)
<1> DEFINE d == Delimiter
           s == SubSeq(d, 1, k)
           t == stream
           u == SubSeq(t, lo, q)
           l == q - lo + 1
<1>1. d \in Seq(Bytes) /\ Len(d) = 4
  <2>1. {"CR", "LF"} \subseteq Bytes
    BY DEF Bytes
  <2>2. \A B, v, w : {v, w} \subseteq B => <<v, w, v, w>> \in Seq(B)
    OBVIOUS
  <2> QED BY <2>1, <2>2 DEF Delimiter
<1> HIDE DEF d
<1>2. s \in Seq(Bytes) /\ Len(s) = k /\ \A i \in 1 .. k : s[i] = d[i]
  <2>1. \A i \in 1 .. k : d[i] \in Bytes
    <3>1. \A i \in 1 .. k : i \in 1 .. Len(d)
      BY <1>1
    <3> QED BY <1>1, <3>1, ElementOfSeq
  <2>2. /\ s \in Seq(Bytes) /\ Len(s) = IF 1 <= k THEN k - 1 + 1 ELSE 0
        /\ \A i \in 1 .. k - 1 + 1 : s[i] = d[1 + i - 1]
    BY <2>1, SubSeqProperties
  <2> HIDE DEF s
  <2>3. \A i \in 1 .. k : 1 + i - 1 = i /\ i \in 1 .. k - 1 + 1
    OBVIOUS
  <2>4. Len(s) = k
    BY <2>2
  <2> QED BY <2>2, <2>3, <2>4
<1>3. u \in Seq(Bytes) /\ Len(u) = l /\ l \in Nat /\ \A i \in 1 .. l : u[i] = t[lo + i - 1]
  <2>1. \A i \in lo .. q : t[i] \in Bytes
    <3>1. \A i \in lo .. q : i \in 1 .. Len(t)
      BY LenProperties
    <3> QED BY <3>1, ElementOfSeq
  <2>2. /\ u \in Seq(Bytes) /\ Len(u) = IF lo <= q THEN q - lo + 1 ELSE 0
        /\ \A i \in 1 .. q - lo + 1 : u[i] = t[lo + i - 1]
    BY <2>1, SubSeqProperties
  <2> HIDE DEF u
  <2>3. l \in Nat /\ Len(u) = l
    BY <2>2
  <2> QED BY <2>2, <2>3
<1> HIDE DEF s, t, u
<1>4. CASE k > l
  <2>1. ~IsSuffix(s, u)
    <3>1. Len(Reverse(s)) = k /\ Len(Reverse(u)) = l
      BY <1>2, <1>3 DEF Reverse
    <3> QED BY <1>3, <1>4, <3>1 DEF IsSuffix, IsPrefix
  <2>2. ~Matched(lo, q, k)
    BY <1>4 DEF Matched
  <2> QED BY <2>1, <2>2 DEF s, u, d, t
<1>5. CASE k <= l
  <2>1. IsSuffix(s, u) <=> \A i \in 1 .. k : s[i] = u[l - k + i]
    <3>1. IsSuffix(s, u) <=> \A i \in 1 .. Len(s) : s[i] = u[Len(u) - Len(s) + i]
      <4>1. s \in Seq(Bytes) /\ u \in Seq(Bytes) /\ Len(s) <= Len(u)
        BY <1>2, <1>3, <1>5
      <4> QED BY <4>1, SuffixElements
    <3> QED BY <1>2, <1>3, <3>1
  <2>2. ASSUME NEW i \in 1 .. k PROVE s[i] = d[i] /\ u[l - k + i] = t[q - k + i]
    <3>1. l - k + i \in 1 .. l /\ lo + (l - k + i) - 1 = q - k + i
      BY <1>3, <1>5
    <3> QED BY <1>2, <1>3, <3>1
  <2>3. Matched(lo, q, k) <=> \A i \in 1 .. k : t[q - k + i] = d[i]
    <3>1. q - k + 1 >= lo
      BY <1>3, <1>5
    <3> QED BY <3>1 DEF Matched, d, t
  <2>4. (\A i \in 1 .. k : s[i] = u[l - k + i]) <=> (\A i \in 1 .. k : t[q - k + i] = d[i])
    BY <2>2
  <2> QED BY <2>1, <2>3, <2>4 DEF s, u, d, t
<1> QED BY <1>3, <1>4, <1>5

LEMMA InvIsInStep ==
  ASSUME Inv
  PROVE  InStep
<1>1. PICK n, q, p : n = Len(served) /\ q = Consumed /\ p = prefix_counter
  OBVIOUS
<1>2. /\ Requested /\ N \in Nat /\ Len(requests) = N /\ stream \in Seq(Bytes) /\ Len(stream) \in Nat
      /\ n \in Nat /\ n <= N /\ q \in Nat /\ q <= Len(stream) /\ p \in 0 .. 9
  BY <1>1, InvFacts
<1>3. Standing(n, q, p)
  BY <1>1 DEF Inv
<1>4. n \in 0 .. N /\ Begin(n) \in Nat
  BY <1>2, StreamPositions DEF Positions
<1>5. n > 0 => NameEnd(n) <= q
  BY <1>2, <1>3, BehindAndAhead
<1>6. n < N => q < NameEnd(n + 1)
  <2> SUFFICES ASSUME n < N PROVE q < NameEnd(n + 1)
    OBVIOUS
  <2>1. CASE p >= 4
    BY <1>3, <2>1 DEF Standing
  <2>2. CASE p < 4
    <3>1. q < Begin(n)
      BY <1>3, <2>2 DEF Standing
    <3>2. n + 1 \in 1 .. N /\ (n + 1) - 1 = n
      BY <1>2
    <3>3. NameEnd(n + 1) = Begin(n) + 6 + Len(Name(n + 1)) /\ Len(Name(n + 1)) \in Nat
      BY <1>2, <3>2, StreamPositions DEF Positions
    <3> QED BY <1>2, <1>4, <3>1, <3>3
  <2> QED BY <1>2, <2>1, <2>2
<1>7. p = 9 => q >= Begin(n) + 5
  BY <1>3 DEF Standing
<1>8. p \in 4 .. 8 => q = Begin(n) + p - 4
  BY <1>3 DEF Standing
<1>9. ASSUME p < 4
      PROVE  /\ n > 0 /\ q < Begin(n)
             /\ p = Max({k \in 0 .. 3 : IsSuffix(SubSeq(Delimiter, 1, k), SubSeq(stream, NameEnd(n) + 1, q))})
  <2>1. n > 0 /\ NameEnd(n) <= q /\ q < Begin(n) /\ Longest(NameEnd(n) + 1, q, p)
    BY <1>3, <1>9 DEF Standing
  <2>2. NameEnd(n) \in Nat
    <3>1. n \in 1 .. N /\ n - 1 \in 0 .. N
      BY <1>2, <2>1
    <3>2. Begin(n - 1) \in Nat /\ Len(Name(n)) \in Nat /\ NameEnd(n) = Begin(n - 1) + 6 + Len(Name(n))
      BY <1>2, <3>1, StreamPositions DEF Positions
    <3> QED BY <3>2
  <2> DEFINE lo == NameEnd(n) + 1
             fit(k) == IsSuffix(SubSeq(Delimiter, 1, k), SubSeq(stream, lo, q))
             S == {k \in 0 .. 3 : fit(k)}
  <2>3. lo \in Nat \ {0} /\ q + 1 >= lo
    BY <1>2, <2>1, <2>2
  <2>4. \A k \in 0 .. 3 : fit(k) <=> Matched(lo, q, k)
    <3> HIDE DEF lo
    <3> QED BY <1>2, <2>3, SuffixIsMatched
  <2>5. p \in 0 .. 3
    BY <1>2, <1>9
  <2>6. p \in S /\ \A k \in S : p >= k
    <3>1. Matched(lo, q, p) /\ \A h \in 0 .. 3 : Matched(lo, q, h) => h <= p
      BY <2>1 DEF Longest
    <3> HIDE DEF lo, fit
    <3> QED BY <2>4, <2>5, <3>1
  <2>7. S \subseteq Nat
    OBVIOUS
  <2>8. p = Max(S)
    <3> HIDE DEF S
    <3>1. Max(S) \in S /\ \A k \in S : Max(S) >= k
      BY <2>6 DEF Max
    <3>2. p >= Max(S) /\ Max(S) >= p /\ p \in Nat /\ Max(S) \in Nat
      BY <2>6, <2>7, <3>1
    <3> QED BY <3>2
  <2> QED BY <2>1, <2>8
<1>10. \A k : Len(Stream(k)) = Begin(k)
  BY DEF Begin
<1>11. Len(Method) = 5
  BY DEF Method
<1>12. PICK seen : seen = SubSeq(stream, IF n = 0 THEN 1 ELSE NameEnd(n) + 1, q)
  OBVIOUS
<1>13. p < 4 => /\ q < Begin(n)
                /\ p = Max({k \in 0 .. 3 : IsSuffix(SubSeq(Delimiter, 1, k), seen)})
  <2> SUFFICES ASSUME p < 4
               PROVE  q < Begin(n) /\ p = Max({k \in 0 .. 3 : IsSuffix(SubSeq(Delimiter, 1, k), seen)})
    OBVIOUS
  <2>1. n # 0 /\ n > 0
    BY <1>2, <1>9
  <2>2. seen = SubSeq(stream, NameEnd(n) + 1, q)
    BY <1>12, <2>1
  <2> QED BY <1>9, <2>2
<1> QED BY <1>1, <1>2, <1>5, <1>6, <1>7, <1>8, <1>10, <1>11, <1>12, <1>13 DEF InStep

-----------------------------------------------------------------------------

LEMMA StepKeeps ==
  ASSUME Inv, NoDoubleCR, [Next]_vars
  PROVE  Inv'
<1>1. CASE recv
  BY <1>1, RecvKeeps
<1>2. CASE MethodCut
  BY <1>2, MethodCutKeeps
<1>3. CASE NameCut
  BY <1>3, NameCutKeeps
<1>4. CASE NameFound
  BY <1>4, NameFoundKeeps
<1>5. CASE MatchDelimiter
  BY <1>5, MatchDelimiterKeeps
<1>6. CASE NoMoreNames
  BY <1>6, NoMoreNamesKeeps
<1>7. CASE UNCHANGED vars
  <2>1. /\ requests' = requests /\ received' = received /\ buffer' = buffer /\ buffer_offset' = buffer_offset
        /\ buffer_size' = buffer_size /\ prefix_counter' = prefix_counter /\ bytes_parsed' = bytes_parsed
        /\ pc' = pc /\ served' = served /\ cut' = cut
    BY <1>7 DEF vars, ctx
  <2>2. /\ N' = N /\ stream' = stream
        /\ \A x, i : Within(x, i)' <=> Within(x, i)
        /\ \A a, x, y : Standing(a, x, y)' <=> Standing(a, x, y)
    BY <2>1, Frozen
  <2>3. Typed'
    BY <2>1, <2>2 DEF Inv, Typed, TypeOK
  <2>4. InBuffer'
    BY <2>1, <2>2 DEF Inv, InBuffer
  <2>5. Consumed' = Consumed
    BY <2>1 DEF Consumed
  <2>6. Standing(Len(served), Consumed, prefix_counter)'
    <3>1. PICK a, x, y : a = Len(served) /\ x = Consumed /\ y = prefix_counter
      OBVIOUS
    <3>2. Standing(a, x, y)
      BY <3>1 DEF Inv
    <3>3. Standing(a, x, y)'
      BY <2>2, <3>2
    <3> QED BY <2>1, <2>5, <3>1, <3>3 DEF Standing
  <2>7. Cuts'
    BY <2>1, <2>2, <2>5 DEF Inv, Cuts
  <2>8. ServedAsSent'
    BY <2>1, ServedIsKept DEF Inv
  <2> QED BY <2>3, <2>4, <2>6, <2>7, <2>8 DEF Inv
<1> QED BY <1>1, <1>2, <1>3, <1>4, <1>5, <1>6, <1>7 DEF Next

\* The fields of the context keep their ranges, and no more names are served
\* than requests have been sent.
THEOREM TypeCorrect == NoDoubleCR => (Spec => []TypeOK)
<1> SUFFICES ASSUME NoDoubleCR PROVE Spec => []TypeOK
  OBVIOUS
<1>1. Init => Inv
  BY InitKeeps
<1>2. Inv /\ [Next]_vars => Inv'
  BY StepKeeps
<1>3. Inv => TypeOK
  BY DEF Inv, Typed
<1> QED BY <1>1, <1>2, <1>3, PTL DEF Spec

\* Wherever recv cuts the stream, prefix_counter and the names served say
\* where in it the scanner is.
THEOREM TheScannerStaysInStep == NoDoubleCR => (Spec => []InStep)
<1> SUFFICES ASSUME NoDoubleCR PROVE Spec => []InStep
  OBVIOUS
<1>1. Init => Inv
  BY InitKeeps
<1>2. Inv /\ [Next]_vars => Inv'
  BY StepKeeps
<1>3. Inv => InStep
  BY InvIsInStep
<1> QED BY <1>1, <1>2, <1>3, PTL DEF Spec

\* A file name is served as it was sent, unless recv returned it in pieces;
\* then all but its last piece is lost.
THEOREM NamesInOnePieceAreServed == NoDoubleCR => (Spec => []ServedAsSent)
<1> SUFFICES ASSUME NoDoubleCR PROVE Spec => []ServedAsSent
  OBVIOUS
<1>1. Init => Inv
  BY InitKeeps
<1>2. Inv /\ [Next]_vars => Inv'
  BY StepKeeps
<1>3. Inv => ServedAsSent
  BY DEF Inv
<1> QED BY <1>1, <1>2, <1>3, PTL DEF Spec

=============================================================================
