------------------------- MODULE JohnnyWorkerProofs -------------------------
(***************************************************************************)
(* Theorems about JohnnyWorker for any number of connections, requests and *)
(* events, any lengths of responses and buffers and whatever clients do.   *)
(***************************************************************************)
EXTENDS JohnnyWorker, SequenceTheorems, FiniteSetTheorems, TLAPS

---------------------------------------------------------------------------
(* Numbers and sequences. *)

LEMMA MinOfTwo ==
  ASSUME NEW a \in Int, NEW b \in Int
  PROVE  /\ Min({a, b}) \in {a, b}
         /\ Min({a, b}) <= a /\ Min({a, b}) <= b
<1>1. \E x \in {a, b} : \A y \in {a, b} : x <= y
  <2>1. CASE a <= b
    BY <2>1
  <2>2. CASE b <= a
    BY <2>2
  <2> QED BY <2>1, <2>2
<1> QED BY <1>1 DEF Min

LEMMA RangeOf ==
  ASSUME NEW S, NEW s \in Seq(S)
  PROVE  /\ \A i \in 1 .. Len(s) : s[i] \in Range(s)
         /\ \A x \in Range(s) : \E i \in 1 .. Len(s) : s[i] = x
         /\ Range(s) \subseteq S
BY DEF Range

\* The ready list after an edge: one item more, and still each item once.
LEMMA QueueIs ==
  ASSUME NEW S, ready \in Seq(S), NEW x \in S
  PROVE  /\ Queue(x) \in Seq(S)
         /\ Range(Queue(x)) = Range(ready) \cup {x}
         /\ IsInjective(ready) => IsInjective(Queue(x))
<1>1. CASE x \in Range(ready)
  BY <1>1 DEF Queue
<1>2. CASE x \notin Range(ready)
  <2>1. Queue(x) = Append(ready, x)
    BY <1>2 DEF Queue
  <2>2. /\ Append(ready, x) \in Seq(S) /\ Len(Append(ready, x)) = Len(ready) + 1
        /\ \A i \in 1 .. Len(ready) : Append(ready, x)[i] = ready[i]
        /\ Append(ready, x)[Len(ready) + 1] = x
    OBVIOUS
  <2>3. \A i \in 1 .. Len(ready) : ready[i] # x
    BY <1>2, RangeOf
  <2>4. Range(Append(ready, x)) = Range(ready) \cup {x}
    BY <2>2 DEF Range
  <2>5. IsInjective(ready) => IsInjective(Append(ready, x))
    BY <2>2, <2>3 DEF IsInjective
  <2> QED BY <2>1, <2>2, <2>4, <2>5
<1> QED BY <1>1, <1>2

LEMMA RemoveAtIs ==
  ASSUME NEW S, NEW s \in Seq(S), NEW k \in 1 .. Len(s)
  PROVE  /\ RemoveAt(s, k) \in Seq(S)
         /\ Len(RemoveAt(s, k)) = Len(s) - 1
         /\ \A i \in 1 .. Len(s) - 1 : RemoveAt(s, k)[i] = IF i < k THEN s[i] ELSE s[i + 1]
<1> DEFINE front == SubSeq(s, 1, k - 1)
           back == SubSeq(s, k + 1, Len(s))
<1>1. front \in Seq(S) /\ Len(front) = k - 1 /\ \A i \in 1 .. k - 1 : front[i] = s[i]
  OBVIOUS
<1>2. back \in Seq(S) /\ Len(back) = Len(s) - k /\ \A i \in 1 .. Len(s) - k : back[i] = s[k + i]
  OBVIOUS
<1> HIDE DEF front, back
<1>3. /\ front \o back \in Seq(S)
      /\ Len(front \o back) = Len(front) + Len(back)
      /\ \A i \in 1 .. Len(front) + Len(back) :
           (front \o back)[i] = IF i <= Len(front) THEN front[i] ELSE back[i - Len(front)]
  BY <1>1, <1>2, ConcatProperties
<1>4. ASSUME NEW i \in 1 .. Len(s) - 1
      PROVE  (front \o back)[i] = IF i < k THEN s[i] ELSE s[i + 1]
  <2>1. CASE i < k
    BY <1>1, <1>2, <1>3, <2>1
  <2>2. CASE ~(i < k)
    <3>1. (front \o back)[i] = back[i - (k - 1)] /\ i - (k - 1) \in 1 .. Len(s) - k
      BY <1>1, <1>2, <1>3, <2>2
    <3> QED BY <1>2, <2>2, <3>1
  <2> QED BY <2>1, <2>2
<1>5. RemoveAt(s, k) = front \o back
  BY DEF RemoveAt, front, back
<1> QED BY <1>1, <1>2, <1>3, <1>4, <1>5

\* The ready list without a closed connection.
LEMMA DequeueIs ==
  ASSUME NEW S, ready \in Seq(S), NEW x
  PROVE  /\ Dequeue(x) \in Seq(S)
         /\ Range(Dequeue(x)) \subseteq Range(ready)
         /\ Range(ready) \ {x} \subseteq Range(Dequeue(x))
         /\ IsInjective(ready) => IsInjective(Dequeue(x)) /\ x \notin Range(Dequeue(x))
<1>1. CASE x \in Range(ready)
  <2> DEFINE n == Len(ready)
             at == CHOOSE i \in DOMAIN ready : ready[i] = x
             d == Dequeue(x)
  <2>1. at \in 1 .. n /\ ready[at] = x /\ n \in Nat
    BY <1>1, RangeOf
  <2>2. d = RemoveAt(ready, at)
    BY <1>1 DEF Dequeue
  <2> HIDE DEF at
  <2>3. /\ d \in Seq(S) /\ Len(d) = n - 1
        /\ \A i \in 1 .. n - 1 : d[i] = IF i < at THEN ready[i] ELSE ready[i + 1]
    BY <2>1, <2>2, RemoveAtIs
  <2> HIDE DEF d, n
  <2>4. Range(d) \subseteq Range(ready)
    BY <2>1, <2>3 DEF Range, n
  <2>5. Range(ready) \ {x} \subseteq Range(d)
    <3> SUFFICES ASSUME NEW y \in Range(ready), y # x PROVE y \in Range(d)
      OBVIOUS
    <3>1. PICK i \in 1 .. n : ready[i] = y
      BY RangeOf DEF n
    <3>2. CASE i < at
      <4>1. i \in 1 .. n - 1 /\ d[i] = y
        BY <2>1, <2>3, <3>1, <3>2
      <4> QED BY <2>3, <4>1, RangeOf
    <3>3. CASE i > at
      <4>1. i - 1 \in 1 .. n - 1 /\ d[i - 1] = y
        BY <2>1, <2>3, <3>1, <3>3
      <4> QED BY <2>3, <4>1, RangeOf
    <3> QED BY <2>1, <3>1, <3>2, <3>3
  <2>6. ASSUME IsInjective(ready) PROVE IsInjective(d) /\ x \notin Range(d)
    <3>1. \A i, j \in 1 .. n : ready[i] = ready[j] => i = j
      BY <2>6 DEF IsInjective, n
    <3>2. \A i \in 1 .. n - 1 : d[i] # x
      BY <2>1, <2>3, <3>1
    <3>3. \A i, j \in 1 .. n - 1 : d[i] = d[j] => i = j
      <4> TAKE i, j \in 1 .. n - 1
      <4> DEFINE old(k) == IF k < at THEN k ELSE k + 1
      <4>1. /\ old(i) \in 1 .. n /\ d[i] = ready[old(i)]
            /\ old(j) \in 1 .. n /\ d[j] = ready[old(j)]
        BY <2>1, <2>3
      <4>2. old(i) = old(j) => i = j
        BY <2>1
      <4> QED BY <3>1, <4>1, <4>2
    <3> QED BY <2>3, <3>2, <3>3 DEF IsInjective, Range
  <2> QED BY <2>3, <2>4, <2>5, <2>6 DEF d
<1>2. CASE x \notin Range(ready)
  BY <1>2 DEF Dequeue
<1> QED BY <1>1, <1>2

---------------------------------------------------------------------------
(* Types, and the relations between numbers that keep them. *)

Position ==
  /\ pc = "wait" <=> batch = <<>>
  /\ pc \in {"recv", "serve"} => Current \in Conns

Counts(c) ==
  /\ sock[c].inq <= sock[c].asked
  /\ sock[c].taken <= Len(sock[c].out)
  /\ Space(c) >= 0
  /\ ctx[c].response_length > 0 => ctx[c].response > 0

Typed == TypeOK /\ Position /\ \A c \in Conns : Counts(c)

\* What johnny_sends_bytes does with the context x of c: n units are sent.
SendsUnits(c, x, n) ==
  /\ sock[c].rst = "no"
  /\ sock' \in [Conns -> Socket] /\ ctx' \in [Conns -> Context] /\ ready' = ready
  /\ \A d \in Conns \ {c} : sock'[d] = sock[d] /\ ctx'[d] = ctx[d]
  /\ sock'[c].phase = sock[c].phase /\ sock'[c].asked = sock[c].asked
  /\ sock'[c].inq = sock[c].inq /\ sock'[c].fin = sock[c].fin
  /\ sock'[c].rst = sock[c].rst /\ sock'[c].taken = sock[c].taken
  /\ n <= Space(c)
  /\ n < x.response_length => sock'[c].nospace
  /\ sock[c].nospace => sock'[c].nospace
  /\ Len(sock'[c].out) = Len(sock[c].out) + n
  /\ \A i \in 1 .. Len(sock[c].out) : sock'[c].out[i] = sock[c].out[i]
  /\ \A i \in 1 .. n : sock'[c].out[Len(sock[c].out) + i] =
                         <<x.response, ResponseLen - x.response_length + i>>
  /\ ctx'[c].flags = x.flags /\ ctx'[c].response = x.response
  /\ ctx'[c].response_length = x.response_length - n
  /\ ctx'[c].buffer = x.buffer

LEMMA SendsIs ==
  ASSUME TypeOK, NEW c \in Conns, Counts(c), NEW x \in Context,
         x.response_length > 0 => x.response > 0,
         johnny_sends_bytes(c, x)
  PROVE  \E n \in 0 .. x.response_length : SendsUnits(c, x, n)
<1> DEFINE n == Min({x.response_length, Space(c)})
           new == [i \in 1 .. n |-> <<x.response, ResponseLen - x.response_length + 1 + i - 1>>]
           out == sock[c].out
<1>1. sock[c] \in Socket /\ ResponseLen \in Nat /\ SendBuffer \in Nat
  BY WorkerAssumption DEF TypeOK
<1>2. out \in Seq(Units) /\ sock[c].taken \in Nat /\ Len(out) \in Nat
  BY <1>1 DEF Socket
<1>3. Space(c) \in Nat /\ x.response_length \in Nat /\ x.response_length <= ResponseLen
  BY <1>1, <1>2 DEF Counts, Space, Context
<1>4. n \in 0 .. x.response_length /\ n <= Space(c)
  <2> x.response_length \in Int /\ Space(c) \in Int
    BY <1>3
  <2>1. n \in {x.response_length, Space(c)} /\ n <= x.response_length /\ n <= Space(c)
    BY MinOfTwo, Zenon
  <2> QED BY <1>3, <2>1
<1> HIDE DEF n, out
<1>5. \A i \in 1 .. n : <<x.response, ResponseLen - x.response_length + 1 + i - 1>> \in Units
  <2> TAKE i \in 1 .. n
  <2>1. x.response \in 1 .. MaxRequests
    BY <1>3, <1>4, WorkerAssumption DEF Context
  <2>2. ResponseLen - x.response_length + 1 + i - 1 \in 1 .. ResponseLen
    BY <1>1, <1>3, <1>4
  <2> QED BY <2>1, <2>2 DEF Units
<1>6. new \in Seq(Units) /\ Len(new) = n
  BY <1>4, <1>5
<1>7. \A i \in 1 .. n : new[i] = <<x.response, ResponseLen - x.response_length + i>>
  BY <1>1, <1>3, <1>4
<1> HIDE DEF new
<1>8. /\ out \o new \in Seq(Units) /\ Len(out \o new) = Len(out) + n
      /\ \A i \in 1 .. Len(out) : (out \o new)[i] = out[i]
      /\ \A i \in 1 .. n : (out \o new)[Len(out) + i] = new[i]
  <2>1. /\ out \o new \in Seq(Units) /\ Len(out \o new) = Len(out) + Len(new)
        /\ \A i \in 1 .. Len(out) + Len(new) :
             (out \o new)[i] = IF i <= Len(out) THEN out[i] ELSE new[i - Len(out)]
    BY <1>2, <1>6, ConcatProperties
  <2> QED BY <1>2, <1>4, <1>6, <2>1
<1> USE DEF out
<1>9. /\ ~SendFails(c) /\ ready' = ready
      /\ sock' = [sock EXCEPT ![c].out = out \o new,
                              ![c].nospace = sock[c].nospace \/ n < x.response_length]
      /\ ctx' = [ctx EXCEPT ![c] = [x EXCEPT !.response_length = x.response_length - n]]
  BY DEF johnny_sends_bytes, Sends, n, new
<1>10. /\ sock' \in [Conns -> Socket]
       /\ sock'[c] = [sock[c] EXCEPT !.out = out \o new,
                                     !.nospace = sock[c].nospace \/ n < x.response_length]
       /\ \A d \in Conns \ {c} : sock'[d] = sock[d]
  <2>1. [sock[c] EXCEPT !.out = out \o new,
                        !.nospace = sock[c].nospace \/ n < x.response_length] \in Socket
    BY <1>1, <1>8 DEF Socket
  <2> QED BY <1>9, <2>1 DEF TypeOK
<1>11. /\ ctx' \in [Conns -> Context]
       /\ ctx'[c] = [x EXCEPT !.response_length = x.response_length - n]
       /\ \A d \in Conns \ {c} : ctx'[d] = ctx[d]
  <2>1. [x EXCEPT !.response_length = x.response_length - n] \in Context
    BY <1>1, <1>3, <1>4 DEF Context
  <2> QED BY <1>9, <2>1 DEF TypeOK
<1>12. sock[c].rst = "no"
  BY <1>9 DEF SendFails
<1> HIDE DEF out
<1>13. /\ sock'[c].phase = sock[c].phase /\ sock'[c].asked = sock[c].asked
       /\ sock'[c].inq = sock[c].inq /\ sock'[c].fin = sock[c].fin
       /\ sock'[c].rst = sock[c].rst /\ sock'[c].taken = sock[c].taken
       /\ sock'[c].out = out \o new
       /\ sock'[c].nospace = (sock[c].nospace \/ n < x.response_length)
  BY <1>1, <1>10 DEF Socket
<1>14. /\ ctx'[c].flags = x.flags /\ ctx'[c].response = x.response
       /\ ctx'[c].response_length = x.response_length - n
       /\ ctx'[c].buffer = x.buffer
  BY <1>11 DEF Context
<1>15. SendsUnits(c, x, n)
  <2>1. /\ n < x.response_length => sock'[c].nospace
        /\ sock[c].nospace => sock'[c].nospace
    BY <1>13, Zenon
  <2>2. /\ Len(sock'[c].out) = Len(sock[c].out) + n
        /\ \A i \in 1 .. Len(sock[c].out) : sock'[c].out[i] = sock[c].out[i]
    BY <1>8, <1>13, Zenon DEF out
  <2>3. \A i \in 1 .. n : sock'[c].out[Len(sock[c].out) + i] =
                            <<x.response, ResponseLen - x.response_length + i>>
    BY <1>7, <1>8, <1>13, Zenon DEF out
  <2> QED BY <1>4, <1>9, <1>10, <1>11, <1>12, <1>13, <1>14, <2>1, <2>2, <2>3, Zenon DEF SendsUnits
<1> QED BY <1>4, <1>15

\* What a client's step does to its connection c, to the backlog and to epoll.
ClientSteps(c) ==
  /\ sock' \in [Conns -> Socket] /\ backlog' \in Seq(Conns)
  /\ ready' \in Seq(Conns \cup {Listener})
  /\ UNCHANGED <<pc, batch, recv_more, ctx>>
  /\ \A d \in Conns \ {c} : sock'[d] = sock[d]
  /\ sock'[c].out = sock[c].out
  /\ sock'[c].asked - sock'[c].inq = sock[c].asked - sock[c].inq
  /\ sock'[c].inq >= sock[c].inq
  /\ sock'[c].taken >= sock[c].taken
  /\ sock[c].taken <= Len(sock[c].out) => sock'[c].taken <= Len(sock[c].out)
  /\ \/ sock'[c].phase = sock[c].phase /\ backlog' = backlog
     \/ /\ sock[c].phase = "idle" /\ sock'[c].phase = "backlog"
        /\ backlog' = Append(backlog, c)
  /\ Range(ready) \subseteq Range(ready')
  /\ Range(ready') \subseteq Range(ready) \cup (Open \cap {c}) \cup {Listener}
  /\ IsInjective(ready) => IsInjective(ready')
  /\ c \in Open /\ sock'[c].inq > sock[c].inq => c \in Range(ready')
  /\ c \in Open /\ sock[c].nospace /\ ~sock'[c].nospace => c \in Range(ready')

LEMMA WakeIs ==
  ASSUME TypeOK, NEW c \in Conns, Wake(c)
  PROVE  /\ ready' \in Seq(Conns \cup {Listener})
         /\ Range(ready) \subseteq Range(ready')
         /\ Range(ready') \subseteq Range(ready) \cup (Open \cap {c})
         /\ IsInjective(ready) => IsInjective(ready')
         /\ c \in Open => c \in Range(ready')
<1> DEFINE S == Conns \cup {Listener}
<1>1. ready \in Seq(S) /\ c \in S
  BY DEF TypeOK
<1>2. CASE c \in Open
  <2>1. ready' = Queue(c)
    BY <1>2 DEF Wake
  <2> QED BY <1>1, <1>2, <2>1, QueueIs
<1>3. CASE c \notin Open
  BY <1>1, <1>3 DEF Wake
<1> QED BY <1>2, <1>3

LEMMA ClientIs ==
  ASSUME TypeOK, NEW c \in Conns, Counts(c), Client(c)
  PROVE  ClientSteps(c)
<1> DEFINE S == Conns \cup {Listener}
<1>1. /\ sock \in [Conns -> Socket] /\ sock[c] \in Socket
      /\ backlog \in Seq(Conns) /\ ready \in Seq(S) /\ Listener \in S
      /\ MaxRequests \in Nat
  BY WorkerAssumption DEF TypeOK
<1>2. /\ sock[c].asked \in Nat /\ sock[c].inq \in Nat /\ sock[c].taken \in Nat
      /\ sock[c].inq <= MaxRequests /\ Len(sock[c].out) \in Nat
      /\ sock[c].nospace \in BOOLEAN /\ sock[c].inq <= sock[c].asked
  BY <1>1 DEF Socket, Counts
<1>3. UNCHANGED <<pc, batch, recv_more, ctx>>
  BY DEF Client
<1>4. CASE Connect(c)
  <2>1. /\ sock[c].phase = "idle" /\ backlog' = Append(backlog, c) /\ ready' = Queue(Listener)
        /\ sock' = [sock EXCEPT ![c] = [sock[c] EXCEPT !.phase = "backlog"]]
    BY <1>4 DEF Connect
  <2>2. [sock[c] EXCEPT !.phase = "backlog"] \in Socket
    BY <1>1 DEF Socket
  <2>3. sock' \in [Conns -> Socket] /\ sock'[c] = [sock[c] EXCEPT !.phase = "backlog"]
        /\ \A d \in Conns \ {c} : sock'[d] = sock[d]
    BY <1>1, <2>1, <2>2
  <2>4. /\ ready' \in Seq(S) /\ Range(ready') = Range(ready) \cup {Listener}
        /\ IsInjective(ready) => IsInjective(ready')
    BY <1>1, <2>1, QueueIs
  <2>5. /\ sock'[c].phase = "backlog" /\ sock'[c].out = sock[c].out
        /\ sock'[c].asked = sock[c].asked /\ sock'[c].inq = sock[c].inq
        /\ sock'[c].taken = sock[c].taken /\ sock'[c].nospace = sock[c].nospace
    BY <1>1, <2>3 DEF Socket
  <2>6. backlog' \in Seq(Conns)
    BY <1>1, <2>1
  <2>7. c \notin Open
    BY <2>1 DEF Open
  <2> QED BY <1>2, <1>3, <2>1, <2>3, <2>4, <2>5, <2>6, <2>7 DEF ClientSteps
<1>5. ASSUME NEW s \in Socket,
             sock' = [sock EXCEPT ![c] = s], backlog' = backlog,
             s.phase = sock[c].phase, s.out = sock[c].out,
             s.asked - s.inq = sock[c].asked - sock[c].inq, s.inq >= sock[c].inq,
             s.taken >= sock[c].taken,
             sock[c].taken <= Len(sock[c].out) => s.taken <= Len(sock[c].out),
             \/ Wake(c)
             \/ /\ ready' = ready /\ s.inq = sock[c].inq
                /\ sock[c].nospace => s.nospace
      PROVE  ClientSteps(c)
  <2>1. sock' \in [Conns -> Socket] /\ sock'[c] = s /\ \A d \in Conns \ {c} : sock'[d] = sock[d]
    BY <1>1, <1>5
  <2>2. CASE Wake(c)
    BY <1>1, <1>2, <1>3, <1>5, <2>1, <2>2, WakeIs DEF ClientSteps
  <2>3. CASE ready' = ready /\ s.inq = sock[c].inq /\ (sock[c].nospace => s.nospace)
    BY <1>1, <1>2, <1>3, <1>5, <2>1, <2>3 DEF ClientSteps
  <2> QED BY <1>5, <2>2, <2>3
<1>6. CASE Ask(c)
  <2> DEFINE s == [sock[c] EXCEPT !.asked = sock[c].asked + 1, !.inq = sock[c].inq + 1]
  <2>1. sock' = [sock EXCEPT ![c] = s] /\ Wake(c) /\ backlog' = backlog
        /\ sock[c].asked < MaxRequests
    BY <1>6 DEF Ask
  <2>2. s \in Socket
    <3>1. sock[c].asked + 1 \in 0 .. MaxRequests /\ sock[c].inq + 1 \in 0 .. MaxRequests
      BY <1>1, <1>2, <2>1
    <3> QED BY <1>1, <3>1 DEF Socket
  <2>3. /\ s.phase = sock[c].phase /\ s.asked = sock[c].asked + 1 /\ s.inq = sock[c].inq + 1
        /\ s.out = sock[c].out /\ s.taken = sock[c].taken /\ s.nospace = sock[c].nospace
    BY <1>1 DEF Socket
  <2> HIDE DEF s
  <2>4. /\ s.asked - s.inq = sock[c].asked - sock[c].inq /\ s.inq >= sock[c].inq
        /\ s.taken >= sock[c].taken
        /\ sock[c].taken <= Len(sock[c].out) => s.taken <= Len(sock[c].out)
    BY <1>2, <2>1, <2>3
  <2> QED BY <1>5, <2>1, <2>2, <2>3, <2>4, Zenon
<1>7. CASE Take(c)
  <2> DEFINE s == [sock[c] EXCEPT !.taken = sock[c].taken + 1, !.nospace = FALSE]
  <2>1. /\ sock' = [sock EXCEPT ![c] = s] /\ backlog' = backlog
        /\ sock[c].taken < Len(sock[c].out)
        /\ IF sock[c].nospace THEN Wake(c) ELSE UNCHANGED ready
    BY <1>7 DEF Take
  <2>2. s \in Socket
    <3>1. sock[c].taken + 1 \in Nat
      BY <1>2
    <3> QED BY <1>1, <3>1 DEF Socket
  <2>3. /\ s.phase = sock[c].phase /\ s.asked = sock[c].asked /\ s.inq = sock[c].inq
        /\ s.out = sock[c].out /\ s.taken = sock[c].taken + 1 /\ s.nospace = FALSE
    BY <1>1 DEF Socket
  <2> HIDE DEF s
  <2>4. /\ s.asked - s.inq = sock[c].asked - sock[c].inq /\ s.inq >= sock[c].inq
        /\ s.taken >= sock[c].taken
        /\ sock[c].taken <= Len(sock[c].out) => s.taken <= Len(sock[c].out)
    BY <1>2, <2>1, <2>3
  <2> QED BY <1>5, <2>1, <2>2, <2>3, <2>4, Zenon
<1>8. CASE Finish(c)
  <2> DEFINE s == [sock[c] EXCEPT !.fin = TRUE]
  <2>1. sock' = [sock EXCEPT ![c] = s] /\ Wake(c) /\ backlog' = backlog
    BY <1>8 DEF Finish
  <2>2. s \in Socket
    BY <1>1 DEF Socket
  <2>3. /\ s.phase = sock[c].phase /\ s.asked = sock[c].asked /\ s.inq = sock[c].inq
        /\ s.out = sock[c].out /\ s.taken = sock[c].taken /\ s.nospace = sock[c].nospace
    BY <1>1 DEF Socket
  <2> HIDE DEF s
  <2>4. /\ s.asked - s.inq = sock[c].asked - sock[c].inq /\ s.inq >= sock[c].inq
        /\ s.taken >= sock[c].taken
        /\ sock[c].taken <= Len(sock[c].out) => s.taken <= Len(sock[c].out)
    BY <1>2, <2>1, <2>3
  <2> QED BY <1>5, <2>1, <2>2, <2>3, <2>4, Zenon
<1>9. CASE Reset(c)
  <2> DEFINE s == [sock[c] EXCEPT !.rst = "pending"]
  <2>1. sock' = [sock EXCEPT ![c] = s] /\ Wake(c) /\ backlog' = backlog
    BY <1>9 DEF Reset
  <2>2. s \in Socket
    BY <1>1 DEF Socket
  <2>3. /\ s.phase = sock[c].phase /\ s.asked = sock[c].asked /\ s.inq = sock[c].inq
        /\ s.out = sock[c].out /\ s.taken = sock[c].taken /\ s.nospace = sock[c].nospace
    BY <1>1 DEF Socket
  <2> HIDE DEF s
  <2>4. /\ s.asked - s.inq = sock[c].asked - sock[c].inq /\ s.inq >= sock[c].inq
        /\ s.taken >= sock[c].taken
        /\ sock[c].taken <= Len(sock[c].out) => s.taken <= Len(sock[c].out)
    BY <1>2, <2>1, <2>3
  <2> QED BY <1>5, <2>1, <2>2, <2>3, <2>4, Zenon
<1> QED BY <1>4, <1>6, <1>7, <1>8, <1>9 DEF Client

\* The fields of a connection's socket that only clients and send change.
SameButPhase(c) ==
  /\ sock'[c].out = sock[c].out /\ sock'[c].taken = sock[c].taken
  /\ sock'[c].asked = sock[c].asked /\ sock'[c].inq = sock[c].inq
  /\ sock'[c].fin = sock[c].fin /\ sock'[c].rst = sock[c].rst

ClosesConnection(c) ==
  /\ sock' \in [Conns -> Socket] /\ \A d \in Conns \ {c} : sock'[d] = sock[d]
  /\ sock'[c].phase = "closed" /\ sock'[c].nospace = sock[c].nospace /\ SameButPhase(c)
  /\ ready' \in Seq(Conns \cup {Listener})
  /\ Range(ready') \subseteq Range(ready) /\ Range(ready) \ {c} \subseteq Range(ready')
  /\ IsInjective(ready) => IsInjective(ready') /\ c \notin Range(ready')

LEMMA ClosesIs ==
  ASSUME TypeOK, NEW c \in Conns, johnny_closes_connection(c)
  PROVE  ClosesConnection(c)
<1> DEFINE s == [sock[c] EXCEPT !.phase = "closed"]
<1>1. sock \in [Conns -> Socket] /\ sock[c] \in Socket /\ ready \in Seq(Conns \cup {Listener})
  BY DEF TypeOK
<1>2. /\ s \in Socket /\ s.phase = "closed" /\ s.nospace = sock[c].nospace
      /\ s.out = sock[c].out /\ s.taken = sock[c].taken
      /\ s.asked = sock[c].asked /\ s.inq = sock[c].inq
      /\ s.fin = sock[c].fin /\ s.rst = sock[c].rst
  BY <1>1 DEF Socket
<1>3. sock' = [sock EXCEPT ![c] = s] /\ ready' = Dequeue(c)
  BY DEF johnny_closes_connection
<1> HIDE DEF s
<1>4. sock' \in [Conns -> Socket] /\ sock'[c] = s /\ \A d \in Conns \ {c} : sock'[d] = sock[d]
  BY <1>1, <1>2, <1>3
<1> QED BY <1>1, <1>2, <1>3, <1>4, DequeueIs DEF ClosesConnection, SameButPhase

EventOf == [item : Conns \cup {Listener}, mask : SUBSET Events]

\* The next event is in hand, if there is one.
TakesNextEvent ==
  /\ batch' \in Seq(EventOf) /\ Len(batch') = Len(batch) - 1
  /\ \A i \in 1 .. Len(batch') : batch'[i] = batch[i + 1]
  /\ IF batch' = <<>> THEN pc' = "wait" ELSE pc' = "event"

LEMMA NextEventIs ==
  ASSUME TypeOK, batch # <<>>, NextEvent
  PROVE  TakesNextEvent
<1>1. batch \in Seq(EventOf)
  BY DEF TypeOK, EventOf
<1>2. batch' = Tail(batch) /\ pc' = IF batch' = <<>> THEN "wait" ELSE "event"
  BY DEF NextEvent
<1>3. /\ Tail(batch) \in Seq(EventOf) /\ Len(Tail(batch)) = Len(batch) - 1
      /\ \A i \in 1 .. Len(Tail(batch)) : Tail(batch)[i] = batch[i + 1]
  BY <1>1, HeadTailProperties
<1> QED BY <1>2, <1>3 DEF TakesNextEvent

\* epoll_wait polls the first k items of the ready list.
Polls(k) ==
  /\ ready' \in Seq(Conns \cup {Listener})
  /\ Len(ready') = Len(ready) - k /\ \A i \in 1 .. Len(ready') : ready'[i] = ready[k + i]
  /\ batch' \in Seq(EventOf)
  /\ \A i \in 1 .. Len(batch') : \E j \in 1 .. k :
       batch'[i].item = ready[j] /\ batch'[i].mask = Mask(ready[j])
  /\ \A j \in 1 .. k : Pollable(ready[j]) => \E i \in 1 .. Len(batch') :
       batch'[i].item = ready[j] /\ batch'[i].mask = Mask(ready[j])
  /\ IsInjective(ready) =>
       \A i, j \in 1 .. Len(batch') : batch'[i].item = batch'[j].item => i = j
  /\ IF batch' = <<>> THEN pc' = "wait" ELSE pc' = "event"
  /\ sock' \in [Conns -> Socket]
  /\ \A c \in Conns :
       /\ SameButPhase(c) /\ sock'[c].phase = sock[c].phase
       /\ sock[c].nospace => sock'[c].nospace
       /\ (\E j \in 1 .. k : ready[j] = c) /\ Space(c) <= 0 => sock'[c].nospace

LEMMA MaskIsOfEvents == ASSUME NEW x PROVE Mask(x) \in SUBSET Events
BY DEF Mask, Events

LEMMA InOrderIs ==
  ASSUME NEW S, IsFiniteSet(S), NEW at \in InOrder(S)
  PROVE  \E len \in Nat :
           /\ at \in [1 .. len -> S]
           /\ \A i, j \in 1 .. len : at[i] = at[j] => i = j
           /\ \A s \in S : \E i \in 1 .. len : at[i] = s
<1>1. Cardinality(S) \in Nat
  BY FS_CardinalityType
<1>2. at \in Bijection(1 .. Cardinality(S), S)
  BY DEF InOrder
<1> QED BY <1>1, <1>2 DEF Bijection, Injection, Surjection, IsInjective

LEMMA EpollIs ==
  ASSUME TypeOK, epoll_wait
  PROVE  \E k \in 1 .. Len(ready) : Polls(k)
<1>0. PICK k \in DOMAIN ready : \E at \in InOrder(Deliverable(k)) :
        /\ ready' = SubSeq(ready, k + 1, Len(ready))
        /\ batch' = [i \in DOMAIN at |-> [item |-> ready[at[i]], mask |-> Mask(ready[at[i]])]]
        /\ pc' = IF at = <<>> THEN "wait" ELSE "event"
        /\ sock' = [c \in Conns |->
             IF (\E j \in 1 .. k : ready[j] = c) /\ Space(c) <= 0
             THEN [sock[c] EXCEPT !.nospace = TRUE]
             ELSE sock[c]]
  BY DEF epoll_wait
<1>1. PICK at \in InOrder(Deliverable(k)) :
        /\ ready' = SubSeq(ready, k + 1, Len(ready))
        /\ batch' = [i \in DOMAIN at |-> [item |-> ready[at[i]], mask |-> Mask(ready[at[i]])]]
        /\ pc' = IF at = <<>> THEN "wait" ELSE "event"
        /\ sock' = [c \in Conns |->
             IF (\E j \in 1 .. k : ready[j] = c) /\ Space(c) <= 0
             THEN [sock[c] EXCEPT !.nospace = TRUE]
             ELSE sock[c]]
  BY <1>0
<1>2. /\ ready \in Seq(Conns \cup {Listener}) /\ Len(ready) \in Nat /\ k \in 1 .. Len(ready)
      /\ sock \in [Conns -> Socket]
  BY DEF TypeOK
<1>3. /\ ready' \in Seq(Conns \cup {Listener}) /\ Len(ready') = Len(ready) - k
      /\ \A i \in 1 .. Len(ready') : ready'[i] = ready[k + i]
  BY <1>1, <1>2
<1>4. PICK len \in Nat :
        /\ at \in [1 .. len -> Deliverable(k)]
        /\ \A i, j \in 1 .. len : at[i] = at[j] => i = j
        /\ \A s \in Deliverable(k) : \E i \in 1 .. len : at[i] = s
  <2> DEFINE D == Deliverable(k)
  <2>1. IsFiniteSet(D) /\ at \in InOrder(D)
    <3>1. IsFiniteSet(1 .. k) /\ D \subseteq 1 .. k
      BY <1>2, FS_Interval DEF Deliverable
    <3> QED BY <3>1, FS_Subset
  <2> HIDE DEF D
  <2>2. \E len \in Nat :
          /\ at \in [1 .. len -> D]
          /\ \A i, j \in 1 .. len : at[i] = at[j] => i = j
          /\ \A s \in D : \E i \in 1 .. len : at[i] = s
    BY <2>1, InOrderIs
  <2> QED BY <2>2 DEF D
<1>5. \A i \in 1 .. len : at[i] \in 1 .. k /\ ready[at[i]] \in Conns \cup {Listener}
  BY <1>2, <1>4 DEF Deliverable
<1>6. /\ batch' \in Seq(EventOf) /\ Len(batch') = len
      /\ \A i \in 1 .. len : /\ batch'[i].item = ready[at[i]]
                             /\ batch'[i].mask = Mask(ready[at[i]])
  <2>1. batch' = [i \in 1 .. len |-> [item |-> ready[at[i]], mask |-> Mask(ready[at[i]])]]
    BY <1>1, <1>4
  <2>2. \A i \in 1 .. len : [item |-> ready[at[i]], mask |-> Mask(ready[at[i]])] \in EventOf
    BY <1>5, MaskIsOfEvents DEF EventOf
  <2> QED BY <1>4, <2>1, <2>2
<1>7. batch' = <<>> <=> at = <<>>
  BY <1>4, <1>6
<1>8. \A j \in 1 .. k : Pollable(ready[j]) => \E i \in 1 .. len : at[i] = j
  BY <1>4 DEF Deliverable
<1>9. ASSUME IsInjective(ready), NEW i \in 1 .. len, NEW j \in 1 .. len,
             ready[at[i]] = ready[at[j]]
      PROVE  i = j
  BY <1>2, <1>4, <1>5, <1>9 DEF IsInjective
<1>10. ASSUME NEW c \in Conns
       PROVE  /\ sock'[c] \in Socket
              /\ SameButPhase(c) /\ sock'[c].phase = sock[c].phase
              /\ sock[c].nospace => sock'[c].nospace
              /\ (\E j \in 1 .. k : ready[j] = c) /\ Space(c) <= 0 => sock'[c].nospace
  <2>1. sock[c] \in Socket
    BY <1>2
  <2>2. CASE (\E j \in 1 .. k : ready[j] = c) /\ Space(c) <= 0
    <3>1. sock'[c] = [sock[c] EXCEPT !.nospace = TRUE]
      BY <1>1, <2>2
    <3> QED BY <2>1, <3>1 DEF Socket, SameButPhase
  <2>3. CASE ~((\E j \in 1 .. k : ready[j] = c) /\ Space(c) <= 0)
    <3>1. sock'[c] = sock[c]
      BY <1>1, <2>3
    <3> QED BY <2>1, <2>3, <3>1 DEF SameButPhase
  <2> QED BY <2>2, <2>3
<1>11. sock' \in [Conns -> Socket]
  <2>1. sock' = [c \in Conns |-> sock'[c]]
    BY <1>1
  <2> QED BY <1>10, <2>1
<1>12. Polls(k)
  <2>1. \A i \in 1 .. Len(batch') : \E j \in 1 .. k :
          batch'[i].item = ready[j] /\ batch'[i].mask = Mask(ready[j])
    BY <1>5, <1>6
  <2>2. \A j \in 1 .. k : Pollable(ready[j]) => \E i \in 1 .. Len(batch') :
          batch'[i].item = ready[j] /\ batch'[i].mask = Mask(ready[j])
    BY <1>6, <1>8
  <2>3. IsInjective(ready) =>
          \A i, j \in 1 .. Len(batch') : batch'[i].item = batch'[j].item => i = j
    BY <1>6, <1>9
  <2>4. IF batch' = <<>> THEN pc' = "wait" ELSE pc' = "event"
    BY <1>1, <1>7
  <2> QED BY <1>3, <1>6, <1>10, <1>11, <2>1, <2>2, <2>3, <2>4, Zenon DEF Polls
<1> QED BY <1>2, <1>12

\* accept4 returns the connection c.
Accepts(c) ==
  /\ backlog # <<>> /\ c = backlog[1]
  /\ backlog' \in Seq(Conns) /\ Len(backlog') = Len(backlog) - 1
  /\ \A i \in 1 .. Len(backlog') : backlog'[i] = backlog[i + 1]
  /\ sock' \in [Conns -> Socket] /\ \A d \in Conns \ {c} : sock'[d] = sock[d]
  /\ sock'[c].phase = "open" /\ sock'[c].nospace = sock[c].nospace /\ SameButPhase(c)
  /\ ctx' = [ctx EXCEPT ![c] = FreshContext]
  /\ ready' \in Seq(Conns \cup {Listener}) /\ Range(ready') = Range(ready) \cup {c}
  /\ IsInjective(ready) => IsInjective(ready')

LEMMA AcceptsIs ==
  ASSUME Typed, johnny_accepts
  PROVE  /\ pc = "event" /\ batch # <<>> /\ Current = Listener
         /\ TakesNextEvent /\ recv_more' = recv_more
         /\ \/ UNCHANGED <<kernel, ctx>>
            \/ \E c \in Conns : Accepts(c)
<1>1. pc = "event" /\ batch # <<>> /\ Current = Listener /\ NextEvent /\ recv_more' = recv_more
  BY DEF johnny_accepts, Typed, Position
<1>2. TakesNextEvent
  BY <1>1, NextEventIs DEF Typed
<1>3. CASE UNCHANGED <<kernel, ctx>>
  BY <1>1, <1>2, <1>3
<1>4. CASE /\ backlog # <<>>
           /\ LET c == Head(backlog)
              IN  /\ backlog' = Tail(backlog)
                  /\ sock' = [sock EXCEPT ![c].phase = "open"]
                  /\ ctx' = [ctx EXCEPT ![c] = FreshContext]
                  /\ ready' = Queue(c)
  <2> DEFINE c == Head(backlog)
             s == [sock[c] EXCEPT !.phase = "open"]
  <2>1. /\ sock \in [Conns -> Socket] /\ backlog \in Seq(Conns)
        /\ ready \in Seq(Conns \cup {Listener})
    BY DEF Typed, TypeOK
  <2>2. /\ c \in Conns /\ c = backlog[1]
        /\ Tail(backlog) \in Seq(Conns) /\ Len(Tail(backlog)) = Len(backlog) - 1
        /\ \A i \in 1 .. Len(Tail(backlog)) : Tail(backlog)[i] = backlog[i + 1]
    BY <1>4, <2>1, HeadTailProperties
  <2>3. /\ backlog' = Tail(backlog) /\ sock' = [sock EXCEPT ![c] = s]
        /\ ctx' = [ctx EXCEPT ![c] = FreshContext] /\ ready' = Queue(c)
    BY <1>4
  <2> HIDE DEF c
  <2> DEFINE old == sock[c]
  <2>4a. old \in Socket
    BY <2>1, <2>2
  <2> HIDE DEF old
  <2>4b. /\ [old EXCEPT !.phase = "open"] \in Socket
         /\ LET new == [old EXCEPT !.phase = "open"]
            IN  /\ new.phase = "open" /\ new.nospace = old.nospace
                /\ new.out = old.out /\ new.taken = old.taken
                /\ new.asked = old.asked /\ new.inq = old.inq
                /\ new.fin = old.fin /\ new.rst = old.rst
    BY <2>4a DEF Socket
  <2>4. /\ s \in Socket /\ s.phase = "open" /\ s.nospace = sock[c].nospace
        /\ s.out = sock[c].out /\ s.taken = sock[c].taken
        /\ s.asked = sock[c].asked /\ s.inq = sock[c].inq
        /\ s.fin = sock[c].fin /\ s.rst = sock[c].rst
    BY <2>4b, Zenon DEF old
  <2> HIDE DEF s
  <2>5. sock' \in [Conns -> Socket] /\ sock'[c] = s /\ \A d \in Conns \ {c} : sock'[d] = sock[d]
    BY <2>1, <2>2, <2>3, <2>4
  <2>6. /\ ready' \in Seq(Conns \cup {Listener}) /\ Range(ready') = Range(ready) \cup {c}
        /\ IsInjective(ready) => IsInjective(ready')
    BY <2>1, <2>2, <2>3, QueueIs
  <2>7. Accepts(c)
    BY <1>4, <2>2, <2>3, <2>4, <2>5, <2>6 DEF Accepts, SameButPhase
  <2> QED BY <1>1, <1>2, <2>2, <2>7
<1> QED BY <1>3, <1>4 DEF johnny_accepts

\* The context of c changes and nothing the kernel has.
Notes(c, x) ==
  /\ sock' = sock /\ ready' = ready
  /\ ctx' \in [Conns -> Context] /\ ctx'[c] = x /\ \A d \in Conns \ {c} : ctx'[d] = ctx[d]

HandlesOn(c) ==
  /\ recv_more' = Receiving
  /\ IF recv_more' THEN pc' = "recv" /\ batch' = batch
     ELSE IF ctx[c].buffer # <<>> THEN pc' = "serve" /\ batch' = batch
     ELSE TakesNextEvent

NotedIs(c, x) ==
  /\ x \in Context /\ x.response = ctx[c].response /\ x.buffer = ctx[c].buffer
  /\ x.response_length = ctx[c].response_length

\* The event in hand is of a connection.
InHand(c) == c \in Conns /\ batch # <<>> /\ c = batch[1].item

LEMMA CurrentIs ==
  ASSUME Typed, batch # <<>>, Current # Listener
  PROVE  InHand(Current)
<1>1. batch \in Seq(EventOf)
  BY DEF Typed, TypeOK, EventOf
<1>2. Head(batch) \in EventOf /\ Head(batch) = batch[1]
  BY <1>1
<1>3. Current \in Conns \cup {Listener}
  BY <1>2 DEF EventOf, Current
<1> QED BY <1>2, <1>3 DEF InHand, Current

LEMMA ResumesIs ==
  ASSUME Typed, johnny_resumes
  PROVE  \E c \in Conns :
           /\ pc = "event" /\ InHand(c) /\ c = Current /\ backlog' = backlog
           /\ \/ /\ ClosesConnection(c) /\ TakesNextEvent /\ sock[c].rst # "no"
                 /\ UNCHANGED <<recv_more, ctx>>
              \/ /\ HandlesOn(c)
                 /\ \E x : /\ NotedIs(c, x)
                           /\ \/ Resuming /\ \E n \in 0 .. x.response_length : SendsUnits(c, x, n)
                              \/ ~Resuming /\ Notes(c, x)
<1> DEFINE c == Current
           x == NotedContext
<1>1. pc = "event" /\ batch # <<>> /\ c # Listener /\ backlog' = backlog
  BY DEF johnny_resumes, Typed, Position
<1>2. InHand(c) /\ c \in Conns
  BY <1>1, CurrentIs DEF InHand
<1>3. TypeOK /\ ctx[c] \in Context /\ ctx \in [Conns -> Context] /\ Counts(c)
  BY <1>2 DEF Typed, TypeOK
<1>4. NextEvent => TakesNextEvent
  BY <1>1, <1>3, NextEventIs
<1>5. CASE /\ SendFails(c) /\ johnny_closes_connection(c) /\ NextEvent
           /\ UNCHANGED <<recv_more, ctx>>
  BY <1>1, <1>2, <1>3, <1>4, <1>5, ClosesIs DEF SendFails
<1>6. CASE /\ \/ Resuming /\ johnny_sends_bytes(c, x)
              \/ /\ ~Resuming /\ ctx' = [ctx EXCEPT ![c] = x]
                 /\ UNCHANGED <<sock, ready>>
           /\ recv_more' = Receiving
           /\ IF recv_more' \/ ctx[c].buffer # <<>>
              THEN pc' = (IF recv_more' THEN "recv" ELSE "serve") /\ UNCHANGED batch
              ELSE NextEvent
  <2>1. x = [ctx[c] EXCEPT !.flags = ctx[c].flags \cup {b \in {EPOLLRDHUP} : "RDHUP" \in Head(batch).mask}]
    BY DEF NotedContext
  <2>2. NotedIs(c, x)
    BY <1>3, <2>1 DEF Context, NotedIs
  <2> HIDE DEF x
  <2>3. HandlesOn(c)
    BY <1>4, <1>6 DEF HandlesOn
  <2>4. CASE Resuming /\ johnny_sends_bytes(c, x)
    <3>1. x \in Context /\ (x.response_length > 0 => x.response > 0)
      BY <1>3, <2>2 DEF NotedIs, Counts
    <3>2. \E n \in 0 .. x.response_length : SendsUnits(c, x, n)
      BY <1>2, <1>3, <2>4, <3>1, SendsIs
    <3> QED BY <1>1, <1>2, <2>2, <2>3, <2>4, <3>2
  <2>5. CASE /\ ~Resuming /\ ctx' = [ctx EXCEPT ![c] = x]
             /\ UNCHANGED <<sock, ready>>
    <3>1. Notes(c, x)
      BY <1>2, <1>3, <2>2, <2>5 DEF Notes, NotedIs
    <3> QED BY <1>1, <1>2, <2>2, <2>3, <2>5, <3>1
  <2> QED BY <1>6, <2>4, <2>5
<1> QED BY <1>5, <1>6 DEF johnny_resumes

\* A short read, a long one, or -1: the worker goes on with what it received.
Reads(c, n) ==
  /\ sock' \in [Conns -> Socket] /\ \A d \in Conns \ {c} : sock'[d] = sock[d]
  /\ sock'[c].phase = sock[c].phase /\ sock'[c].asked = sock[c].asked
  /\ sock'[c].fin = sock[c].fin /\ sock'[c].out = sock[c].out
  /\ sock'[c].taken = sock[c].taken /\ sock'[c].nospace = sock[c].nospace
  /\ sock[c].rst # "no" => sock'[c].rst # "no"
  /\ sock[c].rst = "no" => sock'[c].rst = "no"
  /\ sock'[c].inq = sock[c].inq - n
  /\ n = 0 => sock[c].inq = 0
  /\ recv_more' \/ sock'[c].inq = 0
  /\ ctx' \in [Conns -> Context] /\ \A d \in Conns \ {c} : ctx'[d] = ctx[d]
  /\ ctx'[c].flags = ctx[c].flags /\ ctx'[c].response = ctx[c].response
  /\ ctx'[c].response_length = ctx[c].response_length
  /\ n = 0 => ctx'[c].buffer = ctx[c].buffer
  /\ n > 0 => /\ Len(ctx'[c].buffer) = n
              /\ \A i \in 1 .. n : ctx'[c].buffer[i] = sock[c].asked - sock[c].inq + i
  /\ pc' = "serve" /\ batch' = batch /\ ready' = ready /\ recv_more' \in BOOLEAN

\* What the client has ended, or reset.
AtTheEnd(c) == sock[c].inq = 0 /\ (sock[c].fin \/ sock[c].rst # "no")

LEMMA InHandInTheLoop ==
  ASSUME Typed, pc \in {"recv", "serve"}
  PROVE  InHand(Current) /\ Current \in Conns
<1>1. batch # <<>> /\ Current \in Conns
  BY DEF Typed, Position
<1>2. Current # Listener
  BY <1>1, WorkerAssumption
<1> QED BY <1>1, <1>2, CurrentIs

LEMMA ReceivesIs ==
  ASSUME Typed, johnny_receives
  PROVE  \E c \in Conns :
           /\ pc = "recv" /\ InHand(c) /\ c = Current /\ backlog' = backlog
           /\ \/ /\ ClosesConnection(c) /\ TakesNextEvent /\ AtTheEnd(c)
                 /\ UNCHANGED <<recv_more, ctx>>
              \/ \E n \in 0 .. sock[c].inq : Reads(c, n)
<1> DEFINE c == Current
           s == sock[c]
           n == Min({s.inq, JOHNNY_BUFFER_SIZE})
<1>1. pc = "recv" /\ backlog' = backlog /\ InHand(c) /\ c \in Conns /\ TypeOK /\ Counts(c)
      /\ batch # <<>>
  BY InHandInTheLoop DEF johnny_receives, Typed, Position
<1>2. /\ sock \in [Conns -> Socket] /\ s \in Socket
      /\ ctx \in [Conns -> Context] /\ ctx[c] \in Context /\ recv_more \in BOOLEAN
  BY <1>1 DEF TypeOK
<1>3. s.inq \in Nat /\ s.asked \in Nat /\ s.asked <= MaxRequests /\ s.inq <= s.asked
      /\ JOHNNY_BUFFER_SIZE \in Nat \ {0} /\ MaxRequests \in Nat
  BY <1>1, <1>2, WorkerAssumption DEF Socket, Counts
<1>4. CASE /\ s.inq > 0
           /\ sock' = [sock EXCEPT ![c].inq = @ - n]
           /\ ctx' = [ctx EXCEPT ![c].buffer = [i \in 1 .. n |-> s.asked - s.inq + i]]
           /\ recv_more' = (n = JOHNNY_BUFFER_SIZE)
           /\ pc' = "serve" /\ UNCHANGED <<ready, batch>>
  <2>1. n \in 1 .. s.inq /\ (n = s.inq \/ n = JOHNNY_BUFFER_SIZE)
    <3>1. s.inq \in Int /\ JOHNNY_BUFFER_SIZE \in Int
      BY <1>3
    <3> HIDE DEF s
    <3>2. n \in {s.inq, JOHNNY_BUFFER_SIZE} /\ n <= s.inq /\ n <= JOHNNY_BUFFER_SIZE
      BY <3>1, MinOfTwo, Zenon
    <3> QED BY <1>3, <1>4, <3>2
  <2> HIDE DEF n
  <2> DEFINE t == [s EXCEPT !.inq = s.inq - n]
             buf == [i \in 1 .. n |-> s.asked - s.inq + i]
             x == [ctx[c] EXCEPT !.buffer = buf]
  <2>2. sock' = [sock EXCEPT ![c] = t] /\ ctx' = [ctx EXCEPT ![c] = x]
    BY <1>4
  <2>3. t \in Socket
    <3>1. s.inq - n \in 0 .. MaxRequests
      BY <1>3, <2>1
    <3> QED BY <1>2, <3>1 DEF Socket
  <2>4. /\ t.phase = s.phase /\ t.asked = s.asked /\ t.fin = s.fin /\ t.out = s.out
        /\ t.taken = s.taken /\ t.nospace = s.nospace /\ t.rst = s.rst /\ t.inq = s.inq - n
    BY <1>2 DEF Socket
  <2>5. /\ buf \in Seq(1 .. MaxRequests) /\ Len(buf) = n
        /\ \A i \in 1 .. n : buf[i] = s.asked - s.inq + i
    <3>1. \A i \in 1 .. n : s.asked - s.inq + i \in 1 .. MaxRequests
      BY <1>3, <2>1
    <3> QED BY <1>3, <2>1, <3>1
  <2> HIDE DEF buf
  <2>6. /\ x \in Context /\ x.flags = ctx[c].flags /\ x.response = ctx[c].response
        /\ x.response_length = ctx[c].response_length /\ x.buffer = buf
    BY <1>2, <2>5 DEF Context
  <2> HIDE DEF t, x
  <2>7. sock' \in [Conns -> Socket] /\ sock'[c] = t /\ \A d \in Conns \ {c} : sock'[d] = sock[d]
    BY <1>1, <1>2, <2>2, <2>3
  <2>8. ctx' \in [Conns -> Context] /\ ctx'[c] = x /\ \A d \in Conns \ {c} : ctx'[d] = ctx[d]
    BY <1>1, <1>2, <2>2, <2>6
  <2>9. recv_more' \/ s.inq - n = 0
    <3>1. CASE n = s.inq
      BY <1>3, <3>1
    <3>2. CASE n = JOHNNY_BUFFER_SIZE
      BY <1>4, <3>2, Zenon
    <3> QED BY <2>1, <3>1, <3>2
  <2>10. recv_more' \in BOOLEAN
    BY <1>4
  <2>11. n > 0 /\ n # 0 /\ n \in 0 .. s.inq
    BY <1>3, <2>1
  <2>12. Reads(c, n)
    BY <1>4, <2>4, <2>5, <2>6, <2>7, <2>8, <2>9, <2>10, <2>11 DEF Reads
  <2> QED BY <1>1, <2>11, <2>12
<1>5. CASE /\ s.inq = 0 /\ (s.fin \/ s.rst = "reported")
           /\ johnny_closes_connection(c) /\ NextEvent /\ UNCHANGED <<recv_more, ctx>>
  BY <1>1, <1>5, NextEventIs, ClosesIs DEF AtTheEnd
<1>6. CASE /\ s.inq = 0 /\ ~s.fin /\ s.rst # "reported"
           /\ sock' = [sock EXCEPT ![c].rst = IF @ = "pending" THEN "reported" ELSE @]
           /\ recv_more' = FALSE /\ pc' = "serve" /\ UNCHANGED <<ready, batch, ctx>>
  <2> DEFINE t == [s EXCEPT !.rst = IF s.rst = "pending" THEN "reported" ELSE s.rst]
  <2>1. sock' = [sock EXCEPT ![c] = t]
    BY <1>6
  <2>2. /\ t \in Socket /\ t.phase = s.phase /\ t.asked = s.asked /\ t.fin = s.fin
        /\ t.out = s.out /\ t.taken = s.taken /\ t.nospace = s.nospace /\ t.inq = s.inq
        /\ t.rst = IF s.rst = "pending" THEN "reported" ELSE s.rst
    BY <1>2 DEF Socket
  <2> HIDE DEF t
  <2>3. sock' \in [Conns -> Socket] /\ sock'[c] = t /\ \A d \in Conns \ {c} : sock'[d] = sock[d]
    BY <1>1, <1>2, <2>1, <2>2
  <2>4. Reads(c, 0)
    <3>1. /\ sock[c].rst # "no" => sock'[c].rst # "no"
          /\ sock[c].rst = "no" => sock'[c].rst = "no"
          /\ sock'[c].inq = sock[c].inq - 0 /\ sock'[c].inq = 0
      BY <1>3, <1>6, <2>2, <2>3
    <3>2. recv_more' \in BOOLEAN
      BY <1>6, Zenon
    <3>3. ~(0 > 0)
      OBVIOUS
    <3> QED BY <1>2, <1>6, <2>2, <2>3, <3>1, <3>2, <3>3, Zenon DEF Reads
  <2> QED BY <1>1, <1>3, <2>4
<1> QED BY <1>4, <1>5, <1>6 DEF johnny_receives

\* The next request of the buffer becomes the one that is answered.
NextIs(c, x) ==
  /\ x \in Context /\ x.response = ctx[c].buffer[1] /\ x.response > 0
  /\ x.response_length = ResponseLen
  /\ x.buffer \in Seq(1 .. MaxRequests) /\ Len(x.buffer) = Len(ctx[c].buffer) - 1
  /\ \A i \in 1 .. Len(x.buffer) : x.buffer[i] = ctx[c].buffer[i + 1]

LEMMA SendsResponseIs ==
  ASSUME Typed, johnny_sends_response
  PROVE  \E c \in Conns :
           /\ pc = "serve" /\ InHand(c) /\ c = Current
           /\ UNCHANGED <<backlog, recv_more>> /\ ctx[c].buffer # <<>>
           /\ \/ /\ ClosesConnection(c) /\ TakesNextEvent /\ sock[c].rst # "no"
                 /\ ctx' = ctx
              \/ \E x : /\ NextIs(c, x) /\ UNCHANGED <<pc, batch>>
                        /\ \E n \in 0 .. x.response_length : SendsUnits(c, x, n)
<1> DEFINE c == Current
           x == NextResponse(c)
<1>1. pc = "serve" /\ UNCHANGED <<backlog, recv_more>> /\ InHand(c) /\ c \in Conns
      /\ TypeOK /\ Counts(c) /\ batch # <<>> /\ ctx[c].buffer # <<>>
  BY InHandInTheLoop DEF johnny_sends_response, Typed, Position
<1>2. ctx[c] \in Context
  BY <1>1 DEF TypeOK
<1>3. CASE SendFails(c) /\ johnny_closes_connection(c) /\ NextEvent /\ UNCHANGED ctx
  BY <1>1, <1>3, NextEventIs, ClosesIs DEF SendFails
<1>4. CASE johnny_sends_bytes(c, x) /\ UNCHANGED <<pc, batch>>
  <2> DEFINE buf == ctx[c].buffer
  <2>1. buf \in Seq(1 .. MaxRequests) /\ buf # <<>>
    BY <1>1, <1>2 DEF Context
  <2>2. x = [ctx[c] EXCEPT !.response = Head(buf), !.response_length = ResponseLen,
                           !.buffer = Tail(buf)]
    BY DEF NextResponse
  <2> HIDE DEF x, buf
  <2>3. /\ Head(buf) = buf[1] /\ Head(buf) \in 1 .. MaxRequests
        /\ Tail(buf) \in Seq(1 .. MaxRequests) /\ Len(Tail(buf)) = Len(buf) - 1
        /\ \A i \in 1 .. Len(Tail(buf)) : Tail(buf)[i] = buf[i + 1]
    <3>1. Head(buf) = buf[1]
      BY <2>1
    <3> QED BY <2>1, <3>1, HeadTailProperties, Zenon
  <2>4. Head(buf) > 0 /\ Head(buf) \in 0 .. MaxRequests /\ ResponseLen \in 0 .. ResponseLen
    BY <2>3, WorkerAssumption
  <2>5. NextIs(c, x)
    BY <1>2, <2>2, <2>3, <2>4 DEF NextIs, Context, buf
  <2>6. x \in Context /\ x.response > 0
    BY <2>5 DEF NextIs
  <2>7. \E n \in 0 .. x.response_length : SendsUnits(c, x, n)
    BY <1>1, <1>4, <2>6, SendsIs
  <2> QED BY <1>1, <1>4, <2>5, <2>7
<1> QED BY <1>1, <1>3, <1>4 DEF johnny_sends_response

LEMMA DrainedIs ==
  ASSUME Typed, johnny_drained
  PROVE  \E c \in Conns :
           /\ pc = "serve" /\ InHand(c) /\ c = Current
           /\ UNCHANGED <<sock, ready, backlog, recv_more, ctx>> /\ ctx[c].buffer = <<>>
           /\ IF recv_more THEN pc' = "recv" /\ batch' = batch ELSE TakesNextEvent
<1> DEFINE c == Current
<1>1. pc = "serve" /\ UNCHANGED <<backlog, recv_more, ctx>> /\ InHand(c) /\ c \in Conns
      /\ TypeOK /\ batch # <<>> /\ ctx[c].buffer = <<>>
  BY InHandInTheLoop DEF johnny_drained, Typed, Position
<1>2. JOHNNY_CTX_RDHUP \notin ctx[c].flags
  BY <1>1 DEF TypeOK, Context, EPOLLRDHUP, JOHNNY_CTX_RDHUP
<1>3. CASE recv_more
  BY <1>1, <1>3 DEF johnny_drained
<1>4. CASE ~recv_more
  <2>1. NextEvent /\ UNCHANGED <<sock, ready>>
    BY <1>2, <1>4 DEF johnny_drained
  <2> QED BY <1>1, <1>4, <2>1, NextEventIs
<1> QED BY <1>3, <1>4

---------------------------------------------------------------------------
(* The types are kept. *)

LEMMA PositionOfNextEvent ==
  ASSUME TakesNextEvent
  PROVE  Position' /\ pc' \in {"wait", "event"} /\ batch' \in Seq(EventOf)
BY DEF TakesNextEvent, Position

LEMMA PositionInHand ==
  ASSUME Typed, NEW c, InHand(c), c = Current, batch' = batch, pc' \in {"event", "recv", "serve"}
  PROVE  Position'
BY DEF InHand, Position, Current

LEMMA CountsUntouched ==
  ASSUME NEW d \in Conns, Counts(d), sock'[d] = sock[d], ctx'[d] = ctx[d]
  PROVE  Counts(d)'
BY DEF Counts, Space

LEMMA CountsAsBefore ==
  ASSUME NEW d \in Conns, Counts(d), ctx'[d] = ctx[d],
         sock'[d].out = sock[d].out, sock'[d].taken = sock[d].taken,
         sock'[d].asked = sock[d].asked, sock'[d].inq = sock[d].inq
  PROVE  Counts(d)'
BY DEF Counts, Space

LEMMA SocketNumbers ==
  ASSUME NEW s \in Socket
  PROVE  /\ s.asked \in Nat /\ s.inq \in Nat /\ s.taken \in Nat /\ Len(s.out) \in Nat
         /\ s.asked <= MaxRequests /\ s.inq <= MaxRequests /\ s.out \in Seq(Units)
BY WorkerAssumption DEF Socket

LEMMA CountsSent ==
  ASSUME TypeOK, NEW c \in Conns, Counts(c), NEW x \in Context, NEW n \in 0 .. x.response_length,
         SendsUnits(c, x, n), x.response_length > 0 => x.response > 0
  PROVE  Counts(c)'
<1>1. /\ sock[c].taken \in Nat /\ Len(sock[c].out) \in Nat /\ SendBuffer \in Nat
      /\ x.response_length \in Nat
  <2>1. sock[c] \in Socket
    BY DEF TypeOK
  <2> QED BY <2>1, SocketNumbers, WorkerAssumption DEF Context
<1>2. /\ sock'[c].inq = sock[c].inq /\ sock'[c].asked = sock[c].asked
      /\ sock'[c].taken = sock[c].taken /\ Len(sock'[c].out) = Len(sock[c].out) + n
      /\ n <= Space(c) /\ ctx'[c].response = x.response
      /\ ctx'[c].response_length = x.response_length - n
  BY DEF SendsUnits
<1>3. sock[c].inq <= sock[c].asked /\ sock[c].taken <= Len(sock[c].out)
  BY DEF Counts
<1>4. n \in Nat
  BY <1>1
<1>5. Space(c)' >= 0 /\ sock'[c].taken <= Len(sock'[c].out)
  <2> DEFINE out == Len(sock[c].out)
             taken == sock[c].taken
  <2>1. \A l, t, s, k \in Nat : k <= s - (l - t) => s - ((l + k) - t) >= 0
    OBVIOUS
  <2>2. Space(c) = SendBuffer - (out - taken) /\ Space(c)' = SendBuffer - ((out + n) - taken)
    BY <1>2 DEF Space
  <2>3. \A l, t, k \in Nat : t <= l => t <= l + k
    OBVIOUS
  <2>4. out \in Nat /\ taken \in Nat /\ SendBuffer \in Nat
    BY <1>1
  <2> HIDE DEF out, taken
  <2>5. Space(c)' >= 0
    BY <1>2, <1>4, <2>1, <2>2, <2>4
  <2>6. taken <= out + n
    BY <1>3, <1>4, <2>3, <2>4 DEF out, taken
  <2> QED BY <1>2, <2>5, <2>6 DEF out, taken
<1>6. ctx'[c].response_length > 0 => ctx'[c].response > 0
  BY <1>1, <1>2, <1>4
<1> QED BY <1>2, <1>3, <1>5, <1>6 DEF Counts

LEMMA TypedInit == Init => Typed
<1> SUFFICES ASSUME Init PROVE Typed
  OBVIOUS
<1> USE WorkerAssumption
<1>1. \A c \in Conns : sock[c] =
        [phase |-> "idle", asked |-> 0, inq |-> 0, fin |-> FALSE, rst |-> "no",
         out |-> <<>>, taken |-> 0, nospace |-> FALSE]
  BY DEF Init
<1>2. sock \in [Conns -> Socket]
  BY <1>1 DEF Init, Socket
<1>3. ctx \in [Conns -> Context]
  BY DEF Init, FreshContext, Context
<1>4. TypeOK
  <2>1. backlog = <<>> /\ ready = <<>> /\ pc = "wait" /\ batch = <<>> /\ recv_more = FALSE
    BY DEF Init
  <2>2. /\ backlog \in Seq(Conns) /\ ready \in Seq(Conns \cup {Listener})
        /\ batch \in Seq([item : Conns \cup {Listener}, mask : SUBSET Events])
    BY <2>1, EmptySeq
  <2> QED BY <1>2, <1>3, <2>1, <2>2, Zenon DEF TypeOK
<1>5. \A c \in Conns : Counts(c)
  <2> TAKE c \in Conns
  <2>1. Space(c) = SendBuffer
    BY <1>1 DEF Space
  <2>2. ctx[c].response_length = 0
    BY DEF Init, FreshContext
  <2> QED BY <1>1, <2>1, <2>2 DEF Counts
<1>6. Position
  BY DEF Init, Position
<1> QED BY <1>4, <1>5, <1>6 DEF Typed

LEMMA TypedClient ==
  ASSUME Typed, NEW c \in Conns, Client(c)
  PROVE  Typed'
<1>1. ClientSteps(c) /\ TypeOK
  BY ClientIs DEF Typed
<1>2. TypeOK'
  BY <1>1 DEF ClientSteps, TypeOK
<1>3. Position'
  BY <1>1 DEF ClientSteps, Typed, Position, Current
<1>4. \A d \in Conns \ {c} : Counts(d)'
  BY <1>1, CountsUntouched DEF ClientSteps, Typed
<1>5. Counts(c)'
  <2>1. /\ sock[c].asked \in Nat /\ sock[c].inq \in Nat /\ sock[c].taken \in Nat
        /\ sock'[c].asked \in Nat /\ sock'[c].inq \in Nat /\ sock'[c].taken \in Nat
        /\ Len(sock[c].out) \in Nat /\ SendBuffer \in Nat
    <3>1. sock[c] \in Socket /\ sock'[c] \in Socket
      BY <1>1 DEF ClientSteps, TypeOK
    <3> QED BY <3>1, SocketNumbers, WorkerAssumption
  <2>2. /\ sock'[c].out = sock[c].out /\ ctx'[c] = ctx[c]
        /\ sock'[c].asked - sock'[c].inq = sock[c].asked - sock[c].inq
        /\ sock'[c].taken >= sock[c].taken
        /\ sock[c].taken <= Len(sock[c].out) => sock'[c].taken <= Len(sock[c].out)
    BY <1>1 DEF ClientSteps
  <2>3. Counts(c)
    BY DEF Typed
  <2>4. sock'[c].inq <= sock'[c].asked
    BY <2>1, <2>2, <2>3 DEF Counts
  <2>5. sock'[c].taken <= Len(sock'[c].out)
    BY <2>1, <2>2, <2>3 DEF Counts
  <2>6. Space(c)' >= 0
    <3>1. SendBuffer - (Len(sock[c].out) - sock[c].taken) >= 0
      BY <2>3 DEF Counts, Space
    <3>2. Space(c)' = SendBuffer - (Len(sock[c].out) - sock'[c].taken)
      BY <2>2 DEF Space
    <3>3. SendBuffer - (Len(sock[c].out) - sock'[c].taken) >= 0
      <4>1. \A size, sent, old, new \in Nat :
              new >= old /\ size - (sent - old) >= 0 => size - (sent - new) >= 0
        OBVIOUS
      <4> QED BY <2>1, <2>2, <3>1, <4>1, Zenon
    <3> QED BY <3>2, <3>3, Zenon
  <2> QED BY <2>2, <2>3, <2>4, <2>5, <2>6 DEF Counts
<1> QED BY <1>2, <1>3, <1>4, <1>5 DEF Typed

LEMMA TypedEpoll == Typed /\ epoll_wait => Typed'
<1> SUFFICES ASSUME Typed, epoll_wait PROVE Typed'
  OBVIOUS
<1>1. PICK k \in 1 .. Len(ready) : Polls(k)
  BY EpollIs DEF Typed
<1>2. UNCHANGED <<backlog, recv_more, ctx>>
  BY DEF epoll_wait
<1>3. TypeOK' /\ Position'
  BY <1>1, <1>2 DEF Polls, Typed, TypeOK, EventOf, Position
<1>4. \A d \in Conns : Counts(d)'
  BY <1>1, <1>2, CountsAsBefore DEF Polls, SameButPhase, Typed
<1> QED BY <1>3, <1>4 DEF Typed

\* A step that closes c, or leaves sockets and contexts alone.
LEMMA TypedClosing ==
  ASSUME Typed, NEW c \in Conns, TakesNextEvent, backlog' = backlog, ctx' = ctx,
         recv_more' = recv_more, ClosesConnection(c) \/ UNCHANGED <<sock, ready>>
  PROVE  Typed'
<1>1. Position' /\ pc' \in {"wait", "event"} /\ batch' \in Seq(EventOf)
  BY PositionOfNextEvent
<1>2. TypeOK'
  BY <1>1 DEF ClosesConnection, Typed, TypeOK, EventOf
<1>3. \A d \in Conns : Counts(d)'
  BY CountsAsBefore DEF ClosesConnection, SameButPhase, Typed
<1> QED BY <1>1, <1>2, <1>3 DEF Typed

LEMMA TypedAccepts == Typed /\ johnny_accepts => Typed'
<1> SUFFICES ASSUME Typed, johnny_accepts PROVE Typed'
  OBVIOUS
<1>1. TakesNextEvent /\ recv_more' = recv_more
  BY AcceptsIs
<1>2. Position' /\ pc' \in {"wait", "event"} /\ batch' \in Seq(EventOf)
  BY <1>1, PositionOfNextEvent
<1>3. CASE UNCHANGED <<kernel, ctx>>
  <2>1. TypeOK'
    BY <1>1, <1>2, <1>3 DEF Typed, TypeOK, EventOf, kernel
  <2>2. \A d \in Conns : Counts(d)'
    BY <1>3, CountsUntouched DEF kernel, Typed
  <2> QED BY <1>2, <2>1, <2>2 DEF Typed
<1>4. ASSUME NEW c \in Conns, Accepts(c) PROVE Typed'
  <2>1. /\ FreshContext \in Context /\ FreshContext.response_length = 0
    BY WorkerAssumption DEF FreshContext, Context
  <2>2. /\ ctx' \in [Conns -> Context] /\ ctx'[c] = FreshContext
        /\ \A d \in Conns \ {c} : ctx'[d] = ctx[d]
    BY <1>4, <2>1 DEF Accepts, Typed, TypeOK
  <2>3. TypeOK'
    BY <1>1, <1>2, <1>4, <2>2 DEF Accepts, Typed, TypeOK, EventOf
  <2>4. \A d \in Conns \ {c} : Counts(d)'
    BY <1>4, <2>2, CountsUntouched DEF Accepts, Typed
  <2>5. Counts(c)'
    BY <1>4, <2>1, <2>2 DEF Accepts, SameButPhase, Typed, Counts, Space
  <2> QED BY <1>2, <2>3, <2>4, <2>5 DEF Typed
<1> QED BY <1>3, <1>4, AcceptsIs

LEMMA TypedResumes == Typed /\ johnny_resumes => Typed'
<1> SUFFICES ASSUME Typed, johnny_resumes PROVE Typed'
  OBVIOUS
<1>1. PICK c \in Conns :
        /\ pc = "event" /\ InHand(c) /\ c = Current /\ backlog' = backlog
        /\ \/ /\ ClosesConnection(c) /\ TakesNextEvent /\ sock[c].rst # "no"
              /\ UNCHANGED <<recv_more, ctx>>
           \/ /\ HandlesOn(c)
              /\ \E x : /\ NotedIs(c, x)
                        /\ \/ Resuming /\ \E n \in 0 .. x.response_length : SendsUnits(c, x, n)
                           \/ ~Resuming /\ Notes(c, x)
  BY ResumesIs
<1>2. CASE /\ ClosesConnection(c) /\ TakesNextEvent /\ UNCHANGED <<recv_more, ctx>>
  BY <1>1, <1>2, TypedClosing
<1>3. ASSUME HandlesOn(c), NEW x, NotedIs(c, x),
             (\E n \in 0 .. x.response_length : SendsUnits(c, x, n)) \/ Notes(c, x)
      PROVE  Typed'
  <2>1. Position' /\ pc' \in {"wait", "event", "recv", "serve"} /\ batch' \in Seq(EventOf)
        /\ recv_more' \in BOOLEAN
    <3>1. recv_more' \in BOOLEAN
      BY <1>3, Zenon DEF HandlesOn, Receiving
    <3>2. batch \in Seq(EventOf)
      BY DEF Typed, TypeOK, EventOf
    <3> QED BY <1>1, <1>3, <3>1, <3>2, PositionInHand, PositionOfNextEvent DEF HandlesOn
  <2>2. /\ sock' \in [Conns -> Socket] /\ ctx' \in [Conns -> Context]
        /\ ready' \in Seq(Conns \cup {Listener})
        /\ \A d \in Conns \ {c} : sock'[d] = sock[d] /\ ctx'[d] = ctx[d]
    BY <1>3 DEF SendsUnits, Notes, Typed, TypeOK
  <2>3. TypeOK'
    BY <1>1, <2>1, <2>2 DEF Typed, TypeOK, EventOf
  <2>4. \A d \in Conns \ {c} : Counts(d)'
    BY <2>2, CountsUntouched DEF Typed
  <2>5. Counts(c)'
    <3>1. Counts(c) /\ TypeOK
      BY DEF Typed
    <3>2. CASE Notes(c, x)
      BY <1>3, <3>1, <3>2 DEF Notes, NotedIs, Counts, Space
    <3>3. CASE \E n \in 0 .. x.response_length : SendsUnits(c, x, n)
      BY <1>3, <3>1, <3>3, CountsSent DEF NotedIs, Counts
    <3> QED BY <1>3, <3>2, <3>3
  <2> QED BY <2>1, <2>3, <2>4, <2>5 DEF Typed
<1> QED BY <1>1, <1>2, <1>3

LEMMA TypedReceives == Typed /\ johnny_receives => Typed'
<1> SUFFICES ASSUME Typed, johnny_receives PROVE Typed'
  OBVIOUS
<1>1. PICK c \in Conns :
        /\ pc = "recv" /\ InHand(c) /\ c = Current /\ backlog' = backlog
        /\ \/ /\ ClosesConnection(c) /\ TakesNextEvent /\ AtTheEnd(c)
              /\ UNCHANGED <<recv_more, ctx>>
           \/ \E n \in 0 .. sock[c].inq : Reads(c, n)
  BY ReceivesIs
<1>2. CASE /\ ClosesConnection(c) /\ TakesNextEvent /\ UNCHANGED <<recv_more, ctx>>
  BY <1>1, <1>2, TypedClosing
<1>3. ASSUME NEW n \in 0 .. sock[c].inq, Reads(c, n) PROVE Typed'
  <2>1. Position'
    BY <1>1, <1>3, PositionInHand DEF Reads
  <2>2. TypeOK'
    BY <1>1, <1>3 DEF Reads, Typed, TypeOK, EventOf
  <2>3. \A d \in Conns \ {c} : Counts(d)'
    BY <1>3, CountsUntouched DEF Reads, Typed
  <2>4. Counts(c)'
    <3>1. sock[c].inq \in Nat /\ sock[c].asked \in Nat
      BY DEF Typed, TypeOK, Socket
    <3> QED BY <1>3, <3>1 DEF Reads, Typed, Counts, Space
  <2> QED BY <2>1, <2>2, <2>3, <2>4 DEF Typed
<1> QED BY <1>1, <1>2, <1>3

LEMMA TypedSendsResponse == Typed /\ johnny_sends_response => Typed'
<1> SUFFICES ASSUME Typed, johnny_sends_response PROVE Typed'
  OBVIOUS
<1>1. PICK c \in Conns :
        /\ pc = "serve" /\ InHand(c) /\ c = Current
        /\ UNCHANGED <<backlog, recv_more>> /\ ctx[c].buffer # <<>>
        /\ \/ /\ ClosesConnection(c) /\ TakesNextEvent /\ sock[c].rst # "no"
              /\ ctx' = ctx
           \/ \E x : /\ NextIs(c, x) /\ UNCHANGED <<pc, batch>>
                     /\ \E n \in 0 .. x.response_length : SendsUnits(c, x, n)
  BY SendsResponseIs
<1>2. CASE /\ ClosesConnection(c) /\ TakesNextEvent /\ ctx' = ctx
  BY <1>1, <1>2, TypedClosing
<1>3. ASSUME NEW x, NextIs(c, x), UNCHANGED <<pc, batch>>,
             NEW n \in 0 .. x.response_length, SendsUnits(c, x, n)
      PROVE  Typed'
  <2>1. Position'
    BY <1>1, <1>3, PositionInHand
  <2>2. TypeOK'
    BY <1>1, <1>3 DEF SendsUnits, Typed, TypeOK
  <2>3. \A d \in Conns \ {c} : Counts(d)'
    BY <1>3, CountsUntouched DEF SendsUnits, Typed
  <2>4. Counts(c)'
    BY <1>3, CountsSent DEF NextIs, Typed
  <2> QED BY <2>1, <2>2, <2>3, <2>4 DEF Typed
<1> QED BY <1>1, <1>2, <1>3

LEMMA TypedDrained == Typed /\ johnny_drained => Typed'
<1> SUFFICES ASSUME Typed, johnny_drained PROVE Typed'
  OBVIOUS
<1>1. PICK c \in Conns :
        /\ pc = "serve" /\ InHand(c) /\ c = Current
        /\ UNCHANGED <<sock, ready, backlog, recv_more, ctx>> /\ ctx[c].buffer = <<>>
        /\ IF recv_more THEN pc' = "recv" /\ batch' = batch ELSE TakesNextEvent
  BY DrainedIs
<1>2. CASE TakesNextEvent
  BY <1>1, <1>2, TypedClosing
<1>3. CASE pc' = "recv" /\ batch' = batch
  <2>1. Position'
    BY <1>1, <1>3, PositionInHand
  <2>2. TypeOK'
    BY <1>1, <1>3 DEF Typed, TypeOK
  <2>3. \A d \in Conns : Counts(d)'
    BY <1>1, CountsUntouched DEF Typed
  <2> QED BY <2>1, <2>2, <2>3 DEF Typed
<1> QED BY <1>1, <1>2, <1>3

LEMMA TypedUnchanged == Typed /\ UNCHANGED vars => Typed'
BY DEF vars, Typed, TypeOK, Position, Current, Counts, Space

LEMMA TypedNext == Typed /\ [Next]_vars => Typed'
BY TypedClient, TypedEpoll, TypedAccepts, TypedResumes, TypedReceives, TypedSendsResponse,
   TypedDrained, TypedUnchanged DEF Next, johnny_works

(***************************************************************************)
(* Types are kept: a partial or a refused send, of which the rest is       *)
(* computed by subtraction, never leaves a length below zero, and a        *)
(* receive never reads beyond what was sent.                               *)
(***************************************************************************)
THEOREM TypeCorrect == Spec => []TypeOK
<1>1. Typed => TypeOK
  BY DEF Typed
<1> QED BY <1>1, TypedInit, TypedNext, PTL DEF Spec

---------------------------------------------------------------------------
(* Events are of open connections, each of which has one at most. *)

ReadyIsWatched == IsInjective(ready) /\ Range(ready) \subseteq Watched

BatchIsWatched ==
  /\ \A i \in 1 .. Len(batch) : batch[i].item \in Watched
  /\ \A i, j \in 1 .. Len(batch) : batch[i].item = batch[j].item => i = j

BacklogWaits ==
  /\ \A i \in 1 .. Len(backlog) : sock[backlog[i]].phase = "backlog"
  /\ \A i, j \in 1 .. Len(backlog) : backlog[i] = backlog[j] => i = j

Events1 == ReadyIsWatched /\ BatchIsWatched /\ BacklogWaits

LEMMA PhasesKept ==
  ASSUME \A d \in Conns : sock'[d].phase = sock[d].phase
  PROVE  Open' = Open /\ Watched' = Watched
BY DEF Open, Watched

\* What is in hand is open.
LEMMA InHandIsOpen ==
  ASSUME Typed, BatchIsWatched, NEW c, InHand(c)
  PROVE  c \in Open /\ sock[c].phase = "open" /\ Len(batch) \in Nat \ {0}
<1>1. batch \in Seq(EventOf) /\ batch # <<>>
  BY DEF Typed, TypeOK, EventOf, InHand
<1>2. Len(batch) \in Nat \ {0}
  BY <1>1
<1>3. c \in Watched
  BY <1>2 DEF BatchIsWatched, InHand
<1> QED BY <1>2, <1>3, WorkerAssumption DEF Watched, InHand, Open

\* The rest of the batch is of other items than the one that was in hand.
LEMMA BatchOfNextEvent ==
  ASSUME Typed, BatchIsWatched, batch # <<>>, TakesNextEvent
  PROVE  /\ \A i \in 1 .. Len(batch') :
              /\ i + 1 \in 1 .. Len(batch) /\ batch'[i] = batch[i + 1]
              /\ batch'[i].item \in Watched /\ batch'[i].item # batch[1].item
         /\ \A i, j \in 1 .. Len(batch') : batch'[i].item = batch'[j].item => i = j
<1>1. Len(batch) \in Nat \ {0} /\ Len(batch') = Len(batch) - 1
  BY DEF Typed, TypeOK, TakesNextEvent
<1>2. \A i \in 1 .. Len(batch') : i + 1 \in 1 .. Len(batch) /\ batch'[i] = batch[i + 1]
  BY <1>1 DEF TakesNextEvent
<1>3. ASSUME NEW i \in 1 .. Len(batch') PROVE batch'[i].item # batch[1].item
  <2>1. i + 1 # 1 /\ 1 \in 1 .. Len(batch)
    BY <1>1
  <2> QED BY <1>2, <2>1 DEF BatchIsWatched
<1>4. ASSUME NEW i \in 1 .. Len(batch'), NEW j \in 1 .. Len(batch'),
             batch'[i].item = batch'[j].item
      PROVE  i = j
  <2>1. i + 1 = j + 1
    BY <1>2, <1>4 DEF BatchIsWatched
  <2> QED BY <1>1, <2>1
<1> QED BY <1>2, <1>3, <1>4 DEF BatchIsWatched

\* A step that changes no phase and neither list of connections, and at
\* most goes on to the next event.
LEMMA Events1AsBefore ==
  ASSUME Typed, Events1, \A d \in Conns : sock'[d].phase = sock[d].phase,
         ready' = ready, backlog' = backlog,
         batch' = batch \/ (batch # <<>> /\ TakesNextEvent)
  PROVE  Events1'
<1>1. Open' = Open /\ Watched' = Watched
  BY PhasesKept
<1>2. backlog \in Seq(Conns)
  BY DEF Typed, TypeOK
<1>3. ReadyIsWatched' /\ BacklogWaits'
  BY <1>1, <1>2 DEF Events1, ReadyIsWatched, BacklogWaits
<1>4. BatchIsWatched'
  <2>1. CASE batch' = batch
    BY <1>1, <2>1 DEF Events1, BatchIsWatched
  <2>2. CASE batch # <<>> /\ TakesNextEvent
    BY <1>1, <2>2, BatchOfNextEvent DEF Events1, BatchIsWatched
  <2> QED BY <2>1, <2>2
<1> QED BY <1>3, <1>4 DEF Events1

LEMMA Events1Closes ==
  ASSUME Typed, Events1, NEW c \in Conns, InHand(c), backlog' = backlog,
         ClosesConnection(c), TakesNextEvent
  PROVE  Events1'
<1>1. c \in Open /\ sock[c].phase = "open"
  BY InHandIsOpen DEF Events1
<1>2. Watched \ {c} \subseteq Watched'
  BY WorkerAssumption DEF ClosesConnection, Watched, Open
<1>3. ReadyIsWatched'
  BY <1>2 DEF ClosesConnection, Events1, ReadyIsWatched
<1>4. BatchIsWatched'
  BY <1>2, BatchOfNextEvent DEF InHand, Events1, BatchIsWatched
<1>5. BacklogWaits'
  <2>1. backlog \in Seq(Conns)
    BY DEF Typed, TypeOK
  <2>2. ASSUME NEW i \in 1 .. Len(backlog) PROVE sock'[backlog[i]].phase = "backlog"
    <3>1. backlog[i] \in Conns /\ backlog[i] # c
      BY <1>1, <2>1 DEF Events1, BacklogWaits
    <3> QED BY <3>1 DEF ClosesConnection, Events1, BacklogWaits
  <2> QED BY <2>2 DEF Events1, BacklogWaits
<1> QED BY <1>3, <1>4, <1>5 DEF Events1

LEMMA Events1Init == Init => Events1
<1> SUFFICES ASSUME Init PROVE Events1
  OBVIOUS
<1>1. backlog = <<>> /\ ready = <<>> /\ batch = <<>>
  BY DEF Init
<1> QED BY <1>1 DEF Events1, ReadyIsWatched, BatchIsWatched, BacklogWaits, Range, IsInjective

LEMMA Events1Client ==
  ASSUME Typed, Events1, NEW c \in Conns, Client(c)
  PROVE  Events1'
<1>1. ClientSteps(c) /\ backlog \in Seq(Conns)
  BY ClientIs DEF Typed, TypeOK
<1>2. Open' = Open /\ Watched' = Watched
  BY <1>1 DEF ClientSteps, Open, Watched
<1>3. ReadyIsWatched'
  BY <1>1, <1>2 DEF ClientSteps, Events1, ReadyIsWatched, Watched
<1>4. BatchIsWatched'
  BY <1>1, <1>2 DEF ClientSteps, Events1, BatchIsWatched
<1>5. CASE sock'[c].phase = sock[c].phase /\ backlog' = backlog
  <2>1. BacklogWaits'
    BY <1>1, <1>5 DEF ClientSteps, Events1, BacklogWaits
  <2> QED BY <1>3, <1>4, <2>1 DEF Events1
<1>6. CASE sock[c].phase = "idle" /\ sock'[c].phase = "backlog" /\ backlog' = Append(backlog, c)
  <2>1. /\ Len(backlog') = Len(backlog) + 1 /\ backlog'[Len(backlog) + 1] = c
        /\ \A i \in 1 .. Len(backlog) : backlog'[i] = backlog[i] /\ backlog[i] \in Conns
    BY <1>1, <1>6
  <2>2. \A i \in 1 .. Len(backlog) : backlog[i] # c /\ sock'[backlog[i]].phase = "backlog"
    BY <1>1, <1>6, <2>1 DEF ClientSteps, Events1, BacklogWaits
  <2>3. Len(backlog) \in Nat
    BY <1>1
  <2>4. ASSUME NEW i \in 1 .. Len(backlog') PROVE sock'[backlog'[i]].phase = "backlog"
    <3>1. CASE i = Len(backlog) + 1
      BY <1>6, <2>1, <3>1
    <3>2. CASE i \in 1 .. Len(backlog)
      BY <2>1, <2>2, <3>2
    <3> QED BY <2>1, <2>3, <3>1, <3>2
  <2>5. ASSUME NEW i \in 1 .. Len(backlog'), NEW j \in 1 .. Len(backlog'), backlog'[i] = backlog'[j]
        PROVE  i = j
    <3>1. CASE i = Len(backlog) + 1 /\ j \in 1 .. Len(backlog)
      BY <2>1, <2>2, <2>5, <3>1
    <3>2. CASE j = Len(backlog) + 1 /\ i \in 1 .. Len(backlog)
      BY <2>1, <2>2, <2>5, <3>2
    <3>3. CASE i \in 1 .. Len(backlog) /\ j \in 1 .. Len(backlog)
      BY <2>1, <2>5, <3>3 DEF Events1, BacklogWaits
    <3> QED BY <2>1, <2>3, <3>1, <3>2, <3>3
  <2> QED BY <1>3, <1>4, <2>4, <2>5 DEF Events1, BacklogWaits
<1> QED BY <1>1, <1>5, <1>6 DEF ClientSteps

LEMMA Events1Epoll == Typed /\ Events1 /\ epoll_wait => Events1'
<1> SUFFICES ASSUME Typed, Events1, epoll_wait PROVE Events1'
  OBVIOUS
<1>1. PICK k \in 1 .. Len(ready) : Polls(k)
  BY EpollIs DEF Typed
<1>2. backlog' = backlog /\ backlog \in Seq(Conns)
  BY DEF epoll_wait, Typed, TypeOK
<1>3. Open' = Open /\ Watched' = Watched
  BY <1>1, PhasesKept DEF Polls
<1>4. ready \in Seq(Conns \cup {Listener}) /\ Len(ready) \in Nat
  BY DEF Typed, TypeOK
<1>5. \A i \in 1 .. Len(ready') : ready'[i] = ready[k + i] /\ k + i \in 1 .. Len(ready)
  BY <1>1, <1>4 DEF Polls
<1>6. Range(ready') \subseteq Range(ready)
  <2>1. \A x \in Range(ready') : \E i \in 1 .. Len(ready') : ready'[i] = x
    BY <1>1 DEF Polls, Range
  <2>2. \A j \in 1 .. Len(ready) : ready[j] \in Range(ready)
    BY <1>4, RangeOf
  <2> QED BY <1>5, <2>1, <2>2
<1>7. IsInjective(ready')
  <2>1. \A i, j \in 1 .. Len(ready) : ready[i] = ready[j] => i = j
    BY <1>4 DEF Events1, ReadyIsWatched, IsInjective
  <2>2. \A i, j \in 1 .. Len(ready') : ready'[i] = ready'[j] => i = j
    <3> SUFFICES ASSUME NEW i \in 1 .. Len(ready'), NEW j \in 1 .. Len(ready'),
                        ready'[i] = ready'[j]
                 PROVE  i = j
      OBVIOUS
    <3>1. k + i = k + j
      BY <1>5, <2>1
    <3> QED BY <1>4, <3>1
  <2>3. DOMAIN ready' = 1 .. Len(ready')
    BY <1>1 DEF Polls
  <2> QED BY <2>2, <2>3 DEF IsInjective
<1>8. ReadyIsWatched'
  BY <1>3, <1>6, <1>7 DEF Events1, ReadyIsWatched
<1>9. BatchIsWatched'
  <2>1. \A j \in 1 .. Len(ready) : ready[j] \in Watched
    BY <1>4, RangeOf DEF Events1, ReadyIsWatched
  <2>2. \A i \in 1 .. Len(batch') : batch'[i].item \in Watched
    <3>1. \A i \in 1 .. Len(batch') : \E j \in 1 .. k : batch'[i].item = ready[j]
      BY <1>1 DEF Polls
    <3>2. \A j \in 1 .. k : j \in 1 .. Len(ready)
      BY <1>4
    <3> QED BY <2>1, <3>1, <3>2
  <2>3. IsInjective(ready)
    BY DEF Events1, ReadyIsWatched
  <2> QED BY <1>1, <1>3, <2>2, <2>3 DEF BatchIsWatched, Polls
<1>10. BacklogWaits'
  <2>1. backlog' = backlog /\ \A i \in 1 .. Len(backlog) : backlog[i] \in Conns
    BY <1>2, ElementOfSeq DEF Typed, TypeOK, Polls
  <2>2. \A d \in Conns : sock'[d].phase = sock[d].phase
    BY <1>1 DEF Polls
  <2>3. BacklogWaits
    BY DEF Events1
  <2> QED BY <2>1, <2>2, <2>3 DEF BacklogWaits
<1> QED BY <1>8, <1>9, <1>10 DEF Events1

LEMMA Events1Accepts == Typed /\ Events1 /\ johnny_accepts => Events1'
<1> SUFFICES ASSUME Typed, Events1, johnny_accepts PROVE Events1'
  OBVIOUS
<1>1. batch # <<>> /\ TakesNextEvent /\ backlog \in Seq(Conns)
  BY AcceptsIs DEF Typed, TypeOK
<1>2. CASE UNCHANGED <<kernel, ctx>>
  BY <1>1, <1>2, Events1AsBefore DEF kernel
<1>3. ASSUME NEW c \in Conns, Accepts(c) PROVE Events1'
  <2>1. Len(backlog) \in Nat \ {0}
    BY <1>1, <1>3 DEF Accepts
  <2>2. Watched' = Watched \cup {c}
    BY <1>3 DEF Accepts, Watched, Open
  <2>3. ReadyIsWatched'
    BY <1>3, <2>2 DEF Accepts, Events1, ReadyIsWatched
  <2>4. BatchIsWatched'
    BY <1>1, <2>2, BatchOfNextEvent DEF Events1, BatchIsWatched
  <2>5. \A i \in 1 .. Len(backlog') : /\ backlog'[i] = backlog[i + 1]
                                      /\ i + 1 \in 1 .. Len(backlog) /\ i + 1 # 1
    BY <1>3, <2>1 DEF Accepts
  <2>6. \A i \in 1 .. Len(backlog') : /\ backlog[i + 1] # c /\ backlog[i + 1] \in Conns
                                      /\ sock[backlog[i + 1]].phase = "backlog"
    <3>1. 1 \in 1 .. Len(backlog) /\ backlog[1] = c
      BY <1>3, <2>1 DEF Accepts
    <3> QED BY <1>1, <2>5, <3>1 DEF Events1, BacklogWaits
  <2>7. \A i \in 1 .. Len(backlog') : sock'[backlog'[i]].phase = "backlog"
    BY <1>3, <2>5, <2>6 DEF Accepts
  <2>8. ASSUME NEW i \in 1 .. Len(backlog'), NEW j \in 1 .. Len(backlog'), backlog'[i] = backlog'[j]
        PROVE  i = j
    <3>1. i + 1 = j + 1
      BY <2>5, <2>8 DEF Events1, BacklogWaits
    <3> QED BY <2>1, <3>1
  <2> QED BY <2>3, <2>4, <2>7, <2>8 DEF Events1, BacklogWaits
<1> QED BY <1>2, <1>3, AcceptsIs

LEMMA Events1Resumes == Typed /\ Events1 /\ johnny_resumes => Events1'
<1> SUFFICES ASSUME Typed, Events1, johnny_resumes PROVE Events1'
  OBVIOUS
<1>1. PICK c \in Conns :
        /\ pc = "event" /\ InHand(c) /\ c = Current /\ backlog' = backlog
        /\ \/ /\ ClosesConnection(c) /\ TakesNextEvent /\ sock[c].rst # "no"
              /\ UNCHANGED <<recv_more, ctx>>
           \/ /\ HandlesOn(c)
              /\ \E x : /\ NotedIs(c, x)
                        /\ \/ Resuming /\ \E n \in 0 .. x.response_length : SendsUnits(c, x, n)
                           \/ ~Resuming /\ Notes(c, x)
  BY ResumesIs
<1>2. CASE ClosesConnection(c) /\ TakesNextEvent
  BY <1>1, <1>2, Events1Closes
<1>3. ASSUME HandlesOn(c), NEW x,
             (\E n \in 0 .. x.response_length : SendsUnits(c, x, n)) \/ Notes(c, x)
      PROVE  Events1'
  <2>1. ready' = ready /\ \A d \in Conns : sock'[d].phase = sock[d].phase
    BY <1>3 DEF SendsUnits, Notes
  <2>2. batch' = batch \/ (batch # <<>> /\ TakesNextEvent)
    BY <1>1, <1>3 DEF HandlesOn, InHand
  <2> QED BY <1>1, <2>1, <2>2, Events1AsBefore
<1> QED BY <1>1, <1>2, <1>3

LEMMA Events1Receives == Typed /\ Events1 /\ johnny_receives => Events1'
<1> SUFFICES ASSUME Typed, Events1, johnny_receives PROVE Events1'
  OBVIOUS
<1>1. PICK c \in Conns :
        /\ pc = "recv" /\ InHand(c) /\ c = Current /\ backlog' = backlog
        /\ \/ /\ ClosesConnection(c) /\ TakesNextEvent /\ AtTheEnd(c)
              /\ UNCHANGED <<recv_more, ctx>>
           \/ \E n \in 0 .. sock[c].inq : Reads(c, n)
  BY ReceivesIs
<1>2. CASE ClosesConnection(c) /\ TakesNextEvent
  BY <1>1, <1>2, Events1Closes
<1>3. CASE \E n \in 0 .. sock[c].inq : Reads(c, n)
  <2>1. /\ ready' = ready /\ batch' = batch
        /\ \A d \in Conns : sock'[d].phase = sock[d].phase
    BY <1>3 DEF Reads
  <2> QED BY <1>1, <2>1, Events1AsBefore
<1> QED BY <1>1, <1>2, <1>3

LEMMA Events1SendsResponse == Typed /\ Events1 /\ johnny_sends_response => Events1'
<1> SUFFICES ASSUME Typed, Events1, johnny_sends_response PROVE Events1'
  OBVIOUS
<1>1. PICK c \in Conns :
        /\ pc = "serve" /\ InHand(c) /\ c = Current
        /\ UNCHANGED <<backlog, recv_more>> /\ ctx[c].buffer # <<>>
        /\ \/ /\ ClosesConnection(c) /\ TakesNextEvent /\ sock[c].rst # "no"
              /\ ctx' = ctx
           \/ \E x : /\ NextIs(c, x) /\ UNCHANGED <<pc, batch>>
                     /\ \E n \in 0 .. x.response_length : SendsUnits(c, x, n)
  BY SendsResponseIs
<1>2. CASE ClosesConnection(c) /\ TakesNextEvent
  BY <1>1, <1>2, Events1Closes
<1>3. ASSUME NEW x, NEW n \in 0 .. x.response_length, SendsUnits(c, x, n), batch' = batch
      PROVE  Events1'
  <2>1. ready' = ready /\ \A d \in Conns : sock'[d].phase = sock[d].phase
    BY <1>3 DEF SendsUnits
  <2> QED BY <1>1, <1>3, <2>1, Events1AsBefore
<1> QED BY <1>1, <1>2, <1>3

LEMMA Events1Drained == Typed /\ Events1 /\ johnny_drained => Events1'
BY DrainedIs, Events1AsBefore DEF InHand

LEMMA Events1Unchanged == Typed /\ Events1 /\ UNCHANGED vars => Events1'
BY Events1AsBefore DEF vars

LEMMA Events1Next == Typed /\ Events1 /\ [Next]_vars => Events1'
BY Events1Client, Events1Epoll, Events1Accepts, Events1Resumes, Events1Receives,
   Events1SendsResponse, Events1Drained, Events1Unchanged DEF Next, johnny_works

(***************************************************************************)
(* The worker never touches a context it has freed: whatever connections   *)
(* clients open, end and reset while events are in hand, every event in    *)
(* the batch and every item epoll lists is of an open connection, and of   *)
(* no connection are there two events in a batch.                          *)
(***************************************************************************)
THEOREM NoEventOfAFreedContext == Spec => []EventsAreOfOpenConnections
<1>1. Typed /\ Events1 => EventsAreOfOpenConnections
  <2> SUFFICES ASSUME Typed, Events1 PROVE EventsAreOfOpenConnections
    OBVIOUS
  <2>1. batch \in Seq(EventOf) /\ DOMAIN batch = 1 .. Len(batch)
    BY DEF Typed, TypeOK, EventOf
  <2>2. ASSUME NEW x \in Watched PROVE Cardinality(Pending(x)) <= 1
    <3>1. \A i, j \in Pending(x) : i = j
      BY <2>1 DEF Pending, Events1, BatchIsWatched
    <3>2. CASE Pending(x) = {}
      BY <3>2, FS_EmptySet
    <3>3. CASE Pending(x) # {}
      <4>1. PICK i \in Pending(x) : TRUE
        BY <3>3
      <4>2. Pending(x) = {i}
        BY <3>1, <4>1
      <4>3. Cardinality({i}) = 1
        BY FS_Singleton
      <4> QED BY <4>2, <4>3
    <3> QED BY <3>2, <3>3
  <2>3. pc \in {"recv", "serve"} => batch # <<>> /\ Current # Listener
    BY WorkerAssumption DEF Typed, Position
  <2> QED BY <2>1, <2>2, <2>3 DEF EventsAreOfOpenConnections, Events1, ReadyIsWatched, BatchIsWatched
<1>2. Init => Typed /\ Events1
  BY TypedInit, Events1Init
<1>3. (Typed /\ Events1) /\ [Next]_vars => (Typed /\ Events1)'
  BY TypedNext, Events1Next
<1> QED BY <1>1, <1>2, <1>3, PTL DEF Spec

---------------------------------------------------------------------------
(* With an edge-triggered epoll no edge is lost, neither of a request to   *)
(* be read nor of space for the rest of a response, and no request is left *)
(* in a receive buffer.                                                    *)

\* Requests in a receive buffer are those of the connection being served.
BufferIsServed ==
  \A c \in Open : ctx[c].buffer # <<>> => pc = "serve" /\ c = batch[1].item

UnreadScheduled(c) ==
  sock[c].inq > 0 =>
    \/ c \in Range(ready)
    \/ \E i \in Pending(c) :
         \/ i > 1 /\ "IN" \in batch[i].mask
         \/ i = 1 /\ \/ pc = "event" /\ "IN" \in batch[i].mask
                     \/ pc = "recv"
                     \/ pc = "serve" /\ recv_more

UnsentScheduled(c) ==
  ctx[c].response_length > 0 =>
    \/ sock[c].nospace
    \/ c \in Range(ready)
    \/ \E i \in Pending(c) : "OUT" \in batch[i].mask /\ (i = 1 => pc = "event")

Scheduled(c) == UnreadScheduled(c) /\ UnsentScheduled(c)

Wakeups == BufferIsServed /\ \A c \in Open : Scheduled(c)

---------------------------------------------------------------------------
(* The events of the item in hand, and of the others. *)

LEMMA AloneInHand ==
  ASSUME Typed, Events1, NEW c, InHand(c)
  PROVE  /\ 1 \in Pending(c) /\ \A i \in Pending(c) : i = 1
         /\ c = batch[1].item /\ batch[1] = Head(batch)
<1>1. batch \in Seq(EventOf) /\ batch # <<>> /\ c = batch[1].item
  BY DEF Typed, TypeOK, EventOf, InHand
<1>2. 1 \in DOMAIN batch /\ DOMAIN batch = 1 .. Len(batch) /\ batch[1] = Head(batch)
  BY <1>1
<1>3. \A i \in 1 .. Len(batch) : batch[i].item = batch[1].item => i = 1
  BY <1>2 DEF Events1, BatchIsWatched
<1> QED BY <1>1, <1>2, <1>3 DEF Pending

\* What is not in hand keeps its event, as the next one perhaps.
LEMMA OthersWait ==
  ASSUME Typed, NEW d, batch # <<>>, d # batch[1].item, batch' = batch \/ TakesNextEvent
  PROVE  \A i \in Pending(d) :
           /\ i > 1
           /\ \E j \in Pending(d)' : /\ batch'[j] = batch[i]
                                     /\ j = 1 => pc' = "event"
                                     /\ j = 1 \/ j > 1
<1> SUFFICES ASSUME NEW i \in Pending(d)
             PROVE  /\ i > 1
                    /\ \E j \in Pending(d)' : /\ batch'[j] = batch[i]
                                              /\ j = 1 => pc' = "event"
                                              /\ j = 1 \/ j > 1
  OBVIOUS
<1>1. batch \in Seq(EventOf) /\ Len(batch) \in Nat
  BY DEF Typed, TypeOK, EventOf
<1>2. i \in 1 .. Len(batch) /\ batch[i].item = d /\ i # 1
  BY <1>1 DEF Pending
<1>3. i > 1
  BY <1>1, <1>2
<1>4. CASE batch' = batch
  BY <1>1, <1>2, <1>3, <1>4 DEF Pending
<1>5. CASE TakesNextEvent
  <2>1. batch' \in Seq(EventOf) /\ Len(batch') = Len(batch) - 1
    BY <1>5 DEF TakesNextEvent
  <2>2. i - 1 \in 1 .. Len(batch') /\ (i - 1) + 1 = i
    BY <1>1, <1>2, <1>3, <2>1
  <2>3. batch'[i - 1] = batch[i] /\ batch' # <<>>
    <3>1. batch'[i - 1] = batch[(i - 1) + 1]
      BY <1>5, <2>2 DEF TakesNextEvent
    <3> QED BY <2>1, <2>2, <3>1
  <2>4. pc' = "event"
    BY <1>5, <2>3 DEF TakesNextEvent
  <2>5. i - 1 \in Pending(d)'
    BY <1>2, <2>1, <2>2, <2>3 DEF Pending
  <2>6. i - 1 = 1 \/ i - 1 > 1
    BY <1>1, <1>2, <1>3
  <2> QED BY <1>3, <2>3, <2>4, <2>5, <2>6
<1> QED BY <1>4, <1>5

LEMMA OthersScheduled ==
  ASSUME Typed, NEW d \in Conns, batch # <<>>, d # batch[1].item,
         batch' = batch \/ TakesNextEvent,
         Scheduled(d), sock'[d] = sock[d], ctx'[d] = ctx[d],
         d \in Range(ready) => d \in Range(ready')
  PROVE  Scheduled(d)'
<1>1. \A i \in Pending(d) :
        /\ i > 1
        /\ \E j \in Pending(d)' : /\ batch'[j] = batch[i]
                                  /\ j = 1 => pc' = "event"
                                  /\ j = 1 \/ j > 1
  BY OthersWait
<1>2. UnreadScheduled(d)'
  <2> SUFFICES ASSUME sock'[d].inq > 0, d \notin Range(ready'), UnreadScheduled(d)
               PROVE  UnreadScheduled(d)'
    BY DEF Scheduled, UnreadScheduled
  <2>1. PICK i \in Pending(d) : (i > 1 /\ "IN" \in batch[i].mask) \/ i = 1
    BY DEF UnreadScheduled
  <2>2. i > 1 /\ i # 1 /\ "IN" \in batch[i].mask
    BY <1>1, <2>1
  <2> QED BY <1>1, <2>2 DEF UnreadScheduled
<1>3. UnsentScheduled(d)'
  <2> SUFFICES ASSUME ctx'[d].response_length > 0, d \notin Range(ready'), ~sock'[d].nospace,
                      UnsentScheduled(d)
               PROVE  UnsentScheduled(d)'
    BY Zenon DEF Scheduled, UnsentScheduled
  <2>1. PICK i \in Pending(d) : "OUT" \in batch[i].mask
    BY Zenon DEF UnsentScheduled
  <2> QED BY <1>1, <2>1, Zenon DEF UnsentScheduled
<1> QED BY <1>2, <1>3 DEF Scheduled

\* The buffers of the connections that are not in hand.
LEMMA OthersAreEmpty ==
  ASSUME Wakeups, NEW d \in Open, d # batch[1].item
  PROVE  ctx[d].buffer = <<>>
BY DEF Wakeups, BufferIsServed

---------------------------------------------------------------------------

LEMMA WakeupsInit == Init => Wakeups
<1> SUFFICES ASSUME Init PROVE Wakeups
  OBVIOUS
<1>1. \A c \in Conns : sock[c].phase = "idle"
  BY DEF Init
<1> QED BY <1>1 DEF Wakeups, BufferIsServed, Open

LEMMA WakeupsClient ==
  ASSUME Typed, Wakeups, NEW c \in Conns, Client(c)
  PROVE  Wakeups'
<1>1. ClientSteps(c) /\ TypeOK
  BY ClientIs DEF Typed
<1>2. Open' = Open
  BY <1>1 DEF ClientSteps, Open
<1>3. BufferIsServed'
  BY <1>1, <1>2 DEF ClientSteps, Wakeups, BufferIsServed
<1>4. ASSUME NEW d \in Open PROVE Scheduled(d)'
  <2>1. UnreadScheduled(d) /\ UnsentScheduled(d) /\ d \in Conns
    BY <1>4 DEF Wakeups, Scheduled, Open
  <2>2. /\ pc' = pc /\ batch' = batch /\ recv_more' = recv_more /\ ctx' = ctx
        /\ d \in Range(ready) => d \in Range(ready') /\ Pending(d)' = Pending(d)
    BY <1>1 DEF ClientSteps, Pending
  <2>3. UnreadScheduled(d)'
    <3>1. sock'[d].inq > 0 => sock[d].inq > 0 \/ d \in Range(ready')
      <4>1. CASE d # c
        BY <1>1, <2>1, <4>1 DEF ClientSteps
      <4>2. CASE d = c
        <5>1. sock[c].inq \in Nat /\ sock'[c].inq \in Nat
          <6>1. sock[c] \in Socket /\ sock'[c] \in Socket
            BY <1>1 DEF ClientSteps, TypeOK
          <6> QED BY <6>1, SocketNumbers
        <5> QED BY <1>1, <4>2, <5>1 DEF ClientSteps
      <4> QED BY <4>1, <4>2
    <3> QED BY <2>1, <2>2, <3>1, Zenon DEF UnreadScheduled, Pending
  <2>4. UnsentScheduled(d)'
    <3>1. sock[d].nospace => sock'[d].nospace \/ d \in Range(ready')
      <4>1. CASE d # c
        BY <1>1, <2>1, <4>1, Zenon DEF ClientSteps
      <4>2. CASE d = c
        BY <1>1, <1>4, <4>2, Zenon DEF ClientSteps
      <4> QED BY <4>1, <4>2
    <3> QED BY <2>1, <2>2, <3>1, Zenon DEF UnsentScheduled, Pending
  <2> QED BY <2>3, <2>4 DEF Scheduled
<1> QED BY <1>2, <1>3, <1>4 DEF Wakeups

LEMMA WakeupsEpoll == Typed /\ Wakeups /\ epoll_wait => Wakeups'
<1> SUFFICES ASSUME Typed, Wakeups, epoll_wait PROVE Wakeups'
  OBVIOUS
<1>1. PICK k \in 1 .. Len(ready) : Polls(k)
  BY EpollIs DEF Typed
<1>2. pc = "wait" /\ batch = <<>> /\ ctx' = ctx
  BY DEF epoll_wait, Typed, Position
<1>3. Open' = Open
  BY <1>1, PhasesKept DEF Polls
<1>4. BufferIsServed'
  BY <1>2, <1>3 DEF Wakeups, BufferIsServed
<1>5. /\ ready \in Seq(Conns \cup {Listener}) /\ Len(ready) \in Nat
      /\ ready' \in Seq(Conns \cup {Listener}) /\ Len(ready') = Len(ready) - k
      /\ \A i \in 1 .. Len(ready') : ready'[i] = ready[k + i]
  BY <1>1 DEF Polls, Typed, TypeOK
\* A listed connection is polled, or listed still.
<1>6. ASSUME NEW d \in Open, d \in Range(ready), d \notin Range(ready')
      PROVE  \E j \in 1 .. k : ready[j] = d
  <2>1. PICK j \in 1 .. Len(ready) : ready[j] = d
    BY <1>5, <1>6, RangeOf
  <2>2. CASE j > k
    <3>1. j - k \in 1 .. Len(ready') /\ k + (j - k) = j
      BY <1>5, <2>2
    <3>2. ready'[j - k] = d
      BY <1>5, <2>1, <3>1
    <3> QED BY <1>5, <1>6, <3>1, <3>2, RangeOf
  <2> QED BY <1>5, <2>1, <2>2
\* A polled connection with something to report has its event in the batch.
<1>7. ASSUME NEW d \in Open, NEW j \in 1 .. k, ready[j] = d, NEW e \in Mask(d)
      PROVE  \E i \in Pending(d)' : /\ e \in batch'[i].mask /\ pc' = "event"
                                    /\ i = 1 \/ i > 1
  <2>1. PICK i \in 1 .. Len(batch') : batch'[i].item = d /\ batch'[i].mask = Mask(d)
    BY <1>1, <1>7 DEF Polls, Pollable
  <2>2. batch' \in Seq(EventOf) /\ batch' # <<>>
    BY <1>1, <2>1 DEF Polls
  <2>3. pc' = "event" /\ (i = 1 \/ i > 1)
    BY <1>1, <2>2 DEF Polls
  <2> QED BY <2>1, <2>2, <2>3 DEF Pending
<1>8. ASSUME NEW d \in Open PROVE Scheduled(d)'
  <2>1. /\ UnreadScheduled(d) /\ UnsentScheduled(d) /\ d \in Conns /\ Pending(d) = {}
        /\ d # Listener /\ sock[d] \in Socket
    BY <1>2, <1>8, WorkerAssumption DEF Wakeups, Scheduled, Open, Pending, Typed, TypeOK
  <2>2. UnreadScheduled(d)'
    <3> SUFFICES ASSUME sock[d].inq > 0, d \notin Range(ready') PROVE UnreadScheduled(d)'
      BY <1>1, <2>1 DEF UnreadScheduled, Polls, SameButPhase
    <3>1. PICK j \in 1 .. k : ready[j] = d
      BY <1>6, <2>1 DEF UnreadScheduled
    <3>2. "IN" \in Mask(d)
      BY <2>1 DEF Mask
    <3> QED BY <1>7, <3>1, <3>2 DEF UnreadScheduled
  <2>3. UnsentScheduled(d)'
    <3> SUFFICES ASSUME ctx[d].response_length > 0, d \notin Range(ready'), ~sock'[d].nospace
                 PROVE  UnsentScheduled(d)'
      BY <1>2, Zenon DEF UnsentScheduled
    <3>1. ~sock[d].nospace
      BY <1>1, <2>1, Zenon DEF Polls
    <3>2. d \in Range(ready)
      BY <2>1, <3>1, Zenon DEF UnsentScheduled
    <3>3. PICK j \in 1 .. k : ready[j] = d
      BY <1>6, <3>2
    <3>4. ~(Space(d) <= 0)
      BY <1>1, <2>1, <3>3, Zenon DEF Polls
    <3>5. Space(d) > 0
      <4>1. Space(d) \in Int
        BY <2>1, SocketNumbers, WorkerAssumption DEF Space
      <4> QED BY <3>4, <4>1
    <3>6. "OUT" \in Mask(d)
      BY <2>1, <3>5 DEF Mask
    <3> QED BY <1>7, <3>3, <3>6, Zenon DEF UnsentScheduled
  <2> QED BY <2>2, <2>3 DEF Scheduled
<1> QED BY <1>3, <1>4, <1>8 DEF Wakeups

LEMMA WakeupsAccepts == Typed /\ Events1 /\ Wakeups /\ johnny_accepts => Wakeups'
<1> SUFFICES ASSUME Typed, Events1, Wakeups, johnny_accepts PROVE Wakeups'
  OBVIOUS
<1>1. /\ pc = "event" /\ batch # <<>> /\ Current = Listener
      /\ TakesNextEvent /\ recv_more' = recv_more
  BY AcceptsIs
<1>2. \A d \in Open : d \in Conns /\ ctx[d].buffer = <<>> /\ Scheduled(d)
  BY <1>1 DEF Wakeups, BufferIsServed, Open
<1>3. batch[1].item = Listener
  <2>1. batch \in Seq(EventOf)
    BY DEF Typed, TypeOK, EventOf
  <2> QED BY <1>1, <2>1 DEF Current
<1>4. CASE UNCHANGED <<kernel, ctx>>
  <2>1. Open' = Open /\ ctx' = ctx /\ sock' = sock /\ ready' = ready
    BY <1>4 DEF kernel, Open
  <2>2. \A d \in Open : Scheduled(d)'
    BY <1>1, <1>2, <1>3, <2>1, OthersScheduled, WorkerAssumption
  <2> QED BY <1>2, <2>1, <2>2 DEF Wakeups, BufferIsServed
<1>5. ASSUME NEW c \in Conns, Accepts(c) PROVE Wakeups'
  <2>1. Open' = Open \cup {c}
    BY <1>5 DEF Accepts, Open
  <2>2. /\ c \in Range(ready') /\ ctx'[c] = FreshContext
        /\ \A d \in Conns \ {c} : ctx'[d] = ctx[d] /\ sock'[d] = sock[d]
        /\ Range(ready) \subseteq Range(ready')
    BY <1>5 DEF Accepts, Typed, TypeOK
  <2>3. Scheduled(c)'
    BY <2>2 DEF Scheduled, UnreadScheduled, UnsentScheduled
  <2>4. \A d \in Open \ {c} : Scheduled(d)'
    BY <1>1, <1>2, <1>3, <2>2, OthersScheduled, WorkerAssumption
  <2>5. \A d \in Open' : ctx'[d].buffer = <<>>
    BY <1>2, <2>1, <2>2 DEF FreshContext
  <2> QED BY <2>1, <2>3, <2>4, <2>5 DEF Wakeups, BufferIsServed
<1> QED BY <1>4, <1>5, AcceptsIs

\* The connection in hand is closed, and the others wait as before.
LEMMA WakeupsCloses ==
  ASSUME Typed, Events1, Wakeups, NEW c \in Conns, InHand(c),
         ClosesConnection(c), TakesNextEvent, ctx' = ctx
  PROVE  Wakeups'
<1>1. batch # <<>> /\ c = batch[1].item
  BY DEF InHand
<1>2. Open' = Open \ {c}
  BY DEF ClosesConnection, Open
<1>3. \A d \in Open' : /\ d \in Open /\ d \in Conns /\ d # batch[1].item
                       /\ sock'[d] = sock[d] /\ ctx'[d] = ctx[d]
                       /\ d \in Range(ready) => d \in Range(ready')
  BY <1>1, <1>2 DEF Open, ClosesConnection
<1>4. \A d \in Open' : Scheduled(d)'
  BY <1>1, <1>3, OthersScheduled DEF Wakeups
<1> QED BY <1>3, <1>4, OthersAreEmpty DEF Wakeups, BufferIsServed

\* A step that handles the connection c in hand and leaves the others alone.
LEMMA WakeupsInHand ==
  ASSUME Typed, Events1, Wakeups, NEW c \in Conns, InHand(c),
         batch' = batch \/ TakesNextEvent, ready' = ready,
         sock'[c].phase = sock[c].phase,
         \A d \in Conns \ {c} : sock'[d] = sock[d] /\ ctx'[d] = ctx[d],
         ctx'[c].buffer # <<>> => pc' = "serve" /\ batch' = batch,
         Scheduled(c)'
  PROVE  Wakeups'
<1>1. batch # <<>> /\ c = batch[1].item
  BY DEF InHand
<1>2. Open' = Open
  BY DEF Open
<1>3. \A d \in Open \ {c} : Scheduled(d)'
  BY <1>1, OthersScheduled DEF Wakeups, Open
<1>4. BufferIsServed'
  BY <1>1, <1>2, OthersAreEmpty DEF BufferIsServed, Open
<1> QED BY <1>2, <1>3, <1>4 DEF Wakeups

LEMMA WakeupsResumes == Typed /\ Events1 /\ Wakeups /\ johnny_resumes => Wakeups'
<1> SUFFICES ASSUME Typed, Events1, Wakeups, johnny_resumes PROVE Wakeups'
  OBVIOUS
<1>1. PICK c \in Conns :
        /\ pc = "event" /\ InHand(c) /\ c = Current /\ backlog' = backlog
        /\ \/ /\ ClosesConnection(c) /\ TakesNextEvent /\ sock[c].rst # "no"
              /\ UNCHANGED <<recv_more, ctx>>
           \/ /\ HandlesOn(c)
              /\ \E x : /\ NotedIs(c, x)
                        /\ \/ Resuming /\ \E n \in 0 .. x.response_length : SendsUnits(c, x, n)
                           \/ ~Resuming /\ Notes(c, x)
  BY ResumesIs
<1>2. CASE ClosesConnection(c) /\ TakesNextEvent /\ ctx' = ctx
  BY <1>1, <1>2, WakeupsCloses
<1>3. ASSUME HandlesOn(c), NEW x, NotedIs(c, x),
             \/ Resuming /\ \E n \in 0 .. x.response_length : SendsUnits(c, x, n)
             \/ ~Resuming /\ Notes(c, x)
      PROVE  Wakeups'
  <2>1. c \in Open /\ Scheduled(c) /\ ctx[c].buffer = <<>>
    BY <1>1, InHandIsOpen DEF Events1, Wakeups, BufferIsServed
  <2>2. /\ 1 \in Pending(c) /\ \A i \in Pending(c) : i = 1
        /\ c = batch[1].item /\ batch[1] = Head(batch)
    BY <1>1, AloneInHand
  <2>3. /\ ready' = ready /\ sock'[c].phase = sock[c].phase /\ sock'[c].inq = sock[c].inq
        /\ \A d \in Conns \ {c} : sock'[d] = sock[d] /\ ctx'[d] = ctx[d]
        /\ ctx'[c].buffer = <<>>
    BY <1>3, <2>1 DEF SendsUnits, Notes, NotedIs
  <2>4. batch' = batch \/ TakesNextEvent
    BY <1>3 DEF HandlesOn
  <2>5. UnreadScheduled(c)'
    <3> SUFFICES ASSUME sock[c].inq > 0, c \notin Range(ready) PROVE UnreadScheduled(c)'
      BY <2>3 DEF UnreadScheduled
    <3>1. "IN" \in Head(batch).mask
      BY <1>1, <2>1, <2>2 DEF Scheduled, UnreadScheduled
    <3>2. Receiving
      BY <1>1, <2>1, <3>1 DEF Receiving
    <3>3. pc' = "recv" /\ batch' = batch
      BY <1>3, <3>2 DEF HandlesOn
    <3>4. 1 \in Pending(c)'
      BY <2>2, <3>3 DEF Pending
    <3> QED BY <3>3, <3>4 DEF UnreadScheduled
  <2>6. UnsentScheduled(c)'
    <3>1. CASE Resuming /\ \E n \in 0 .. x.response_length : SendsUnits(c, x, n)
      <4>1. PICK n \in 0 .. x.response_length : SendsUnits(c, x, n)
        BY <3>1
      <4>2. x.response_length \in Nat
        BY <1>3, WorkerAssumption DEF NotedIs, Context
      <4>3. ctx'[c].response_length > 0 => n < x.response_length
        BY <4>1, <4>2 DEF SendsUnits
      <4> QED BY <4>1, <4>3, Zenon DEF UnsentScheduled, SendsUnits
    <3>2. CASE ~Resuming /\ Notes(c, x)
      <4>1. ctx'[c].response_length = ctx[c].response_length /\ sock' = sock /\ ready' = ready
        BY <1>3, <3>2 DEF Notes, NotedIs
      <4>2. ASSUME ctx[c].response_length > 0 PROVE "OUT" \notin Head(batch).mask
        BY <1>1, <3>2, <4>2 DEF Resuming
      <4>3. ctx[c].response_length > 0 => sock[c].nospace \/ c \in Range(ready)
        BY <1>1, <2>1, <2>2, <4>2, Zenon DEF Scheduled, UnsentScheduled
      <4> QED BY <4>1, <4>3, Zenon DEF UnsentScheduled
    <3> QED BY <1>3, <3>1, <3>2
  <2> QED BY <1>1, <2>3, <2>4, <2>5, <2>6, WakeupsInHand DEF Scheduled
<1> QED BY <1>1, <1>2, <1>3

LEMMA WakeupsReceives == Typed /\ Events1 /\ Wakeups /\ johnny_receives => Wakeups'
<1> SUFFICES ASSUME Typed, Events1, Wakeups, johnny_receives PROVE Wakeups'
  OBVIOUS
<1>1. PICK c \in Conns :
        /\ pc = "recv" /\ InHand(c) /\ c = Current /\ backlog' = backlog
        /\ \/ /\ ClosesConnection(c) /\ TakesNextEvent /\ AtTheEnd(c)
              /\ UNCHANGED <<recv_more, ctx>>
           \/ \E n \in 0 .. sock[c].inq : Reads(c, n)
  BY ReceivesIs
<1>2. CASE ClosesConnection(c) /\ TakesNextEvent /\ ctx' = ctx
  BY <1>1, <1>2, WakeupsCloses
<1>3. ASSUME NEW n \in 0 .. sock[c].inq, Reads(c, n) PROVE Wakeups'
  <2>1. c \in Open /\ Scheduled(c)
    BY <1>1, InHandIsOpen DEF Events1, Wakeups
  <2>2. /\ 1 \in Pending(c) /\ \A i \in Pending(c) : i = 1
    BY <1>1, AloneInHand
  <2>3. /\ ready' = ready /\ batch' = batch /\ pc' = "serve" /\ Pending(c)' = Pending(c)
        /\ sock'[c].phase = sock[c].phase
        /\ \A d \in Conns \ {c} : sock'[d] = sock[d] /\ ctx'[d] = ctx[d]
    BY <1>3 DEF Reads, Pending
  <2>4. UnreadScheduled(c)'
    <3>1. sock'[c].inq > 0 => recv_more'
      <4>1. ~(0 > 0)
        OBVIOUS
      <4> QED BY <1>3, <4>1, Zenon DEF Reads
    <3> QED BY <2>2, <2>3, <3>1, Zenon DEF UnreadScheduled
  <2>5. UnsentScheduled(c)'
    <3>1. sock'[c].nospace = sock[c].nospace /\ ctx'[c].response_length = ctx[c].response_length
      BY <1>3 DEF Reads
    <3>2. ctx[c].response_length > 0 => sock[c].nospace \/ c \in Range(ready)
      BY <1>1, <2>1, <2>2, Zenon DEF Scheduled, UnsentScheduled
    <3> QED BY <2>3, <3>1, <3>2, Zenon DEF UnsentScheduled
  <2> QED BY <1>1, <2>3, <2>4, <2>5, WakeupsInHand DEF Scheduled
<1> QED BY <1>1, <1>2, <1>3

LEMMA WakeupsSendsResponse == Typed /\ Events1 /\ Wakeups /\ johnny_sends_response => Wakeups'
<1> SUFFICES ASSUME Typed, Events1, Wakeups, johnny_sends_response PROVE Wakeups'
  OBVIOUS
<1>1. PICK c \in Conns :
        /\ pc = "serve" /\ InHand(c) /\ c = Current
        /\ UNCHANGED <<backlog, recv_more>> /\ ctx[c].buffer # <<>>
        /\ \/ /\ ClosesConnection(c) /\ TakesNextEvent /\ sock[c].rst # "no"
              /\ ctx' = ctx
           \/ \E x : /\ NextIs(c, x) /\ UNCHANGED <<pc, batch>>
                     /\ \E n \in 0 .. x.response_length : SendsUnits(c, x, n)
  BY SendsResponseIs
<1>2. CASE ClosesConnection(c) /\ TakesNextEvent /\ ctx' = ctx
  BY <1>1, <1>2, WakeupsCloses
<1>3. ASSUME NEW x, NextIs(c, x), UNCHANGED <<pc, batch>>,
             NEW n \in 0 .. x.response_length, SendsUnits(c, x, n)
      PROVE  Wakeups'
  <2>1. c \in Open /\ Scheduled(c)
    BY <1>1, InHandIsOpen DEF Events1, Wakeups
  <2>2. /\ ready' = ready /\ sock'[c].phase = sock[c].phase /\ sock'[c].inq = sock[c].inq
        /\ Pending(c)' = Pending(c)
        /\ \A d \in Conns \ {c} : sock'[d] = sock[d] /\ ctx'[d] = ctx[d]
    BY <1>3 DEF SendsUnits, Pending
  <2>3. UnreadScheduled(c)'
    BY <1>1, <1>3, <2>1, <2>2, Zenon DEF Scheduled, UnreadScheduled
  <2>4. UnsentScheduled(c)'
    <3>1. x.response_length \in Nat
      BY <1>3, WorkerAssumption DEF NextIs, Context
    <3>2. ctx'[c].response_length > 0 => n < x.response_length
      BY <1>3, <3>1 DEF SendsUnits
    <3> QED BY <1>3, <3>2, Zenon DEF UnsentScheduled, SendsUnits
  <2> QED BY <1>1, <1>3, <2>2, <2>3, <2>4, WakeupsInHand DEF Scheduled
<1> QED BY <1>1, <1>2, <1>3

LEMMA WakeupsDrained == Typed /\ Events1 /\ Wakeups /\ johnny_drained => Wakeups'
<1> SUFFICES ASSUME Typed, Events1, Wakeups, johnny_drained PROVE Wakeups'
  OBVIOUS
<1>1. PICK c \in Conns :
        /\ pc = "serve" /\ InHand(c) /\ c = Current
        /\ UNCHANGED <<sock, ready, backlog, recv_more, ctx>> /\ ctx[c].buffer = <<>>
        /\ IF recv_more THEN pc' = "recv" /\ batch' = batch ELSE TakesNextEvent
  BY DrainedIs
<1>2. c \in Open /\ UnreadScheduled(c) /\ UnsentScheduled(c)
  BY <1>1, InHandIsOpen DEF Events1, Wakeups, Scheduled
<1>3. 1 \in Pending(c) /\ \A i \in Pending(c) : i = 1
  BY <1>1, AloneInHand
<1>4. UnreadScheduled(c)'
  <2>1. CASE recv_more
    <3>1. pc' = "recv" /\ 1 \in Pending(c)'
      BY <1>1, <1>3, <2>1 DEF Pending
    <3> QED BY <3>1 DEF UnreadScheduled
  <2>2. CASE ~recv_more
    <3>1. sock[c].inq > 0 => c \in Range(ready)
      BY <1>1, <1>2, <1>3, <2>2 DEF UnreadScheduled
    <3> QED BY <1>1, <3>1 DEF UnreadScheduled
  <2> QED BY <2>1, <2>2
<1>5. UnsentScheduled(c)'
  <2>1. ctx[c].response_length > 0 => sock[c].nospace \/ c \in Range(ready)
    BY <1>1, <1>2, <1>3, Zenon DEF UnsentScheduled
  <2> QED BY <1>1, <2>1, Zenon DEF UnsentScheduled
<1> QED BY <1>1, <1>4, <1>5, WakeupsInHand DEF Scheduled

LEMMA WakeupsUnchanged == Typed /\ Wakeups /\ UNCHANGED vars => Wakeups'
BY DEF vars, Wakeups, BufferIsServed, Scheduled, UnreadScheduled, UnsentScheduled, Open, Pending

\* What is invariant of the worker, its connections' events and their edges.
Schedule == Typed /\ Events1 /\ Wakeups

LEMMA ScheduleInit == Init => Schedule
BY TypedInit, Events1Init, WakeupsInit DEF Schedule

LEMMA ScheduleNext == Schedule /\ [Next]_vars => Schedule'
BY TypedNext, Events1Next, WakeupsClient, WakeupsEpoll, WakeupsAccepts, WakeupsResumes,
   WakeupsReceives, WakeupsSendsResponse, WakeupsDrained, WakeupsUnchanged
   DEF Schedule, Next, johnny_works

(***************************************************************************)
(* No edge is lost on the way in: epoll reports a connection once for data *)
(* that arrives, so a request that is neither listed by epoll, nor in the  *)
(* batch, nor ahead of the receive loop would never be read.  There is no  *)
(* such request, however reads are cut and whatever arrives meanwhile.     *)
(***************************************************************************)
THEOREM NoUnreadRequestIsForgotten == Spec => []UnreadIsScheduled
<1>1. Schedule => UnreadIsScheduled
  BY DEF Schedule, Wakeups, Scheduled, UnreadScheduled, UnreadIsScheduled
<1> QED BY <1>1, ScheduleInit, ScheduleNext, PTL DEF Spec

(***************************************************************************)
(* No edge is lost on the way out: while a response is not fully sent, the *)
(* kernel knows that the socket ran out of space, or the connection's      *)
(* EPOLLOUT is listed or in the batch.                                     *)
(***************************************************************************)
THEOREM NoUnsentResponseIsForgotten == Spec => []UnsentIsScheduled
<1>1. Schedule => UnsentIsScheduled
  BY DEF Schedule, Wakeups, Scheduled, UnsentScheduled, UnsentIsScheduled
<1> QED BY <1>1, ScheduleInit, ScheduleNext, PTL DEF Spec

(***************************************************************************)
(* The receive buffer of every connection is empty between two events, so  *)
(* the branch of johnny_works that resumes the handling of requests is     *)
(* dead code.                                                              *)
(***************************************************************************)
THEOREM NoRequestIsLeftInABuffer == Spec => []NothingToResume
<1>1. Schedule => NothingToResume
  BY DEF Schedule, Wakeups, BufferIsServed, NothingToResume
<1> QED BY <1>1, ScheduleInit, ScheduleNext, PTL DEF Spec

---------------------------------------------------------------------------
(* What clients are sent, and when they are hung up on, whatever they do;  *)
(* and that to clients who ask for a response and wait for all of it the   *)
(* worker is a FileService.                                                *)
---------------------------------------------------------------------------
(* Any client. *)


OrderedOut(c) ==
  \A i \in 1 .. Len(sock[c].out) :
    LET u == sock[c].out[i]
    IN  \/ u[2] = 1 /\ (i > 1 => sock[c].out[i - 1][1] < u[1])
        \/ i > 1 /\ sock[c].out[i - 1] = <<u[1], u[2] - 1>>

\* The context x of c says what follows the last unit that c was sent.
Follows(c, x) ==
  LET last == sock[c].out[Len(sock[c].out)]
  IN  /\ Len(sock[c].out) > 0 => last[1] <= x.response
      /\ Len(sock[c].out) > 0 /\ x.response_length = ResponseLen => last[1] < x.response
      /\ x.response_length < ResponseLen /\ x.response > 0 =>
           /\ Len(sock[c].out) > 0
           /\ last = <<x.response, ResponseLen - x.response_length>>

\* The requests to be answered are later ones that have been read, in their order.
Requested(c) ==
  LET buffer == ctx[c].buffer
      read   == sock[c].asked - sock[c].inq
  IN  /\ ctx[c].response <= read
      /\ \A i \in 1 .. Len(buffer) : ctx[c].response < buffer[i] /\ buffer[i] <= read
      /\ \A i, j \in 1 .. Len(buffer) : i < j => buffer[i] < buffer[j]

Answering(c) ==
  /\ OrderedOut(c)
  /\ c \in Open => Follows(c, ctx[c]) /\ Requested(c)
  /\ sock[c].phase \in {"idle", "backlog"} => sock[c].out = <<>>

Answers == \A c \in Conns : Answering(c)

---------------------------------------------------------------------------

LEMMA AnsweringKept ==
  ASSUME NEW c \in Conns, Answering(c),
         sock'[c].out = sock[c].out, ctx'[c] = ctx[c],
         sock'[c].asked - sock'[c].inq = sock[c].asked - sock[c].inq,
         \/ sock'[c].phase = sock[c].phase
         \/ sock'[c].phase = "closed"
         \/ sock[c].phase = "idle" /\ sock'[c].phase = "backlog"
  PROVE  Answering(c)'
BY DEF Answering, OrderedOut, Follows, Requested, Open

\* What is sent follows what was sent.
LEMMA AnsweringSent ==
  ASSUME Typed, NEW c \in Conns, NEW x \in Context, NEW n \in 0 .. x.response_length,
         SendsUnits(c, x, n), x.response_length > 0 => x.response > 0,
         OrderedOut(c), Follows(c, x)
  PROVE  OrderedOut(c)' /\ Follows(c, ctx[c])'
<1> DEFINE out == sock[c].out
           len == Len(sock[c].out)
           r == x.response
           left == x.response_length
<1>1. sock[c] \in Socket /\ out \in Seq(Units) /\ len \in Nat
  <2>1. sock[c] \in Socket
    BY DEF Typed, TypeOK
  <2> QED BY <2>1, SocketNumbers
<1>2. /\ r \in Nat /\ left \in Nat /\ left <= ResponseLen /\ ResponseLen \in Nat \ {0}
      /\ n \in Nat /\ n <= left
  BY WorkerAssumption DEF Context
<1>3. \A i \in 1 .. len : out[i][1] \in Nat /\ out[i][2] \in Nat
  <2>1. \A u \in Units : u[1] \in Nat /\ u[2] \in Nat
    BY WorkerAssumption DEF Units
  <2> QED BY <1>1, <2>1
<1>4. /\ Len(sock'[c].out) = len + n
      /\ \A i \in 1 .. len : sock'[c].out[i] = out[i]
      /\ \A i \in 1 .. n : sock'[c].out[len + i] = <<r, ResponseLen - left + i>>
      /\ ctx'[c].response = r /\ ctx'[c].response_length = left - n
  BY DEF SendsUnits
<1>5. /\ \A i \in 1 .. len : \/ out[i][2] = 1 /\ (i > 1 => out[i - 1][1] < out[i][1])
                             \/ i > 1 /\ out[i - 1] = <<out[i][1], out[i][2] - 1>>
      /\ len > 0 => out[len][1] <= r
      /\ len > 0 /\ left = ResponseLen => out[len][1] < r
      /\ left < ResponseLen /\ r > 0 => len > 0 /\ out[len] = <<r, ResponseLen - left>>
      /\ left > 0 => r > 0
  BY DEF OrderedOut, Follows
<1> DEFINE new == sock'[c].out
<1> HIDE DEF out, len, r, left, new
<1>6. ASSUME NEW i \in 1 .. len + n
      PROVE  \/ new[i][2] = 1 /\ (i > 1 => new[i - 1][1] < new[i][1])
             \/ i > 1 /\ new[i - 1] = <<new[i][1], new[i][2] - 1>>
  <2>1. CASE i <= len
    <3>1. i \in 1 .. len /\ (i > 1 => i - 1 \in 1 .. len)
      BY <1>1, <1>2, <2>1 DEF len
    <3>2. new[i] = out[i] /\ (i > 1 => new[i - 1] = out[i - 1])
      BY <1>4, <3>1 DEF new
    <3> QED BY <1>5, <3>1, <3>2
  <2>2. CASE i > len + 1
    <3>1. /\ i - len \in 1 .. n /\ len + (i - len) = i
          /\ i - len - 1 \in 1 .. n /\ len + (i - len - 1) = i - 1 /\ i > 1
      BY <1>1, <1>2, <2>2 DEF len
    <3>2. /\ new[i] = <<r, ResponseLen - left + (i - len)>>
          /\ new[i - 1] = <<r, ResponseLen - left + (i - len - 1)>>
      BY <1>4, <3>1 DEF new
    <3>3. ResponseLen - left + (i - len - 1) = ResponseLen - left + (i - len) - 1
      BY <1>1, <1>2 DEF len
    <3>4. new[i][1] = r /\ new[i][2] = ResponseLen - left + (i - len)
      BY <3>2
    <3>5. ResponseLen - left + (i - len - 1) = new[i][2] - 1
      BY <1>1, <1>2, <3>3, <3>4 DEF len
    <3>6. new[i - 1] = <<new[i][1], new[i][2] - 1>>
      BY <3>2, <3>4, <3>5, Zenon
    <3> QED BY <3>1, <3>6
  <2>3. CASE i = len + 1
    <3>1. 1 \in 1 .. n /\ left > 0 /\ i = len + 1
      BY <1>1, <1>2, <2>3 DEF len
    <3>2. new[i] = <<r, ResponseLen - left + 1>>
      BY <1>4, <3>1 DEF new
    <3>3. i > 1 => i - 1 = len /\ len \in 1 .. len /\ len > 0
      BY <1>1, <2>3 DEF len
    <3>4. i > 1 => new[i - 1] = out[len]
      BY <1>4, <3>3 DEF new
    <3>5. CASE left = ResponseLen
      BY <1>1, <1>2, <1>5, <3>2, <3>3, <3>4, <3>5
    <3>6. CASE left < ResponseLen
      <4>1. len > 0 /\ out[len] = <<r, ResponseLen - left>> /\ i > 1
        BY <1>1, <1>5, <2>3, <3>1, <3>6 DEF len
      <4>2. ResponseLen - left + 1 - 1 = ResponseLen - left
        BY <1>2
      <4>3. new[i][1] = r /\ new[i][2] = ResponseLen - left + 1
        BY <3>2
      <4>4. ResponseLen - left = new[i][2] - 1
        BY <1>2, <4>2, <4>3
      <4>5. new[i - 1] = <<new[i][1], new[i][2] - 1>>
        BY <3>4, <4>1, <4>3, <4>4, Zenon
      <4> QED BY <4>1, <4>5
    <3> QED BY <1>2, <3>5, <3>6
  <2> QED BY <1>1, <1>2, <2>1, <2>2, <2>3 DEF len
<1>7. OrderedOut(c)'
  BY <1>4, <1>6 DEF OrderedOut, new
<1>8. Follows(c, ctx[c])'
  <2>1. CASE n = 0
    <3>1. Len(new) = len /\ left - n = left /\ (len > 0 => new[len] = out[len])
      <4>1. left - 0 = left /\ len + 0 = len /\ (len > 0 => len \in 1 .. len)
        BY <1>1, <1>2 DEF len
      <4> QED BY <1>4, <2>1, <4>1 DEF new
    <3> QED BY <1>4, <1>5, <3>1 DEF Follows, new
  <2>2. CASE n > 0
    <3>1. n \in 1 .. n
      BY <1>2, <2>2
    <3>2. Len(new) = len + n /\ new[len + n] = <<r, ResponseLen - left + n>>
      BY <1>4, <3>1 DEF new
    <3>3. /\ ResponseLen - (left - n) = ResponseLen - left + n
          /\ len + n > 0 /\ left - n # ResponseLen
      BY <1>1, <1>2, <2>2 DEF len
    <3> QED BY <1>2, <1>4, <3>2, <3>3 DEF Follows, new
  <2> QED BY <1>2, <2>1, <2>2
<1> QED BY <1>7, <1>8

LEMMA AnswersInit == Init => Answers
<1> SUFFICES ASSUME Init, NEW c \in Conns PROVE Answering(c)
  BY DEF Answers
<1>1. sock[c].phase = "idle" /\ sock[c].out = <<>>
  BY DEF Init
<1> QED BY <1>1 DEF Answering, OrderedOut, Open

LEMMA AnswersClient ==
  ASSUME Typed, Answers, NEW c \in Conns, Client(c)
  PROVE  Answers'
<1>1. ClientSteps(c)
  BY ClientIs DEF Typed
<1>2. ASSUME NEW d \in Conns PROVE Answering(d)'
  <2>1. /\ sock'[d].out = sock[d].out /\ ctx'[d] = ctx[d]
        /\ sock'[d].asked - sock'[d].inq = sock[d].asked - sock[d].inq
        /\ \/ sock'[d].phase = sock[d].phase
           \/ sock[d].phase = "idle" /\ sock'[d].phase = "backlog"
    BY <1>1 DEF ClientSteps
  <2> QED BY <2>1, AnsweringKept DEF Answers
<1> QED BY <1>2 DEF Answers

\* A step that sends nothing and at most closes a connection.
LEMMA AnswersQuietly ==
  ASSUME Answers, ctx' = ctx,
         \A d \in Conns : \/ sock'[d] = sock[d]
                          \/ /\ SameButPhase(d)
                             /\ sock'[d].phase \in {sock[d].phase, "closed"}
  PROVE  Answers'
<1>1. ASSUME NEW d \in Conns PROVE Answering(d)'
  BY AnsweringKept DEF Answers, SameButPhase
<1> QED BY <1>1 DEF Answers

LEMMA AnswersCloses ==
  ASSUME Answers, NEW c \in Conns, ClosesConnection(c), ctx' = ctx
  PROVE  Answers'
BY AnswersQuietly DEF ClosesConnection

LEMMA AnswersEpoll == Typed /\ Answers /\ epoll_wait => Answers'
<1> SUFFICES ASSUME Typed, Answers, epoll_wait PROVE Answers'
  OBVIOUS
<1>1. PICK k \in 1 .. Len(ready) : Polls(k)
  BY EpollIs DEF Typed
<1>2. ctx' = ctx
  BY DEF epoll_wait
<1> QED BY <1>1, <1>2, AnswersQuietly DEF Polls

LEMMA AnswersAccepts == Typed /\ Events1 /\ Answers /\ johnny_accepts => Answers'
<1> SUFFICES ASSUME Typed, Events1, Answers, johnny_accepts PROVE Answers'
  OBVIOUS
<1>1. CASE UNCHANGED <<kernel, ctx>>
  BY <1>1, AnswersQuietly DEF kernel
<1>2. ASSUME NEW c \in Conns, Accepts(c) PROVE Answers'
  <2>1. backlog \in Seq(Conns) /\ sock \in [Conns -> Socket] /\ ctx \in [Conns -> Context]
    BY DEF Typed, TypeOK
  <2>2. 1 \in 1 .. Len(backlog) /\ backlog[1] = c
    BY <1>2, <2>1 DEF Accepts
  <2>3. sock[c].phase = "backlog"
    BY <2>2 DEF Events1, BacklogWaits
  <2>4. /\ sock'[c].out = <<>> /\ ctx'[c] = FreshContext
        /\ sock'[c].asked = sock[c].asked /\ sock'[c].inq = sock[c].inq
        /\ sock'[c].phase = "open"
    BY <1>2, <2>1, <2>3 DEF Accepts, SameButPhase, Answers, Answering
  <2>5. sock[c].asked \in Nat /\ sock[c].inq \in Nat /\ sock[c].inq <= sock[c].asked
    <3>1. sock[c] \in Socket
      BY <2>1
    <3> QED BY <3>1, SocketNumbers DEF Typed, Counts
  <2>6. Answering(c)'
    <3>1. OrderedOut(c)' /\ Follows(c, ctx[c])'
      BY <2>4 DEF OrderedOut, Follows, FreshContext
    <3>2. Requested(c)'
      BY <2>4, <2>5 DEF Requested, FreshContext
    <3> QED BY <2>4, <3>1, <3>2 DEF Answering
  <2>7. ASSUME NEW d \in Conns \ {c} PROVE Answering(d)'
    BY <1>2, AnsweringKept DEF Accepts, Answers
  <2> QED BY <2>6, <2>7 DEF Answers
<1> QED BY <1>1, <1>2, AcceptsIs

LEMMA AnswersResumes == Typed /\ Events1 /\ Answers /\ johnny_resumes => Answers'
<1> SUFFICES ASSUME Typed, Events1, Answers, johnny_resumes PROVE Answers'
  OBVIOUS
<1>1. PICK c \in Conns :
        /\ pc = "event" /\ InHand(c) /\ c = Current /\ backlog' = backlog
        /\ \/ /\ ClosesConnection(c) /\ TakesNextEvent /\ sock[c].rst # "no"
              /\ UNCHANGED <<recv_more, ctx>>
           \/ /\ HandlesOn(c)
              /\ \E x : /\ NotedIs(c, x)
                        /\ \/ Resuming /\ \E n \in 0 .. x.response_length : SendsUnits(c, x, n)
                           \/ ~Resuming /\ Notes(c, x)
  BY ResumesIs
<1>2. CASE ClosesConnection(c) /\ ctx' = ctx
  BY <1>1, <1>2, AnswersCloses
<1>3. ASSUME NEW x, NotedIs(c, x),
             (\E n \in 0 .. x.response_length : SendsUnits(c, x, n)) \/ Notes(c, x)
      PROVE  Answers'
  <2>1. c \in Open /\ sock[c].phase = "open" /\ OrderedOut(c) /\ Follows(c, ctx[c]) /\ Requested(c)
    BY <1>1, InHandIsOpen DEF Events1, Answers, Answering
  <2>2. Follows(c, x)
    BY <1>3, <2>1 DEF Follows, NotedIs
  <2>3. /\ ctx'[c].response = ctx[c].response /\ ctx'[c].buffer = ctx[c].buffer
        /\ sock'[c].asked = sock[c].asked /\ sock'[c].inq = sock[c].inq
        /\ sock'[c].phase = sock[c].phase
        /\ \A d \in Conns \ {c} : sock'[d] = sock[d] /\ ctx'[d] = ctx[d]
    BY <1>3 DEF SendsUnits, Notes, NotedIs
  <2>4. Requested(c)'
    BY <2>1, <2>3 DEF Requested
  <2>5. OrderedOut(c)' /\ Follows(c, ctx[c])'
    <3>1. x \in Context /\ (x.response_length > 0 => x.response > 0)
      BY <1>3 DEF NotedIs, Typed, Counts
    <3>2. CASE \E n \in 0 .. x.response_length : SendsUnits(c, x, n)
      BY <2>1, <2>2, <3>1, <3>2, AnsweringSent
    <3>3. CASE Notes(c, x)
      BY <2>1, <2>2, <3>3 DEF Notes, OrderedOut, Follows
    <3> QED BY <1>3, <3>2, <3>3
  <2>6. Answering(c)'
    BY <2>1, <2>3, <2>4, <2>5 DEF Answering
  <2>7. ASSUME NEW d \in Conns \ {c} PROVE Answering(d)'
    BY <2>3, AnsweringKept DEF Answers
  <2> QED BY <2>6, <2>7 DEF Answers
<1> QED BY <1>1, <1>2, <1>3

LEMMA AnswersReceives == Typed /\ Events1 /\ Answers /\ johnny_receives => Answers'
<1> SUFFICES ASSUME Typed, Events1, Answers, johnny_receives PROVE Answers'
  OBVIOUS
<1>1. PICK c \in Conns :
        /\ pc = "recv" /\ InHand(c) /\ c = Current /\ backlog' = backlog
        /\ \/ /\ ClosesConnection(c) /\ TakesNextEvent /\ AtTheEnd(c)
              /\ UNCHANGED <<recv_more, ctx>>
           \/ \E n \in 0 .. sock[c].inq : Reads(c, n)
  BY ReceivesIs
<1>2. CASE ClosesConnection(c) /\ ctx' = ctx
  BY <1>1, <1>2, AnswersCloses
<1>3. ASSUME NEW n \in 0 .. sock[c].inq, Reads(c, n) PROVE Answers'
  <2>1. c \in Open /\ sock[c].phase = "open" /\ OrderedOut(c) /\ Follows(c, ctx[c]) /\ Requested(c)
    BY <1>1, InHandIsOpen DEF Events1, Answers, Answering
  <2>2. /\ sock[c].asked \in Nat /\ sock[c].inq \in Nat /\ ctx[c].response \in Nat
        /\ n \in Nat /\ n <= sock[c].inq
    <3>1. sock[c] \in Socket /\ ctx[c] \in Context
      BY DEF Typed, TypeOK
    <3>2. sock[c].asked \in Nat /\ sock[c].inq \in Nat
      BY <3>1, SocketNumbers
    <3>3. ctx[c].response \in Nat
      BY <3>1, WorkerAssumption DEF Context
    <3> QED BY <3>2, <3>3
  <2>3. /\ sock'[c].out = sock[c].out /\ sock'[c].phase = sock[c].phase
        /\ sock'[c].asked = sock[c].asked /\ sock'[c].inq = sock[c].inq - n
        /\ ctx'[c].response = ctx[c].response
        /\ ctx'[c].response_length = ctx[c].response_length
        /\ \A d \in Conns \ {c} : sock'[d] = sock[d] /\ ctx'[d] = ctx[d]
    BY <1>3 DEF Reads
  <2>4. OrderedOut(c)' /\ Follows(c, ctx[c])'
    BY <2>1, <2>3 DEF OrderedOut, Follows
  <2>5. Requested(c)'
    <3> DEFINE read == sock[c].asked - sock[c].inq
    <3>1. /\ sock'[c].asked - sock'[c].inq = read + n /\ read \in Int
          /\ ctx[c].response <= read
      BY <2>1, <2>2, <2>3 DEF Requested
    <3>2. CASE n = 0
      <4>1. sock'[c].asked - sock'[c].inq = read /\ ctx'[c].buffer = ctx[c].buffer
        BY <1>3, <2>2, <2>3, <3>2 DEF Reads
      <4> QED BY <2>1, <2>3, <4>1 DEF Requested
    <3>3. CASE n > 0
      <4>1. /\ Len(ctx'[c].buffer) = n
            /\ \A i \in 1 .. n : ctx'[c].buffer[i] = read + i
        BY <1>3, <3>3 DEF Reads
      <4>2. \A i \in 1 .. n : ctx[c].response < read + i /\ read + i <= read + n
        BY <2>2, <3>1
      <4>3. \A i, j \in 1 .. n : i < j => read + i < read + j
        BY <2>2, <3>1
      <4>4. ctx[c].response <= read + n
        BY <2>2, <3>1
      <4> QED BY <2>3, <3>1, <4>1, <4>2, <4>3, <4>4 DEF Requested
    <3> QED BY <2>2, <3>2, <3>3
  <2>6. Answering(c)'
    BY <2>1, <2>3, <2>4, <2>5 DEF Answering
  <2>7. ASSUME NEW d \in Conns \ {c} PROVE Answering(d)'
    BY <2>3, AnsweringKept DEF Answers
  <2> QED BY <2>6, <2>7 DEF Answers
<1> QED BY <1>1, <1>2, <1>3

LEMMA AnswersSendsResponse == Typed /\ Events1 /\ Answers /\ johnny_sends_response => Answers'
<1> SUFFICES ASSUME Typed, Events1, Answers, johnny_sends_response PROVE Answers'
  OBVIOUS
<1>1. PICK c \in Conns :
        /\ pc = "serve" /\ InHand(c) /\ c = Current
        /\ UNCHANGED <<backlog, recv_more>> /\ ctx[c].buffer # <<>>
        /\ \/ /\ ClosesConnection(c) /\ TakesNextEvent /\ sock[c].rst # "no"
              /\ ctx' = ctx
           \/ \E x : /\ NextIs(c, x) /\ UNCHANGED <<pc, batch>>
                     /\ \E n \in 0 .. x.response_length : SendsUnits(c, x, n)
  BY SendsResponseIs
<1>2. CASE ClosesConnection(c) /\ ctx' = ctx
  BY <1>1, <1>2, AnswersCloses
<1>3. ASSUME NEW x, NextIs(c, x), NEW n \in 0 .. x.response_length, SendsUnits(c, x, n)
      PROVE  Answers'
  <2>1. c \in Open /\ sock[c].phase = "open" /\ OrderedOut(c) /\ Follows(c, ctx[c]) /\ Requested(c)
    BY <1>1, InHandIsOpen DEF Events1, Answers, Answering
  <2> DEFINE buf == ctx[c].buffer
  <2>2. buf \in Seq(1 .. MaxRequests) /\ Len(buf) \in Nat \ {0} /\ 1 \in 1 .. Len(buf)
    <3>1. buf \in Seq(1 .. MaxRequests) /\ buf # <<>>
      BY <1>1 DEF Typed, TypeOK, Context
    <3> QED BY <3>1
  <2>3. ctx[c].response < buf[1]
    BY <2>1, <2>2 DEF Requested
  <2>4. /\ ctx[c].response \in Nat /\ buf[1] \in Nat
        /\ Len(sock[c].out) > 0 => sock[c].out[Len(sock[c].out)][1] \in Nat
    <3>1. ctx[c] \in Context /\ sock[c].out \in Seq(Units) /\ Len(sock[c].out) \in Nat
      <4>1. sock[c] \in Socket /\ ctx[c] \in Context
        BY DEF Typed, TypeOK
      <4> QED BY <4>1, SocketNumbers
    <3>2. \A u \in Units : u[1] \in Nat
      BY WorkerAssumption DEF Units
    <3>3. Len(sock[c].out) > 0 => sock[c].out[Len(sock[c].out)] \in Units
      BY <3>1
    <3>4. ctx[c].response \in Nat /\ \A i \in 1 .. MaxRequests : i \in Nat
      BY <3>1, WorkerAssumption DEF Context
    <3>5. Len(sock[c].out) > 0 => sock[c].out[Len(sock[c].out)][1] \in Nat
      BY <3>2, <3>3
    <3>6. buf[1] \in Nat
      <4>1. buf[1] \in 1 .. MaxRequests
        BY <2>2, ElementOfSeq
      <4> QED BY <4>1, WorkerAssumption
    <3> QED BY <3>4, <3>5, <3>6
  <2>5. Follows(c, x)
    <3>1. Len(sock[c].out) > 0 => sock[c].out[Len(sock[c].out)][1] < buf[1]
      BY <2>1, <2>3, <2>4 DEF Follows
    <3>2. x.response = buf[1] /\ x.response_length = ResponseLen /\ ~(ResponseLen < ResponseLen)
      BY <1>3, WorkerAssumption DEF NextIs
    <3> QED BY <2>4, <3>1, <3>2 DEF Follows
  <2>6. OrderedOut(c)' /\ Follows(c, ctx[c])'
    <3>1. x \in Context /\ x.response > 0
      BY <1>3 DEF NextIs
    <3> QED BY <1>3, <2>1, <2>5, <3>1, AnsweringSent
  <2>7. /\ ctx'[c].response = buf[1]
        /\ Len(ctx'[c].buffer) = Len(buf) - 1
        /\ \A i \in 1 .. Len(buf) - 1 : ctx'[c].buffer[i] = buf[i + 1]
        /\ sock'[c].asked = sock[c].asked /\ sock'[c].inq = sock[c].inq
        /\ sock'[c].phase = sock[c].phase
        /\ \A d \in Conns \ {c} : sock'[d] = sock[d] /\ ctx'[d] = ctx[d]
    BY <1>3 DEF SendsUnits, NextIs
  <2>8. Requested(c)'
    <3> DEFINE read == sock[c].asked - sock[c].inq
    <3>1. /\ \A i \in 1 .. Len(buf) : buf[i] <= read
          /\ \A i, j \in 1 .. Len(buf) : i < j => buf[i] < buf[j]
      BY <2>1 DEF Requested
    <3>2. \A i \in 1 .. Len(buf) - 1 : i + 1 \in 1 .. Len(buf) /\ 1 < i + 1
      BY <2>2
    <3>3. \A i, j \in 1 .. Len(buf) - 1 : i < j => i + 1 < j + 1
      BY <2>2
    <3> HIDE DEF buf
    <3>4. \A i \in 1 .. Len(buf) - 1 : buf[1] < buf[i + 1] /\ buf[i + 1] <= read
      BY <2>2, <3>1, <3>2
    <3>5. \A i, j \in 1 .. Len(buf) - 1 : i < j => buf[i + 1] < buf[j + 1]
      BY <3>1, <3>2, <3>3
    <3>6. sock'[c].asked - sock'[c].inq = read /\ ctx'[c].response = buf[1]
      BY <2>7
    <3>7. buf[1] <= read
      BY <2>2, <3>1
    <3> DEFINE rest == ctx'[c].buffer
    <3>8. Len(rest) = Len(buf) - 1 /\ \A i \in 1 .. Len(buf) - 1 : rest[i] = buf[i + 1]
      BY <2>7 DEF buf
    <3> HIDE DEF read, rest
    <3>9. \A i \in 1 .. Len(rest) : buf[1] < rest[i] /\ rest[i] <= read
      BY <3>4, <3>8
    <3>10. \A i, j \in 1 .. Len(rest) : i < j => rest[i] < rest[j]
      BY <3>5, <3>8
    <3> QED BY <3>6, <3>7, <3>9, <3>10 DEF Requested, rest
  <2>9. Answering(c)'
    BY <2>1, <2>6, <2>7, <2>8 DEF Answering
  <2>10. ASSUME NEW d \in Conns \ {c} PROVE Answering(d)'
    BY <2>7, AnsweringKept DEF Answers
  <2> QED BY <2>9, <2>10 DEF Answers
<1> QED BY <1>1, <1>2, <1>3

LEMMA AnswersDrained == Typed /\ Answers /\ johnny_drained => Answers'
BY DrainedIs, AnswersQuietly

LEMMA AnswersUnchanged == Answers /\ UNCHANGED vars => Answers'
BY AnswersQuietly DEF vars

LEMMA AnswersNext == Typed /\ Events1 /\ Answers /\ [Next]_vars => Answers'
BY AnswersClient, AnswersEpoll, AnswersAccepts, AnswersResumes, AnswersReceives,
   AnswersSendsResponse, AnswersDrained, AnswersUnchanged DEF Next, johnny_works

(***************************************************************************)
(* However sends are cut short, refused and resumed, and whatever clients  *)
(* do, what a connection is sent is never a response again or one before   *)
(* an earlier one, and every unit is the first of a response or follows    *)
(* the one before it in the same response.                                 *)
(***************************************************************************)
THEOREM NothingIsSentTwice == Spec => []ResponsesInOrder
<1>1. Typed /\ Answers => ResponsesInOrder
  <2> SUFFICES ASSUME Typed, Answers, NEW c \in Conns, NEW i \in DOMAIN sock[c].out
               PROVE  LET u == sock[c].out[i]
                      IN  \/ u[2] = 1 /\ (i > 1 => sock[c].out[i - 1][1] < u[1])
                          \/ i > 1 /\ sock[c].out[i - 1] = <<u[1], u[2] - 1>>
    BY DEF ResponsesInOrder
  <2>1. sock[c].out \in Seq(Units)
    BY DEF Typed, TypeOK, Socket
  <2>2. i \in 1 .. Len(sock[c].out)
    BY <2>1
  <2>3. OrderedOut(c)
    BY DEF Answers, Answering
  <2> QED BY <2>2, <2>3, Zenon DEF OrderedOut
<1>2. Init => Typed /\ Events1 /\ Answers
  BY TypedInit, Events1Init, AnswersInit
<1>3. (Typed /\ Events1 /\ Answers) /\ [Next]_vars => (Typed /\ Events1 /\ Answers)'
  BY TypedNext, Events1Next, AnswersNext
<1> QED BY <1>1, <1>2, <1>3, PTL DEF Spec

---------------------------------------------------------------------------
(* Who is hung up on. *)

\* The connections a step closes, and why.
Closes(c) ==
  sock'[c].phase = "closed" =>
    \/ sock[c].rst # "no"
    \/ sock[c].fin /\ sock[c].inq = 0 /\ ctx[c].buffer = <<>>

LEMMA ClosesNone ==
  ASSUME NEW c \in Open, sock'[c].phase = sock[c].phase
  PROVE  Closes(c)
BY DEF Closes, Open

LEMMA ClosesOfASchedule ==
  ASSUME Schedule, Next, NEW d \in Open
  PROVE  Closes(d)
<1> USE DEF Schedule
<1>1. d \in Conns /\ sock[d].phase = "open"
  BY DEF Open
<1>2. CASE epoll_wait
  BY <1>1, <1>2, EpollIs, ClosesNone DEF Polls, Typed
<1>3. CASE johnny_accepts
  BY <1>1, <1>3, AcceptsIs DEF Accepts, Closes, kernel
<1>4. CASE johnny_resumes
  <2>1. PICK c \in Conns :
          \/ ClosesConnection(c) /\ sock[c].rst # "no"
          \/ \E x : (\E n \in 0 .. x.response_length : SendsUnits(c, x, n)) \/ Notes(c, x)
    BY <1>4, ResumesIs
  <2>2. CASE ClosesConnection(c) /\ sock[c].rst # "no"
    BY <1>1, <2>2 DEF ClosesConnection, Closes
  <2>3. CASE \E x : \E n \in 0 .. x.response_length : SendsUnits(c, x, n)
    BY <1>1, <2>3 DEF SendsUnits, Closes
  <2>4. CASE \E x : Notes(c, x)
    BY <1>1, <2>4 DEF Notes, Closes
  <2> QED BY <2>1, <2>2, <2>3, <2>4
<1>5. CASE johnny_receives
  <2>1. PICK c \in Conns :
          /\ pc = "recv"
          /\ \/ ClosesConnection(c) /\ AtTheEnd(c)
             \/ \E n \in 0 .. sock[c].inq : Reads(c, n)
    BY <1>5, ReceivesIs
  <2>2. ctx[d].buffer = <<>>
    BY <2>1 DEF Wakeups, BufferIsServed
  <2> QED BY <1>1, <2>1, <2>2 DEF ClosesConnection, AtTheEnd, Reads, Closes
<1>6. CASE johnny_sends_response
  BY <1>1, <1>6, SendsResponseIs DEF ClosesConnection, SendsUnits, Closes
<1>7. CASE johnny_drained
  BY <1>1, <1>7, DrainedIs DEF Closes
<1>8. ASSUME NEW c \in Conns, Client(c) PROVE Closes(d)
  BY <1>1, <1>8, ClientIs DEF ClientSteps, Closes, Typed
<1> QED BY <1>2, <1>3, <1>4, <1>5, <1>6, <1>7, <1>8 DEF Next, johnny_works

(***************************************************************************)
(* Nobody is hung up on: a connection is closed only if its client has     *)
(* reset it, or has ended its stream when all its requests have been read  *)
(* and none is left in the buffer; so neither a recv nor a send that would *)
(* block ever costs a connection.                                          *)
(***************************************************************************)
THEOREM NobodyIsHungUpOn == Spec => ClosesOnlyWhen
<1>1. Schedule /\ [Next]_vars =>
        [\A c \in Open : sock'[c].phase = "closed" =>
           \/ sock[c].rst # "no"
           \/ sock[c].fin /\ sock[c].inq = 0 /\ ctx[c].buffer = <<>>]_vars
  BY ClosesOfASchedule DEF Closes
<1> QED BY <1>1, ScheduleInit, ScheduleNext, PTL DEF Spec, ClosesOnlyWhen

---------------------------------------------------------------------------
(* Clients that ask for a response and wait for all of it. *)

\* Clients neither pipeline nor finish early nor reset; many may connect at once.
PoliteClients == Clients \subseteq {"bursts"}

OwedTo(c) == sock[c].asked * ResponseLen - Len(sock[c].out)

\* Everything asked for is sent, or one request is on its way: unread, read,
\* or being answered.
Stage(c) ==
  LET s == sock[c]
      x == ctx[c]
  IN  \/ /\ s.inq = 0 /\ x.buffer = <<>> /\ x.response_length = 0
         /\ OwedTo(c) = 0
      \/ /\ s.asked > 0 /\ ~s.fin
         /\ \/ /\ s.inq = 1 /\ x.buffer = <<>> /\ x.response_length = 0
               /\ OwedTo(c) = ResponseLen
            \/ /\ s.inq = 0 /\ Len(x.buffer) = 1 /\ x.response_length = 0
               /\ x.buffer[1] = s.asked
               /\ OwedTo(c) = ResponseLen
            \/ /\ s.inq = 0 /\ x.buffer = <<>> /\ x.response_length > 0
               /\ x.response = s.asked
               /\ OwedTo(c) = x.response_length

SentInOrder(c) == \A i \in 1 .. Len(sock[c].out) : sock[c].out[i] = Service!Unit(i)

Polite(c) ==
  /\ sock[c].rst = "no"
  /\ Stage(c)
  /\ SentInOrder(c)
  /\ sock[c].phase \in {"idle", "backlog"} => ctx[c] = FreshContext

PoliteService == \A c \in Conns : Polite(c)

\* What FileService sees of the worker.
StateOf(c) == IF sock[c].phase = "backlog" THEN "waiting" ELSE sock[c].phase

SameService(c) ==
  /\ StateOf(c)' = StateOf(c) /\ sock'[c].asked = sock[c].asked
  /\ sock'[c].fin = sock[c].fin /\ sock'[c].out = sock[c].out

ServiceStep == Service!Next \/ UNCHANGED Service!vars

---------------------------------------------------------------------------
(* The refinement mapping. *)

LEMMA StutterOfService ==
  ASSUME \A c \in Conns : SameService(c)
  PROVE  ServiceStep
<1>1. /\ [c \in Conns |-> StateOf(c)]' = [c \in Conns |-> StateOf(c)]
      /\ [c \in Conns |-> sock[c].asked]' = [c \in Conns |-> sock[c].asked]
      /\ [c \in Conns |-> sock[c].fin]' = [c \in Conns |-> sock[c].fin]
      /\ [c \in Conns |-> sock[c].out]' = [c \in Conns |-> sock[c].out]
  BY DEF SameService
<1> QED BY <1>1 DEF ServiceStep, Service!vars, StateOf

\* A step of the connection c that changes only its state, from q to r.
LEMMA StateStep ==
  ASSUME NEW c \in Conns, \A d \in Conns \ {c} : SameService(d),
         sock'[c].asked = sock[c].asked, sock'[c].fin = sock[c].fin, sock'[c].out = sock[c].out
  PROVE  /\ StateOf(c) = "idle" /\ StateOf(c)' = "waiting" => ServiceStep
         /\ StateOf(c) = "waiting" /\ StateOf(c)' = "open" => ServiceStep
         /\ StateOf(c) = "open" /\ StateOf(c)' = "closed" /\ sock[c].fin /\ OwedTo(c) = 0
              => ServiceStep
<1> DEFINE S == [d \in Conns |-> StateOf(d)]
<1>1. S' = [S EXCEPT ![c] = StateOf(c)'] /\ S[c] = StateOf(c)
  BY DEF SameService
<1>2. /\ [d \in Conns |-> sock[d].asked]' = [d \in Conns |-> sock[d].asked]
      /\ [d \in Conns |-> sock[d].fin]' = [d \in Conns |-> sock[d].fin]
      /\ [d \in Conns |-> sock[d].out]' = [d \in Conns |-> sock[d].out]
  BY DEF SameService
<1>3. ASSUME StateOf(c) = "idle", StateOf(c)' = "waiting" PROVE Service!Connect(c)
  BY <1>1, <1>2, <1>3 DEF Service!Connect, StateOf
<1>4. ASSUME StateOf(c) = "waiting", StateOf(c)' = "open" PROVE Service!Accept(c)
  BY <1>1, <1>2, <1>4 DEF Service!Accept, StateOf
<1>5. ASSUME StateOf(c) = "open", StateOf(c)' = "closed", sock[c].fin, OwedTo(c) = 0
      PROVE  Service!Close(c)
  BY <1>1, <1>2, <1>5 DEF Service!Close, Service!Owed, StateOf, OwedTo
<1> QED BY <1>3, <1>4, <1>5 DEF ServiceStep, Service!Next

LEMMA AskStep ==
  ASSUME NEW c \in Conns, \A d \in Conns \ {c} : SameService(d),
         StateOf(c)' = StateOf(c), sock'[c].asked = sock[c].asked + 1,
         sock'[c].fin = sock[c].fin, sock'[c].out = sock[c].out,
         StateOf(c) \in {"waiting", "open"}, ~sock[c].fin,
         sock[c].asked < MaxRequests, OwedTo(c) = 0
  PROVE  ServiceStep
<1> DEFINE A == [d \in Conns |-> sock[d].asked]
<1>1. A' = [A EXCEPT ![c] = A[c] + 1]
  BY DEF SameService
<1>2. /\ [d \in Conns |-> StateOf(d)]' = [d \in Conns |-> StateOf(d)]
      /\ [d \in Conns |-> sock[d].fin]' = [d \in Conns |-> sock[d].fin]
      /\ [d \in Conns |-> sock[d].out]' = [d \in Conns |-> sock[d].out]
  BY DEF SameService
<1>3. Service!Ask(c)
  BY <1>1, <1>2 DEF Service!Ask, Service!Owed, StateOf, OwedTo
<1> QED BY <1>3 DEF ServiceStep, Service!Next

LEMMA FinishStep ==
  ASSUME NEW c \in Conns, \A d \in Conns \ {c} : SameService(d),
         StateOf(c)' = StateOf(c), sock'[c].asked = sock[c].asked,
         sock'[c].fin = TRUE, sock'[c].out = sock[c].out,
         StateOf(c) \in {"waiting", "open"}, ~sock[c].fin, OwedTo(c) = 0
  PROVE  ServiceStep
<1> DEFINE F == [d \in Conns |-> sock[d].fin]
<1>1. F' = [F EXCEPT ![c] = TRUE]
  BY DEF SameService
<1>2. /\ [d \in Conns |-> StateOf(d)]' = [d \in Conns |-> StateOf(d)]
      /\ [d \in Conns |-> sock[d].asked]' = [d \in Conns |-> sock[d].asked]
      /\ [d \in Conns |-> sock[d].out]' = [d \in Conns |-> sock[d].out]
  BY DEF SameService
<1>3. Service!Finish(c)
  BY <1>1, <1>2 DEF Service!Finish, Service!Owed, StateOf, OwedTo
<1> QED BY <1>3 DEF ServiceStep, Service!Next

LEMMA AnswerStep ==
  ASSUME NEW c \in Conns, \A d \in Conns \ {c} : SameService(d),
         StateOf(c)' = StateOf(c), sock'[c].asked = sock[c].asked,
         sock'[c].fin = sock[c].fin, StateOf(c) = "open",
         NEW n \in 1 .. OwedTo(c),
         sock'[c].out = sock[c].out \o [i \in 1 .. n |-> Service!Unit(Len(sock[c].out) + i)]
  PROVE  ServiceStep
<1> DEFINE O == [d \in Conns |-> sock[d].out]
<1>1. O' = [O EXCEPT ![c] = O[c] \o [i \in 1 .. n |-> Service!Unit(Len(O[c]) + i)]]
  BY DEF SameService
<1>2. /\ [d \in Conns |-> StateOf(d)]' = [d \in Conns |-> StateOf(d)]
      /\ [d \in Conns |-> sock[d].asked]' = [d \in Conns |-> sock[d].asked]
      /\ [d \in Conns |-> sock[d].fin]' = [d \in Conns |-> sock[d].fin]
  BY DEF SameService
<1>3. n \in 1 .. Service!Owed(c)
  BY DEF Service!Owed, OwedTo
<1>4. Service!Answer(c)
  BY <1>1, <1>2, <1>3 DEF Service!Answer, StateOf
<1> QED BY <1>4 DEF ServiceStep, Service!Next

---------------------------------------------------------------------------
(* The units that are sent. *)

LEMMA ConcatenationOf ==
  ASSUME NEW S, NEW s \in Seq(S), NEW t \in Seq(S), NEW u \in Seq(S),
         Len(u) = Len(s) + Len(t),
         \A i \in 1 .. Len(s) : u[i] = s[i],
         \A i \in 1 .. Len(t) : u[Len(s) + i] = t[i]
  PROVE  u = s \o t
<1>1. /\ s \o t \in Seq(S) /\ Len(s \o t) = Len(s) + Len(t)
      /\ \A i \in 1 .. Len(s) + Len(t) : (s \o t)[i] = IF i <= Len(s) THEN s[i] ELSE t[i - Len(s)]
  BY ConcatProperties
<1>2. ASSUME NEW i \in 1 .. Len(s) + Len(t) PROVE u[i] = (s \o t)[i]
  <2>1. CASE i <= Len(s)
    BY <1>1, <2>1
  <2>2. CASE ~(i <= Len(s))
    <3>1. i - Len(s) \in 1 .. Len(t) /\ Len(s) + (i - Len(s)) = i
      BY <2>2
    <3> QED BY <1>1, <2>2, <3>1
  <2> QED BY <2>1, <2>2
<1> QED BY <1>1, <1>2, SeqEqual

\* Unit i of response a is unit (a - 1) * ResponseLen + i of them all.
LEMMA UnitOf ==
  ASSUME NEW a \in Nat \ {0}, NEW o \in 0 .. ResponseLen - 1
  PROVE  Service!Unit((a - 1) * ResponseLen + o + 1) = <<a, o + 1>>
<1>1. ResponseLen \in Nat \ {0}
  BY WorkerAssumption
<1>2. \A b \in Nat \ {0} : \A w \in Nat : \A k \in 0 .. b - 1 :
        (w * b + k) \div b = w /\ (w * b + k) % b = k
  OBVIOUS
<1>3. a - 1 \in Nat /\ (a - 1) * ResponseLen \in Nat /\ a - 1 + 1 = a
  BY <1>1
<1>4. (a - 1) * ResponseLen + o + 1 - 1 = (a - 1) * ResponseLen + o
  BY <1>1, <1>3
<1>5. /\ ((a - 1) * ResponseLen + o) \div ResponseLen = a - 1
      /\ ((a - 1) * ResponseLen + o) % ResponseLen = o
  BY <1>1, <1>2, <1>3, Zenon
<1> DEFINE at == (a - 1) * ResponseLen + o + 1
<1>6. (at - 1) \div ResponseLen + 1 = a /\ ((at - 1) % ResponseLen) + 1 = o + 1
  BY <1>3, <1>4, <1>5
<1> HIDE DEF at
<1>7. Service!Unit(at) = <<a, o + 1>>
  BY <1>6 DEF Service!Unit
<1> QED BY <1>7 DEF at

LEMMA PoliteKept ==
  ASSUME NEW c \in Conns, Polite(c), ctx'[c] = ctx[c],
         sock'[c].asked = sock[c].asked, sock'[c].inq = sock[c].inq,
         sock'[c].fin = sock[c].fin, sock'[c].rst = sock[c].rst,
         sock'[c].out = sock[c].out,
         sock'[c].phase \in {"idle", "backlog"} => sock[c].phase \in {"idle", "backlog"}
  PROVE  Polite(c)'
<1>1. OwedTo(c)' = OwedTo(c)
  BY DEF OwedTo
<1>2. Stage(c)'
  BY <1>1, Zenon DEF Polite, Stage
<1>3. SentInOrder(c)'
  BY DEF Polite, SentInOrder, Service!Unit
<1> QED BY <1>2, <1>3 DEF Polite

\* A step that sends nothing, and of which the service sees nothing.
LEMMA PoliteQuietly ==
  ASSUME PoliteService, \A d \in Conns : ctx'[d] = ctx[d],
         \A d \in Conns : \/ sock'[d] = sock[d]
                          \/ SameButPhase(d) /\ sock'[d].phase = sock[d].phase
  PROVE  PoliteService' /\ ServiceStep
<1>1. \A d \in Conns : Polite(d)'
  BY PoliteKept DEF PoliteService, SameButPhase
<1>2. \A d \in Conns : SameService(d)
  BY DEF SameService, SameButPhase, StateOf
<1> QED BY <1>1, <1>2, StutterOfService DEF PoliteService

LEMMA PoliteInit == Init => PoliteService /\ Service!Init
<1> SUFFICES ASSUME Init PROVE PoliteService /\ Service!Init
  OBVIOUS
<1>1. \A c \in Conns :
        /\ sock[c] = [phase |-> "idle", asked |-> 0, inq |-> 0, fin |-> FALSE, rst |-> "no",
                      out |-> <<>>, taken |-> 0, nospace |-> FALSE]
        /\ ctx[c] = FreshContext
  BY DEF Init
<1>2. ASSUME NEW c \in Conns PROVE Polite(c)
  <2>1. OwedTo(c) = 0
    BY <1>1, WorkerAssumption DEF OwedTo
  <2> QED BY <1>1, <2>1 DEF Polite, Stage, SentInOrder, FreshContext
<1>3. \A c \in Conns : /\ sock[c].phase = "idle" /\ sock[c].asked = 0
                      /\ sock[c].fin = FALSE /\ sock[c].out = <<>>
  BY <1>1
<1>4. Service!Init
  BY <1>3 DEF Service!Init
<1> QED BY <1>2, <1>4 DEF PoliteService

\* A client has its responses only if nothing is owed to it.
LEMMA NothingOwed ==
  ASSUME Typed, PoliteService, NEW c \in Conns, Answered(c)
  PROVE  /\ OwedTo(c) = 0 /\ sock[c].inq = 0 /\ ctx[c].buffer = <<>>
         /\ ctx[c].response_length = 0
<1>1. sock[c].asked \in Nat /\ sock[c].taken \in Nat /\ Len(sock[c].out) \in Nat
      /\ ResponseLen \in Nat \ {0} /\ sock[c].taken <= Len(sock[c].out)
  <2>1. sock[c] \in Socket
    BY DEF Typed, TypeOK
  <2> QED BY <2>1, SocketNumbers, WorkerAssumption DEF Typed, Counts
<1>2. sock[c].asked * ResponseLen \in Nat
  BY <1>1
<1>3. ~(OwedTo(c) > 0)
  BY <1>1, <1>2 DEF OwedTo, Answered
<1>4. ctx[c].response_length > 0 \/ ~(ctx[c].response_length > 0)
  OBVIOUS
<1>5. Stage(c)
  BY DEF PoliteService, Polite
<1> QED BY <1>1, <1>3, <1>5 DEF Stage

---------------------------------------------------------------------------
(* Every step of the system is one of the service, or none. *)

LEMMA PoliteClient ==
  ASSUME PoliteClients, Typed, PoliteService, NEW c \in Conns, Client(c)
  PROVE  PoliteService' /\ ServiceStep
<1>1. /\ sock \in [Conns -> Socket] /\ sock[c] \in Socket /\ ctx' = ctx /\ Polite(c)
      /\ MaxRequests \in Nat /\ ResponseLen \in Nat \ {0}
  BY WorkerAssumption DEF Client, Typed, TypeOK, PoliteService
<1>2. /\ sock[c].asked \in Nat /\ sock[c].inq \in Nat /\ Len(sock[c].out) \in Nat
      /\ sock[c].asked * ResponseLen \in Nat
  <2>1. sock[c].asked \in Nat /\ sock[c].inq \in Nat /\ Len(sock[c].out) \in Nat
    BY <1>1, SocketNumbers
  <2> QED BY <1>1, <2>1
<1>3. "pipelines" \notin Clients /\ "half-closes" \notin Clients /\ "resets" \notin Clients
  BY DEF PoliteClients
\* The other connections do not notice.
<1>4. ASSUME NEW s, sock' = [sock EXCEPT ![c] = s]
      PROVE  /\ sock'[c] = s
             /\ \A d \in Conns \ {c} : SameService(d) /\ Polite(d)'
  <2>1. sock'[c] = s /\ \A d \in Conns \ {c} : sock'[d] = sock[d]
    BY <1>1, <1>4
  <2>2. \A d \in Conns \ {c} : SameService(d)
    BY <2>1 DEF SameService, StateOf
  <2>3. \A d \in Conns \ {c} : Polite(d)'
    BY <1>1, <2>1, PoliteKept DEF PoliteService
  <2> QED BY <2>1, <2>2, <2>3
<1>5. CASE Connect(c)
  <2> DEFINE s == [sock[c] EXCEPT !.phase = "backlog"]
  <2>1. sock[c].phase = "idle" /\ sock' = [sock EXCEPT ![c] = s]
    BY <1>5 DEF Connect
  <2>2. /\ s.phase = "backlog" /\ s.asked = sock[c].asked /\ s.inq = sock[c].inq
        /\ s.fin = sock[c].fin /\ s.rst = sock[c].rst /\ s.out = sock[c].out
    BY <1>1 DEF Socket
  <2> HIDE DEF s
  <2>3. sock'[c] = s /\ \A d \in Conns \ {c} : SameService(d) /\ Polite(d)'
    BY <1>4, <2>1
  <2>4. Polite(c)'
    BY <1>1, <2>1, <2>2, <2>3, PoliteKept
  <2>5. ServiceStep
    BY <2>1, <2>2, <2>3, StateStep DEF StateOf
  <2> QED BY <2>3, <2>4, <2>5 DEF PoliteService
<1>6. CASE Ask(c)
  <2> DEFINE s == [sock[c] EXCEPT !.asked = sock[c].asked + 1, !.inq = sock[c].inq + 1]
  <2>1. /\ sock' = [sock EXCEPT ![c] = s] /\ Connected(c) /\ sock[c].asked < MaxRequests
        /\ Answered(c)
    BY <1>3, <1>6 DEF Ask
  <2>2. /\ s.phase = sock[c].phase /\ s.asked = sock[c].asked + 1 /\ s.inq = sock[c].inq + 1
        /\ s.fin = sock[c].fin /\ s.rst = sock[c].rst /\ s.out = sock[c].out
    BY <1>1 DEF Socket
  <2> HIDE DEF s
  <2>3. sock'[c] = s /\ \A d \in Conns \ {c} : SameService(d) /\ Polite(d)'
    BY <1>4, <2>1
  <2>4. /\ OwedTo(c) = 0 /\ sock[c].inq = 0 /\ ctx[c].buffer = <<>>
        /\ ctx[c].response_length = 0
    BY <2>1, NothingOwed
  <2>5. OwedTo(c)' = ResponseLen
    <3>1. \A a, b \in Nat : (a + 1) * b = a * b + b
      OBVIOUS
    <3>2. (sock[c].asked + 1) * ResponseLen = sock[c].asked * ResponseLen + ResponseLen
      BY <1>1, <1>2, <3>1
    <3>3. OwedTo(c)' = (sock[c].asked + 1) * ResponseLen - Len(sock[c].out)
      BY <2>2, <2>3 DEF OwedTo
    <3>4. \A p, r, l \in Nat : p - l = 0 => (p + r) - l = r
      OBVIOUS
    <3>5. sock[c].asked * ResponseLen - Len(sock[c].out) = 0
      BY <2>4 DEF OwedTo
    <3> QED BY <1>1, <1>2, <3>2, <3>3, <3>4, <3>5
  <2>6. Stage(c)'
    <3>1. /\ ~sock'[c].fin /\ sock'[c].asked > 0 /\ sock'[c].inq = 1
          /\ ctx'[c].buffer = <<>> /\ ctx'[c].response_length = 0
      BY <1>1, <1>2, <2>1, <2>2, <2>3, <2>4 DEF Connected
    <3> QED BY <2>5, <3>1 DEF Stage
  <2>7. Polite(c)'
    BY <1>1, <2>2, <2>3, <2>6 DEF Polite, SentInOrder, Service!Unit
  <2>8. ServiceStep
    <3>1. StateOf(c) \in {"waiting", "open"} /\ ~sock[c].fin
      BY <2>1 DEF Connected, StateOf
    <3>2. StateOf(c)' = StateOf(c)
      BY <2>2, <2>3 DEF StateOf
    <3> QED BY <2>1, <2>2, <2>3, <2>4, <3>1, <3>2, AskStep
  <2> QED BY <2>3, <2>7, <2>8 DEF PoliteService
<1>7. CASE Take(c)
  <2> DEFINE s == [sock[c] EXCEPT !.taken = sock[c].taken + 1, !.nospace = FALSE]
  <2>1. sock' = [sock EXCEPT ![c] = s]
    BY <1>7 DEF Take
  <2>2. /\ s.phase = sock[c].phase /\ s.asked = sock[c].asked /\ s.inq = sock[c].inq
        /\ s.fin = sock[c].fin /\ s.rst = sock[c].rst /\ s.out = sock[c].out
    BY <1>1 DEF Socket
  <2> HIDE DEF s
  <2>3. sock'[c] = s /\ \A d \in Conns \ {c} : SameService(d) /\ Polite(d)'
    BY <1>4, <2>1
  <2>4. Polite(c)' /\ SameService(c)
    BY <1>1, <2>2, <2>3, PoliteKept DEF SameService, StateOf
  <2> QED BY <2>3, <2>4, StutterOfService DEF PoliteService
<1>8. CASE Finish(c)
  <2> DEFINE s == [sock[c] EXCEPT !.fin = TRUE]
  <2>1. sock' = [sock EXCEPT ![c] = s] /\ Connected(c) /\ Answered(c)
    BY <1>3, <1>8 DEF Finish
  <2>2. /\ s.phase = sock[c].phase /\ s.asked = sock[c].asked /\ s.inq = sock[c].inq
        /\ s.fin = TRUE /\ s.rst = sock[c].rst /\ s.out = sock[c].out
    BY <1>1 DEF Socket
  <2> HIDE DEF s
  <2>3. sock'[c] = s /\ \A d \in Conns \ {c} : SameService(d) /\ Polite(d)'
    BY <1>4, <2>1
  <2>4. /\ OwedTo(c) = 0 /\ sock[c].inq = 0 /\ ctx[c].buffer = <<>>
        /\ ctx[c].response_length = 0
    BY <2>1, NothingOwed
  <2>5. OwedTo(c)' = 0
    BY <2>2, <2>3, <2>4 DEF OwedTo
  <2>6. Stage(c)'
    BY <1>1, <2>2, <2>3, <2>4, <2>5 DEF Stage
  <2>7. Polite(c)'
    BY <1>1, <2>2, <2>3, <2>6 DEF Polite, SentInOrder, Service!Unit
  <2>8. ServiceStep
    <3>1. StateOf(c) \in {"waiting", "open"} /\ ~sock[c].fin
      BY <2>1 DEF Connected, StateOf
    <3>2. StateOf(c)' = StateOf(c)
      BY <2>2, <2>3 DEF StateOf
    <3> QED BY <2>2, <2>3, <2>4, <3>1, <3>2, FinishStep
  <2> QED BY <2>3, <2>7, <2>8 DEF PoliteService
<1> QED BY <1>3, <1>5, <1>6, <1>7, <1>8 DEF Client, Reset

LEMMA PoliteEpoll == Typed /\ PoliteService /\ epoll_wait => PoliteService' /\ ServiceStep
BY EpollIs, PoliteQuietly DEF Typed, epoll_wait, Polls

LEMMA PoliteAccepts ==
  ASSUME Typed, Events1, PoliteService, johnny_accepts
  PROVE  PoliteService' /\ ServiceStep
<1>1. CASE UNCHANGED <<kernel, ctx>>
  BY <1>1, PoliteQuietly DEF kernel
<1>2. ASSUME NEW c \in Conns, Accepts(c) PROVE PoliteService' /\ ServiceStep
  <2>1. backlog \in Seq(Conns) /\ ctx \in [Conns -> Context]
    BY DEF Typed, TypeOK
  <2>2. 1 \in 1 .. Len(backlog) /\ backlog[1] = c
    BY <1>2, <2>1 DEF Accepts
  <2>3. sock[c].phase = "backlog" /\ ctx[c] = FreshContext
    BY <2>2 DEF Events1, BacklogWaits, PoliteService, Polite
  <2>4. /\ ctx'[c] = ctx[c] /\ sock'[c].phase = "open" /\ SameButPhase(c)
        /\ \A d \in Conns \ {c} : sock'[d] = sock[d] /\ ctx'[d] = ctx[d]
    BY <1>2, <2>1, <2>3 DEF Accepts
  <2>5. \A d \in Conns : Polite(d)'
    BY <2>4, PoliteKept DEF PoliteService, SameButPhase
  <2>6. \A d \in Conns \ {c} : SameService(d)
    BY <2>4 DEF SameService, StateOf
  <2>7. ServiceStep
    BY <2>3, <2>4, <2>6, StateStep DEF StateOf, SameButPhase
  <2> QED BY <2>5, <2>7 DEF PoliteService
<1> QED BY <1>1, <1>2, AcceptsIs

\* A step on an open connection c that leaves the others alone and sends nothing.
LEMMA PoliteOnOpen ==
  ASSUME PoliteService, NEW c \in Conns,
         \A d \in Conns \ {c} : sock'[d] = sock[d] /\ ctx'[d] = ctx[d],
         sock[c].phase = "open", sock'[c].phase = "open", sock'[c].asked = sock[c].asked,
         sock'[c].fin = sock[c].fin, sock'[c].out = sock[c].out,
         sock'[c].rst = "no", Stage(c)'
  PROVE  PoliteService' /\ ServiceStep
<1>1. \A d \in Conns \ {c} : Polite(d)'
  BY PoliteKept DEF PoliteService
<1>2. Polite(c)'
  BY DEF PoliteService, Polite, SentInOrder, Service!Unit
<1>3. \A d \in Conns : SameService(d)
  BY DEF SameService, StateOf
<1> QED BY <1>1, <1>2, <1>3, StutterOfService DEF PoliteService

\* n units of the response x to the last request are sent.
LEMMA PoliteSent ==
  ASSUME Typed, PoliteService, NEW c \in Conns, sock[c].phase = "open",
         NEW x \in Context, NEW n \in 0 .. x.response_length, SendsUnits(c, x, n),
         sock[c].inq = 0, sock[c].asked > 0, ~sock[c].fin,
         x.response = sock[c].asked, x.response_length > 0, x.buffer = <<>>,
         OwedTo(c) = x.response_length
  PROVE  PoliteService' /\ ServiceStep
<1> DEFINE a == sock[c].asked
           len == Len(sock[c].out)
           left == x.response_length
           owed == a * ResponseLen
<1>1. /\ a \in Nat \ {0} /\ len \in Nat /\ sock[c].out \in Seq(Units)
      /\ left \in Nat /\ left <= ResponseLen /\ ResponseLen \in Nat \ {0}
      /\ n \in Nat /\ n <= left /\ owed \in Nat
  <2>1. sock[c] \in Socket
    BY DEF Typed, TypeOK
  <2>2. a \in Nat \ {0} /\ len \in Nat /\ sock[c].out \in Seq(Units)
    BY <2>1, SocketNumbers
  <2>3. left \in Nat /\ left <= ResponseLen /\ ResponseLen \in Nat \ {0}
    BY WorkerAssumption DEF Context
  <2> QED BY <2>2, <2>3
<1>2. /\ sock' \in [Conns -> Socket] /\ Len(sock'[c].out) = len + n
      /\ \A i \in 1 .. len : sock'[c].out[i] = sock[c].out[i]
      /\ \A i \in 1 .. n : sock'[c].out[len + i] = <<a, ResponseLen - left + i>>
      /\ sock'[c].phase = "open" /\ sock'[c].asked = a /\ sock'[c].inq = 0
      /\ sock'[c].fin = sock[c].fin /\ sock'[c].rst = "no"
      /\ ctx'[c].response = a /\ ctx'[c].response_length = left - n /\ ctx'[c].buffer = <<>>
      /\ \A d \in Conns \ {c} : sock'[d] = sock[d] /\ ctx'[d] = ctx[d]
  BY DEF SendsUnits
<1>3. owed - len = left
  BY DEF OwedTo
<1>4. OwedTo(c)' = left - n
  <2>1. OwedTo(c)' = owed - (len + n)
    BY <1>2 DEF OwedTo
  <2> HIDE DEF owed, len, left
  <2> QED BY <1>1, <1>3, <2>1
<1>5. ASSUME NEW i \in 1 .. n
      PROVE  sock'[c].out[len + i] = Service!Unit(len + i)
  <2> DEFINE o == ResponseLen - left + i - 1
  <2>1. o \in 0 .. ResponseLen - 1 /\ o + 1 = ResponseLen - left + i
    <3>1. i \in Nat /\ 1 <= i /\ i <= left
      BY <1>1
    <3> HIDE DEF owed, len, left, a
    <3> QED BY <1>1, <3>1
  <2>2. (a - 1) * ResponseLen = owed - ResponseLen
    <3>1. \A p \in Nat \ {0}, q \in Nat : (p - 1) * q = p * q - q
      OBVIOUS
    <3> QED BY <1>1, <3>1
  <2>3. (a - 1) * ResponseLen + o + 1 = len + i
    <3> HIDE DEF owed, len, left
    <3>1. owed - ResponseLen + (ResponseLen - left + i - 1) + 1 = len + i
      BY <1>1, <1>3
    <3> QED BY <2>2, <3>1
  <2>4. Service!Unit((a - 1) * ResponseLen + o + 1) = <<a, o + 1>>
    <3> HIDE DEF o, a
    <3> QED BY <1>1, <2>1, UnitOf
  <2> QED BY <1>2, <2>1, <2>3, <2>4, Zenon
<1> HIDE DEF owed
<1>6. Stage(c)'
  <2>1. CASE n = left
    <3>1. left - n = 0
      BY <1>1, <2>1
    <3> QED BY <1>2, <1>4, <3>1 DEF Stage
  <2>2. CASE n # left
    <3>1. left - n > 0
      BY <1>1, <2>2
    <3> QED BY <1>1, <1>2, <1>4, <3>1 DEF Stage
  <2> QED BY <2>1, <2>2
<1>7. SentInOrder(c)'
  <2>1. ASSUME NEW i \in 1 .. len + n PROVE sock'[c].out[i] = Service!Unit(i)
    <3>1. CASE i <= len
      <4>1. i \in 1 .. len
        BY <1>1, <3>1
      <4>2. sock[c].out[i] = Service!Unit(i)
        BY <4>1 DEF PoliteService, Polite, SentInOrder
      <4> QED BY <1>2, <4>1, <4>2
    <3>2. CASE i > len
      <4> HIDE DEF len
      <4>1. i - len \in 1 .. n /\ len + (i - len) = i
        BY <1>1, <3>2
      <4>2. sock'[c].out[len + (i - len)] = Service!Unit(len + (i - len))
        BY <1>5, <4>1
      <4> QED BY <4>1, <4>2, Zenon
    <3> QED BY <1>1, <3>1, <3>2
  <2> QED BY <1>2, <2>1 DEF SentInOrder, Service!Unit
<1>8. \A d \in Conns : Polite(d)'
  <2>1. Polite(c)'
    BY <1>2, <1>6, <1>7 DEF Polite
  <2>2. \A d \in Conns \ {c} : Polite(d)'
    BY <1>2, PoliteKept DEF PoliteService
  <2> QED BY <2>1, <2>2
<1>9. ServiceStep
  <2>1. /\ \A d \in Conns \ {c} : SameService(d)
        /\ StateOf(c)' = StateOf(c) /\ StateOf(c) = "open"
    BY <1>2 DEF SameService, StateOf
  <2> DEFINE new == [i \in 1 .. n |-> Service!Unit(len + i)]
  <2>2. sock'[c].out = sock[c].out \o new
    <3>1. \A i \in 1 .. n : Service!Unit(len + i) \in Units
      <4>1. /\ sock'[c].out \in Seq(Units) /\ Len(sock'[c].out) = len + n
        <5>1. sock'[c] \in Socket
          BY <1>2
        <5> QED BY <1>2, <5>1, SocketNumbers
      <4> HIDE DEF len
      <4>2. \A i \in 1 .. n : len + i \in 1 .. len + n
        BY <1>1
      <4>3. \A i \in 1 .. n : sock'[c].out[len + i] \in Units
        BY <4>1, <4>2, ElementOfSeq
      <4> QED BY <1>5, <4>3
    <3>2. new \in Seq(Units) /\ Len(new) = n /\ \A i \in 1 .. n : new[i] = Service!Unit(len + i)
      BY <1>1, <3>1
    <3>3. sock'[c].out \in Seq(Units)
      <4>1. sock'[c] \in Socket
        BY <1>2
      <4> QED BY <4>1, SocketNumbers
    <3> HIDE DEF new
    <3>4. \A i \in 1 .. n : sock'[c].out[len + i] = new[i]
      BY <1>5, <3>2
    <3>5. /\ sock[c].out \in Seq(Units) /\ n \in Nat
          /\ Len(sock'[c].out) = Len(sock[c].out) + n
          /\ \A i \in 1 .. Len(sock[c].out) : sock'[c].out[i] = sock[c].out[i]
      BY <1>1, <1>2
    <3> DEFINE Joins(s, t, u) ==
                 /\ Len(u) = Len(s) + Len(t)
                 /\ \A i \in 1 .. Len(s) : u[i] = s[i]
                 /\ \A i \in 1 .. Len(t) : u[Len(s) + i] = t[i]
    <3>6. Joins(sock[c].out, new, sock'[c].out)
      BY <3>2, <3>4, <3>5
    <3>7. \A s, t, u \in Seq(Units) : Joins(s, t, u) => u = s \o t
      BY ConcatenationOf
    <3> HIDE DEF Joins
    <3> QED BY <3>2, <3>3, <3>5, <3>6, <3>7, Zenon
  <2>3. CASE n = 0
    <3>1. new = <<>>
      BY <2>3
    <3> HIDE DEF new
    <3>2. sock'[c].out = sock[c].out
      BY <1>1, <2>2, <3>1, ConcatEmptySeq, Zenon
    <3>3. SameService(c)
      BY <1>2, <2>1, <3>2 DEF SameService
    <3> QED BY <2>1, <3>3, StutterOfService
  <2>4. CASE n > 0
    <3>1. n \in 1 .. OwedTo(c)
      BY <1>1, <2>4
    <3> QED BY <1>2, <2>1, <2>2, <3>1, AnswerStep
  <2> QED BY <1>1, <2>3, <2>4
<1> QED BY <1>8, <1>9 DEF PoliteService

LEMMA PoliteResumes ==
  ASSUME Typed, Events1, PoliteService, johnny_resumes
  PROVE  PoliteService' /\ ServiceStep
<1>1. PICK c \in Conns :
        /\ pc = "event" /\ InHand(c) /\ c = Current /\ backlog' = backlog
        /\ \/ /\ ClosesConnection(c) /\ TakesNextEvent /\ sock[c].rst # "no"
              /\ UNCHANGED <<recv_more, ctx>>
           \/ /\ HandlesOn(c)
              /\ \E x : /\ NotedIs(c, x)
                        /\ \/ Resuming /\ \E n \in 0 .. x.response_length : SendsUnits(c, x, n)
                           \/ ~Resuming /\ Notes(c, x)
  BY ResumesIs
<1>2. sock[c].phase = "open" /\ sock[c].rst = "no" /\ Stage(c)
  BY <1>1, InHandIsOpen DEF Events1, PoliteService, Polite
<1>3. PICK x : /\ NotedIs(c, x)
               /\ \/ Resuming /\ \E n \in 0 .. x.response_length : SendsUnits(c, x, n)
                  \/ ~Resuming /\ Notes(c, x)
  BY <1>1, <1>2
<1>4. CASE ~Resuming /\ Notes(c, x)
  <2>1. /\ sock' = sock /\ \A d \in Conns \ {c} : ctx'[d] = ctx[d]
        /\ ctx'[c].response = ctx[c].response /\ ctx'[c].buffer = ctx[c].buffer
        /\ ctx'[c].response_length = ctx[c].response_length
    BY <1>3, <1>4 DEF Notes, NotedIs
  <2>2. OwedTo(c)' = OwedTo(c)
    BY <2>1 DEF OwedTo
  <2>3. Stage(c)'
    BY <1>2, <2>1, <2>2, Zenon DEF Stage
  <2> QED BY <1>2, <2>1, <2>3, PoliteOnOpen
<1>5. ASSUME Resuming, NEW n \in 0 .. x.response_length, SendsUnits(c, x, n)
      PROVE  PoliteService' /\ ServiceStep
  <2>1. ctx[c].response_length > 0 /\ ~(0 > 0)
    BY <1>1, <1>5 DEF Resuming
  <2>2. /\ sock[c].inq = 0 /\ ctx[c].buffer = <<>> /\ sock[c].asked > 0 /\ ~sock[c].fin
        /\ ctx[c].response = sock[c].asked /\ OwedTo(c) = ctx[c].response_length
    BY <1>2, <2>1, Zenon DEF Stage
  <2> QED BY <1>2, <1>3, <1>5, <2>1, <2>2, PoliteSent DEF NotedIs
<1> QED BY <1>3, <1>4, <1>5

LEMMA PoliteReceives ==
  ASSUME Typed, Events1, PoliteService, johnny_receives
  PROVE  PoliteService' /\ ServiceStep
<1>1. PICK c \in Conns :
        /\ pc = "recv" /\ InHand(c) /\ c = Current /\ backlog' = backlog
        /\ \/ /\ ClosesConnection(c) /\ TakesNextEvent /\ AtTheEnd(c)
              /\ UNCHANGED <<recv_more, ctx>>
           \/ \E n \in 0 .. sock[c].inq : Reads(c, n)
  BY ReceivesIs
<1>2. sock[c].phase = "open" /\ sock[c].rst = "no" /\ Stage(c)
  BY <1>1, InHandIsOpen DEF Events1, PoliteService, Polite
<1>3. CASE ClosesConnection(c) /\ AtTheEnd(c) /\ ctx' = ctx
  <2>1. sock[c].fin /\ OwedTo(c) = 0
    BY <1>2, <1>3 DEF AtTheEnd, Stage
  <2>2. /\ \A d \in Conns \ {c} : sock'[d] = sock[d]
        /\ sock'[c].phase = "closed" /\ SameButPhase(c)
    BY <1>3 DEF ClosesConnection
  <2>3. \A d \in Conns : Polite(d)'
    BY <1>3, <2>2, PoliteKept DEF PoliteService, SameButPhase
  <2>4. \A d \in Conns \ {c} : SameService(d)
    BY <2>2 DEF SameService, StateOf
  <2>5. StateOf(c) = "open" /\ StateOf(c)' = "closed"
    BY <1>2, <2>2 DEF StateOf
  <2>6. ServiceStep
    BY <2>1, <2>2, <2>4, <2>5, StateStep DEF SameButPhase
  <2> QED BY <2>3, <2>6 DEF PoliteService
<1>4. ASSUME NEW n \in 0 .. sock[c].inq, Reads(c, n) PROVE PoliteService' /\ ServiceStep
  <2>1. /\ sock'[c].phase = "open" /\ sock'[c].asked = sock[c].asked
        /\ sock'[c].fin = sock[c].fin /\ sock'[c].out = sock[c].out
        /\ sock'[c].rst = "no" /\ sock'[c].inq = sock[c].inq - n
        /\ ctx'[c].response = ctx[c].response
        /\ ctx'[c].response_length = ctx[c].response_length
        /\ \A d \in Conns \ {c} : sock'[d] = sock[d] /\ ctx'[d] = ctx[d]
        /\ n = 0 => sock[c].inq = 0 /\ ctx'[c].buffer = ctx[c].buffer
        /\ n > 0 => /\ Len(ctx'[c].buffer) = n
                    /\ \A i \in 1 .. n : ctx'[c].buffer[i] = sock[c].asked - sock[c].inq + i
    BY <1>2, <1>4 DEF Reads
  <2>2. OwedTo(c)' = OwedTo(c)
    BY <2>1 DEF OwedTo
  <2>3. sock[c].asked \in Nat /\ sock[c].inq \in Nat
    <3>1. sock[c] \in Socket
      BY DEF Typed, TypeOK
    <3> QED BY <3>1, SocketNumbers
  <2>4. Stage(c)'
    <3>1. CASE n = 0
      <4>1. sock'[c].inq = sock[c].inq /\ ctx'[c].buffer = ctx[c].buffer
        BY <2>1, <2>3, <3>1
      <4> QED BY <1>2, <2>1, <2>2, <4>1, Zenon DEF Stage
    <3>2. CASE n # 0
      <4>1. sock[c].inq # 0
        BY <2>3, <3>2
      <4>2. /\ sock[c].asked > 0 /\ ~sock[c].fin /\ sock[c].inq = 1
            /\ ctx[c].response_length = 0 /\ OwedTo(c) = ResponseLen
        BY <1>2, <4>1, Zenon DEF Stage
      <4>3. n = 1 /\ n > 0 /\ 1 \in 1 .. n
        BY <3>2, <4>2
      <4>4. /\ sock'[c].inq = 0 /\ Len(ctx'[c].buffer) = 1
            /\ ctx'[c].buffer[1] = sock[c].asked - sock[c].inq + 1
        BY <2>1, <4>2, <4>3
      <4>5. ctx'[c].buffer[1] = sock[c].asked
        BY <2>3, <4>2, <4>4
      <4> QED BY <2>1, <2>2, <4>2, <4>4, <4>5 DEF Stage
    <3> QED BY <3>1, <3>2
  <2> QED BY <1>2, <2>1, <2>4, PoliteOnOpen
<1> QED BY <1>1, <1>3, <1>4

LEMMA PoliteSendsResponse ==
  ASSUME Typed, Events1, PoliteService, johnny_sends_response
  PROVE  PoliteService' /\ ServiceStep
<1>1. PICK c \in Conns :
        /\ pc = "serve" /\ InHand(c) /\ c = Current
        /\ UNCHANGED <<backlog, recv_more>> /\ ctx[c].buffer # <<>>
        /\ \/ /\ ClosesConnection(c) /\ TakesNextEvent /\ sock[c].rst # "no"
              /\ ctx' = ctx
           \/ \E x : /\ NextIs(c, x) /\ UNCHANGED <<pc, batch>>
                     /\ \E n \in 0 .. x.response_length : SendsUnits(c, x, n)
  BY SendsResponseIs
<1>2. sock[c].phase = "open" /\ sock[c].rst = "no" /\ Stage(c)
  BY <1>1, InHandIsOpen DEF Events1, PoliteService, Polite
<1>3. PICK x : NextIs(c, x) /\ \E n \in 0 .. x.response_length : SendsUnits(c, x, n)
  BY <1>1, <1>2
<1>4. PICK n \in 0 .. x.response_length : SendsUnits(c, x, n)
  BY <1>3
<1>5. /\ sock[c].inq = 0 /\ sock[c].asked > 0 /\ ~sock[c].fin
      /\ Len(ctx[c].buffer) = 1 /\ ctx[c].buffer[1] = sock[c].asked
      /\ OwedTo(c) = ResponseLen
  BY <1>1, <1>2, Zenon DEF Stage
<1>6. /\ x \in Context /\ x.response = sock[c].asked /\ x.response_length = ResponseLen
      /\ x.buffer \in Seq(1 .. MaxRequests) /\ Len(x.buffer) = 0
  BY <1>3, <1>5 DEF NextIs
<1>7. x.buffer = <<>> /\ x.response_length > 0
  BY <1>6, WorkerAssumption
<1> QED BY <1>2, <1>4, <1>5, <1>6, <1>7, PoliteSent

LEMMA PoliteDrained == Typed /\ PoliteService /\ johnny_drained => PoliteService' /\ ServiceStep
BY DrainedIs, PoliteQuietly

LEMMA PoliteUnchanged == PoliteService /\ UNCHANGED vars => PoliteService' /\ ServiceStep
BY PoliteQuietly DEF vars

LEMMA PoliteNext ==
  ASSUME PoliteClients, Typed, Events1, PoliteService, [Next]_vars
  PROVE  PoliteService' /\ ServiceStep
BY PoliteClient, PoliteEpoll, PoliteAccepts, PoliteResumes, PoliteReceives,
   PoliteSendsResponse, PoliteDrained, PoliteUnchanged DEF Next, johnny_works

(***************************************************************************)
(* For clients that wait for each response, as many as connect at once,    *)
(* the worker is a FileService: what it sends on a connection is at any    *)
(* moment the beginning of the responses to what was asked, and it closes  *)
(* a connection only when the client has finished and has everything.      *)
(***************************************************************************)
THEOREM PoliteClientsGetTheService == PoliteClients => (Spec => ImplementsFileService)
<1> SUFFICES ASSUME PoliteClients PROVE Spec => ImplementsFileService
  OBVIOUS
<1>1. Init => (Typed /\ Events1 /\ PoliteService) /\ Service!Init
  BY TypedInit, Events1Init, PoliteInit
<1>2. (Typed /\ Events1 /\ PoliteService) /\ [Next]_vars =>
        (Typed /\ Events1 /\ PoliteService)' /\ [Service!Next]_(Service!vars)
  BY TypedNext, Events1Next, PoliteNext DEF ServiceStep
<1> QED BY <1>1, <1>2, PTL DEF Spec, ImplementsFileService, Service!Spec

(***************************************************************************)
(* A client that waits for each response is sent whole responses, in the   *)
(* order of its requests: a response that was not fully sent is resumed    *)
(* where it stopped.                                                       *)
(***************************************************************************)
THEOREM PoliteClientsGetWholeResponses == PoliteClients => (Spec => []ResponsesAreWhole)
<1> SUFFICES ASSUME PoliteClients PROVE Spec => []ResponsesAreWhole
  OBVIOUS
<1>1. Init => Typed /\ Events1 /\ PoliteService
  BY TypedInit, Events1Init, PoliteInit
<1>2. (Typed /\ Events1 /\ PoliteService) /\ [Next]_vars =>
        (Typed /\ Events1 /\ PoliteService)'
  BY TypedNext, Events1Next, PoliteNext
<1>3. Typed /\ Events1 /\ PoliteService => ResponsesAreWhole
  <2> SUFFICES ASSUME Typed, PoliteService, NEW c \in Conns, NEW i \in DOMAIN sock[c].out
               PROVE  sock[c].out[i] = Service!Unit(i)
    BY DEF ResponsesAreWhole
  <2>1. sock[c].out \in Seq(Units)
    BY DEF Typed, TypeOK, Socket
  <2> QED BY <2>1 DEF PoliteService, Polite, SentInOrder
<1> QED BY <1>1, <1>2, <1>3, PTL DEF Spec

=============================================================================
