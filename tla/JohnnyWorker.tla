---------------------------- MODULE JohnnyWorker ----------------------------
(***************************************************************************)
(* One Johnny worker thread (johnny_worker.c): the loop that waits on an   *)
(* edge-triggered epoll instance, accepts connections, receives requests   *)
(* and sends responses without blocking, together with what it works       *)
(* against: the clients, and the kernel's sockets and epoll ready list.    *)
(* The workers of different cores share only the read-only file table, so  *)
(* one of them is the whole system as far as a connection is concerned.    *)
(*                                                                         *)
(* Every system call is a step of its own: clients and kernel run between  *)
(* any two of them.  A receive buffer holds whole requests, numbered in    *)
(* the order the client sends them (RequestParser models how they are cut  *)
(* out of the byte stream), and a response is ResponseLen units long.      *)
(***************************************************************************)
EXTENDS Integers, Sequences, FiniteSets, FiniteSetsExt, Functions, SequencesExt

CONSTANTS
  Conns,                \* connections the clients may open
  Listener,             \* the listening socket
  MaxRequests,          \* bound: requests of one connection
  ResponseLen,          \* length of a response
  SendBuffer,           \* what a socket's send buffer holds
  JOHNNY_BUFFER_SIZE,   \* requests one recv may return
  JOHNNY_EVENTS_BUFFER, \* events one epoll_wait may return
  MaxFds,               \* connections the descriptor limit allows
  Clients               \* what clients may do beyond the polite minimum

Behaviours == {"pipelines", "half-closes", "resets", "bursts"}

ASSUME WorkerAssumption ==
  /\ IsFiniteSet(Conns)
  /\ Listener \notin Conns
  /\ MaxRequests \in Nat
  /\ {ResponseLen, SendBuffer, JOHNNY_BUFFER_SIZE, JOHNNY_EVENTS_BUFFER, MaxFds}
       \subseteq Nat \ {0}
  /\ Clients \subseteq Behaviours

VARIABLES
  sock,      \* [connection -> its socket, as client and kernel see it]
  backlog,   \* connections waiting for accept4
  ready,     \* epoll's ready list
  pc,        \* where johnny_works is
  batch,     \* the events of ev_buf that are not handled yet
  recv_more, \* the local variable of johnny_works
  ctx        \* [connection -> its connection_context]

kernel == <<sock, backlog, ready>>
vars == <<sock, backlog, ready, pc, batch, recv_more, ctx>>

Events == {"IN", "OUT", "RDHUP"}

\* Bits of ctx->flags by position: EPOLLRDHUP is 0x2000, JOHNNY_CTX_RDHUP is 4.
EPOLLRDHUP == 13
JOHNNY_CTX_RDHUP == 2

Units == (1 .. MaxRequests) \X (1 .. ResponseLen)

Socket ==
  [phase   : {"idle", "backlog", "open", "closed"},
   asked   : 0 .. MaxRequests,             \* requests the client has sent
   inq     : 0 .. MaxRequests,             \* of which the worker has not read
   fin     : BOOLEAN,                      \* the client's end of stream is here
   rst     : {"no", "pending", "reported"}, \* the client's reset is here
   out     : Seq(Units),                   \* all the worker ever sent
   taken   : Nat,                          \* how much of it the client has
   nospace : BOOLEAN]                      \* SOCK_NOSPACE: space makes an event

Context ==
  [flags           : SUBSET {EPOLLRDHUP},
   response        : 0 .. MaxRequests,     \* whose response is being sent
   response_length : 0 .. ResponseLen,     \* how much of it is left
   buffer          : Seq(1 .. MaxRequests)]

TypeOK ==
  /\ sock \in [Conns -> Socket]
  /\ backlog \in Seq(Conns)
  /\ ready \in Seq(Conns \cup {Listener})
  /\ pc \in {"wait", "event", "recv", "serve"}
  /\ batch \in Seq([item : Conns \cup {Listener}, mask : SUBSET Events])
  /\ recv_more \in BOOLEAN
  /\ ctx \in [Conns -> Context]

FreshContext ==
  [flags |-> {}, response |-> 0, response_length |-> 0, buffer |-> <<>>]

Init ==
  /\ sock = [c \in Conns |->
       [phase |-> "idle", asked |-> 0, inq |-> 0, fin |-> FALSE, rst |-> "no",
        out |-> <<>>, taken |-> 0, nospace |-> FALSE]]
  /\ backlog = <<>>
  /\ ready = <<>>
  /\ pc = "wait"
  /\ batch = <<>>
  /\ recv_more = FALSE
  /\ ctx = [c \in Conns |-> FreshContext]

Open == {c \in Conns : sock[c].phase = "open"}
Space(c) == SendBuffer - (Len(sock[c].out) - sock[c].taken)

-----------------------------------------------------------------------------
(* The kernel and the clients. *)

\* An edge: the item goes to the end of the ready list unless it is on it.
Queue(x) == IF x \in Range(ready) THEN ready ELSE Append(ready, x)

\* The ready list without c, which is on it once at most.
Dequeue(c) ==
  IF c \in Range(ready) THEN RemoveAt(ready, CHOOSE i \in DOMAIN ready : ready[i] = c)
                         ELSE ready

\* An edge of a connection's socket, which counts once epoll watches it.
Wake(c) == ready' = IF c \in Open THEN Queue(c) ELSE ready

\* What a socket reports when it is polled.
Mask(x) ==
  IF x = Listener
  THEN {e \in {"IN"} : backlog # <<>>}
  ELSE LET s == sock[x]
           over == s.fin \/ s.rst # "no"
       IN  {e \in {"IN"}    : s.inq > 0 \/ over} \cup
           {e \in {"OUT"}   : Space(x) > 0 \/ s.rst # "no"} \cup
           {e \in {"RDHUP"} : over}

Pollable(x) == Mask(x) # {}

Connected(c) ==
  /\ sock[c].phase \in {"backlog", "open"}
  /\ ~sock[c].fin
  /\ sock[c].rst = "no"

Answered(c) == sock[c].taken = sock[c].asked * ResponseLen

Connect(c) ==
  /\ sock[c].phase = "idle"
  /\ "bursts" \in Clients \/ backlog = <<>>
  /\ sock' = [sock EXCEPT ![c].phase = "backlog"]
  /\ backlog' = Append(backlog, c)
  /\ ready' = Queue(Listener)

Ask(c) ==
  /\ Connected(c)
  /\ sock[c].asked < MaxRequests
  /\ "pipelines" \in Clients \/ Answered(c)
  /\ sock' = [sock EXCEPT ![c].asked = @ + 1, ![c].inq = @ + 1]
  /\ Wake(c)
  /\ UNCHANGED backlog

\* The client reads the next unit; a sender that ran out of space is told.
Take(c) ==
  /\ sock[c].taken < Len(sock[c].out)
  /\ sock[c].rst = "no"
  /\ sock' = [sock EXCEPT ![c].taken = @ + 1, ![c].nospace = FALSE]
  /\ IF sock[c].nospace THEN Wake(c) ELSE UNCHANGED ready
  /\ UNCHANGED backlog

Finish(c) ==
  /\ Connected(c)
  /\ "half-closes" \in Clients \/ Answered(c)
  /\ sock' = [sock EXCEPT ![c].fin = TRUE]
  /\ Wake(c)
  /\ UNCHANGED backlog

Reset(c) ==
  /\ "resets" \in Clients
  /\ sock[c].phase \in {"backlog", "open"}
  /\ sock[c].rst = "no"
  /\ sock' = [sock EXCEPT ![c].rst = "pending"]
  /\ Wake(c)
  /\ UNCHANGED backlog

Client(c) ==
  /\ Connect(c) \/ Ask(c) \/ Take(c) \/ Finish(c) \/ Reset(c)
  /\ UNCHANGED <<pc, batch, recv_more, ctx>>

-----------------------------------------------------------------------------
(* The worker. *)

Current == Head(batch).item

\* The end of the loop body for the current event.
NextEvent ==
  /\ batch' = Tail(batch)
  /\ pc' = IF Tail(batch) = <<>> THEN "wait" ELSE "event"

\* Mutant: the descriptor stays on the epoll instance.
ClosesUnderEpoll(c) ==
  /\ sock' = [sock EXCEPT ![c].phase = "closed"]
  /\ UNCHANGED ready

\* close(fd) takes the descriptor off the epoll instance; the context is freed.
johnny_closes_connection(c) ==
  /\ sock' = [sock EXCEPT ![c].phase = "closed"]
  /\ ready' = Dequeue(c)

(***************************************************************************)
(* johnny_sends_bytes for the context x of c: send takes what fits; a      *)
(* short or refused send leaves the rest for the next EPOLLOUT.  It fails  *)
(* on a connection that was reset.                                         *)
(***************************************************************************)
SendFails(c) == sock[c].rst # "no"

\* n units of the response of x from its unit `first' are sent.
Sends(c, x, first, n) ==
  /\ ~SendFails(c)
  /\ sock' = [sock EXCEPT
       ![c].out = @ \o [i \in 1 .. n |-> <<x.response, first + i - 1>>],
       ![c].nospace = @ \/ n < x.response_length]
  /\ ctx' = [ctx EXCEPT ![c] = [x EXCEPT !.response_length = @ - n]]
  /\ UNCHANGED ready

\* Mutant: ctx->response is not advanced.
SendsFromTheStart(c, x) == Sends(c, x, 1, Min({x.response_length, Space(c)}))

\* Mutant: the -1 of a refused send is taken for a number of bytes.
SendsUnchecked(c, x) ==
  Sends(c, x, ResponseLen - x.response_length + 1,
        IF Space(c) = 0 THEN -1 ELSE Min({x.response_length, Space(c)}))

johnny_sends_bytes(c, x) ==
  Sends(c, x, ResponseLen - x.response_length + 1, Min({x.response_length, Space(c)}))

(***************************************************************************)
(* epoll_wait returns the events of the first items of the ready list that *)
(* have any, at most JOHNNY_EVENTS_BUFFER; every item it has looked at     *)
(* leaves the list (EPOLLET), and polling a full socket asks for an edge   *)
(* when there is space again.                                              *)
(***************************************************************************)
Deliverable(k) == {j \in 1 .. k : Pollable(ready[j])}

\* The enumerations of a set of indices in their order.
InOrder(S) ==
  {f \in Bijection(1 .. Cardinality(S), S) : \A i, j \in DOMAIN f : i < j => f[i] < f[j]}

epoll_wait ==
  /\ pc = "wait"
  /\ \E k \in DOMAIN ready : \E at \in InOrder(Deliverable(k)) :
       /\ k = Len(ready) \/ Len(at) = JOHNNY_EVENTS_BUFFER
       /\ Cardinality(Deliverable(k - 1)) < JOHNNY_EVENTS_BUFFER
       /\ ready' = SubSeq(ready, k + 1, Len(ready))
       /\ batch' = [i \in DOMAIN at |-> [item |-> ready[at[i]], mask |-> Mask(ready[at[i]])]]
       /\ pc' = IF at = <<>> THEN "wait" ELSE "event"
       /\ sock' = [c \in Conns |->
            IF (\E j \in 1 .. k : ready[j] = c) /\ Space(c) <= 0
            THEN [sock[c] EXCEPT !.nospace = TRUE]
            ELSE sock[c]]
  /\ UNCHANGED <<backlog, recv_more, ctx>>

\* johnny_works on the listening socket: one accept4 for the event.  It
\* fails, and nothing happens, when the descriptors have run out.
johnny_accepts ==
  /\ pc = "event"
  /\ Current = Listener
  /\ \/ /\ backlog = <<>> \/ Cardinality(Open) >= MaxFds
        /\ UNCHANGED <<kernel, ctx>>
     \/ /\ backlog # <<>>
        /\ Cardinality(Open) < MaxFds
        /\ LET c == Head(backlog)
           IN  /\ backlog' = Tail(backlog)
               /\ sock' = [sock EXCEPT ![c].phase = "open"]
               /\ ctx' = [ctx EXCEPT ![c] = FreshContext]
               /\ ready' = Queue(c)   \* a new connection is writable
  /\ NextEvent
  /\ UNCHANGED recv_more

(***************************************************************************)
(* johnny_works on an event of a connection: note the peer's shutdown,     *)
(* resume a response that was not fully sent, then go on to receive.       *)
(***************************************************************************)
NotedContext ==
  [ctx[Current] EXCEPT
     !.flags = @ \cup {b \in {EPOLLRDHUP} : "RDHUP" \in Head(batch).mask}]

\* Mutant: a connection that is also readable is only read.
ResumingUnlessReadable ==
  /\ Head(batch).mask = {"OUT"}
  /\ ctx[Current].response_length > 0

\* Mutant: a response that was sent in part counts as sent.
ResumingUnstarted ==
  /\ "OUT" \in Head(batch).mask
  /\ ctx[Current].response_length = ResponseLen

Resuming ==
  /\ "OUT" \in Head(batch).mask
  /\ ctx[Current].response_length > 0

\* Mutant: a peer that has shut down is not read from any more.
ReceivingUnlessFinished ==
  /\ "IN" \in Head(batch).mask
  /\ "RDHUP" \notin Head(batch).mask
  /\ ctx[Current].buffer = <<>>

Receiving ==
  /\ "IN" \in Head(batch).mask
  /\ ctx[Current].buffer = <<>>

johnny_resumes ==
  /\ pc = "event"
  /\ Current # Listener
  /\ \/ /\ Resuming /\ SendFails(Current)
        /\ johnny_closes_connection(Current)
        /\ NextEvent
        /\ UNCHANGED <<recv_more, ctx>>
     \/ /\ \/ Resuming /\ johnny_sends_bytes(Current, NotedContext)
           \/ /\ ~Resuming
              /\ ctx' = [ctx EXCEPT ![Current] = NotedContext]
              /\ UNCHANGED <<sock, ready>>
        /\ recv_more' = Receiving
        /\ IF recv_more' \/ ctx[Current].buffer # <<>>
           THEN /\ pc' = IF recv_more' THEN "recv" ELSE "serve"
                /\ UNCHANGED batch
           ELSE NextEvent
  /\ UNCHANGED backlog

\* Mutant: nothing to read counts as the end of the stream.
johnny_receives_or_closes ==
  /\ pc = "recv"
  /\ LET c == Current
         s == sock[c]
         n == Min({s.inq, JOHNNY_BUFFER_SIZE})
     IN  \/ /\ s.inq > 0
            /\ sock' = [sock EXCEPT ![c].inq = @ - n]
            /\ ctx' = [ctx EXCEPT ![c].buffer = [i \in 1 .. n |-> s.asked - s.inq + i]]
            /\ recv_more' = (n = JOHNNY_BUFFER_SIZE)
            /\ pc' = "serve"
            /\ UNCHANGED <<ready, batch>>
         \/ /\ s.inq = 0
            /\ johnny_closes_connection(c)
            /\ NextEvent
            /\ UNCHANGED <<recv_more, ctx>>
  /\ UNCHANGED backlog

\* One recv: data while there is any, else the end of the stream, else -1
\* (nothing to read, or the reset, which is reported once).
johnny_receives ==
  /\ pc = "recv"
  /\ LET c == Current
         s == sock[c]
         n == Min({s.inq, JOHNNY_BUFFER_SIZE})
     IN  \/ /\ s.inq > 0
            /\ sock' = [sock EXCEPT ![c].inq = @ - n]
            /\ ctx' = [ctx EXCEPT ![c].buffer = [i \in 1 .. n |-> s.asked - s.inq + i]]
            /\ recv_more' = (n = JOHNNY_BUFFER_SIZE)
            /\ pc' = "serve"
            /\ UNCHANGED <<ready, batch>>
         \/ /\ s.inq = 0
            /\ s.fin \/ s.rst = "reported"
            /\ johnny_closes_connection(c)
            /\ NextEvent
            /\ UNCHANGED <<recv_more, ctx>>
         \/ /\ s.inq = 0 /\ ~s.fin /\ s.rst # "reported"
            /\ sock' = [sock EXCEPT ![c].rst = IF @ = "pending" THEN "reported" ELSE @]
            /\ recv_more' = FALSE
            /\ pc' = "serve"
            /\ UNCHANGED <<ready, batch, ctx>>
  /\ UNCHANGED backlog

\* The context of c with the next request of the buffer to be answered.
NextResponse(c) ==
  [ctx[c] EXCEPT !.response = Head(ctx[c].buffer),
                 !.response_length = ResponseLen,
                 !.buffer = Tail(ctx[c].buffer)]

\* Mutant: the requests left in the buffer wait while a response is not sent.
johnny_sends_response_and_waits ==
  /\ pc = "serve"
  /\ ctx[Current].buffer # <<>>
  /\ johnny_sends_bytes(Current, NextResponse(Current))
  /\ IF ctx'[Current].response_length > 0 THEN NextEvent ELSE UNCHANGED <<pc, batch>>
  /\ UNCHANGED <<backlog, recv_more>>

\* johnny_handles_requests, one request of the buffer at a time: its
\* response becomes the context's response and as much as fits is sent.
johnny_sends_response ==
  /\ pc = "serve"
  /\ ctx[Current].buffer # <<>>
  /\ \/ /\ johnny_sends_bytes(Current, NextResponse(Current))
        /\ UNCHANGED <<pc, batch>>
     \/ /\ SendFails(Current)
        /\ johnny_closes_connection(Current)
        /\ NextEvent
        /\ UNCHANGED ctx
  /\ UNCHANGED <<backlog, recv_more>>

\* Mutant: one recv for each event.
johnny_drained_once ==
  /\ pc = "serve"
  /\ ctx[Current].buffer = <<>>
  /\ NextEvent
  /\ UNCHANGED <<sock, ready, backlog, recv_more, ctx>>

\* The buffer is drained: close after the last request, or receive again.
johnny_drained ==
  /\ pc = "serve"
  /\ ctx[Current].buffer = <<>>
  /\ IF recv_more
     THEN /\ pc' = "recv"
          /\ UNCHANGED <<sock, ready, batch>>
     ELSE /\ NextEvent
          /\ IF JOHNNY_CTX_RDHUP \in ctx[Current].flags /\ ctx[Current].response_length = 0
             THEN johnny_closes_connection(Current)
             ELSE UNCHANGED <<sock, ready>>
  /\ UNCHANGED <<backlog, recv_more, ctx>>

johnny_works ==
  \/ epoll_wait
  \/ johnny_accepts
  \/ johnny_resumes
  \/ johnny_receives
  \/ johnny_sends_response
  \/ johnny_drained

Next == johnny_works \/ \E c \in Conns : Client(c)

Spec == Init /\ [][Next]_vars

\* The worker thread is scheduled and clients read what they are sent.
FairSpec ==
  /\ Spec
  /\ WF_vars(johnny_works)
  /\ \A c \in Conns : WF_vars(Take(c) /\ UNCHANGED <<pc, batch, recv_more, ctx>>)

-----------------------------------------------------------------------------
(* What the worker gets right. *)

Pending(c) == {i \in DOMAIN batch : batch[i].item = c}
Watched == Open \cup {Listener}

(***************************************************************************)
(* The worker never touches a context it has freed: every event in hand    *)
(* and every item epoll still lists is of an open connection, and no       *)
(* connection has two events in one batch, of which the second could       *)
(* outlive the connection.                                                 *)
(***************************************************************************)
EventsAreOfOpenConnections ==
  /\ Range(ready) \subseteq Watched
  /\ \A i \in DOMAIN batch : batch[i].item \in Watched
  /\ \A x \in Watched : Cardinality(Pending(x)) <= 1
  /\ pc \in {"recv", "serve"} => batch # <<>> /\ Current # Listener

(***************************************************************************)
(* No edge is lost on the way in: a request the worker has not read is     *)
(* still announced by epoll, by an event in hand, or by the receive loop,  *)
(* which only a short read or an error may leave.                          *)
(***************************************************************************)
UnreadIsScheduled ==
  \A c \in Open : sock[c].inq > 0 =>
    \/ c \in Range(ready)
    \/ \E i \in Pending(c) :
         \/ i > 1 /\ "IN" \in batch[i].mask
         \/ i = 1 /\ \/ pc = "event" /\ "IN" \in batch[i].mask
                     \/ pc = "recv"
                     \/ pc = "serve" /\ recv_more

(***************************************************************************)
(* No edge is lost on the way out: while a response is not fully sent, the *)
(* kernel owes the worker an EPOLLOUT, or the worker has it in hand.       *)
(***************************************************************************)
UnsentIsScheduled ==
  \A c \in Open : ctx[c].response_length > 0 =>
    \/ sock[c].nospace
    \/ c \in Range(ready)
    \/ \E i \in Pending(c) : "OUT" \in batch[i].mask /\ (i = 1 => pc = "event")

(***************************************************************************)
(* Between two events the receive buffer of every connection is empty.  So *)
(* there is never a handling of requests to resume: the last branch of     *)
(* johnny_works is dead code.                                              *)
(***************************************************************************)
NothingToResume ==
  pc \in {"wait", "event"} => \A c \in Open : ctx[c].buffer = <<>>

(***************************************************************************)
(* However sends are cut short, refused and resumed, and whatever the      *)
(* client does, a response is never repeated, never sent before an earlier *)
(* one and never begun or continued in the middle.                         *)
(***************************************************************************)
ResponsesInOrder ==
  \A c \in Conns : \A i \in DOMAIN sock[c].out :
    LET u == sock[c].out[i]
    IN  \/ u[2] = 1 /\ (i > 1 => sock[c].out[i - 1][1] < u[1])
        \/ i > 1 /\ sock[c].out[i - 1] = <<u[1], u[2] - 1>>

(***************************************************************************)
(* Nobody is hung up on: the worker closes a connection only if its client *)
(* has reset it, or has ended its stream and every request before the end  *)
(* has been read and is being answered.  A recv or a send that would block *)
(* never costs a connection.                                               *)
(***************************************************************************)
ClosesOnlyWhen ==
  [][\A c \in Open : sock'[c].phase = "closed" =>
       \/ sock[c].rst # "no"
       \/ sock[c].fin /\ sock[c].inq = 0 /\ ctx[c].buffer = <<>>]_vars

(***************************************************************************)
(* Every request on an accepted connection is answered in full, to a       *)
(* client that reads what it is sent.                                      *)
(***************************************************************************)
RequestsAreAnswered ==
  \A c \in Conns : \A n \in 1 .. MaxRequests :
    sock[c].asked = n /\ c \in Open ~> sock[c].taken = n * ResponseLen

(***************************************************************************)
(* The end of a client's stream eventually frees its context and           *)
(* descriptor.                                                             *)
(***************************************************************************)
FinishedAreClosed ==
  \A c \in Conns : sock[c].fin /\ c \in Open ~> sock[c].phase = "closed"

(***************************************************************************)
(* With polite clients the worker implements FileService: sends that are   *)
(* cut short, edges, batches and buffers are invisible in what is sent and *)
(* when connections are accepted and closed.                               *)
(***************************************************************************)
Service == INSTANCE FileService WITH
  state    <- [c \in Conns |-> IF sock[c].phase = "backlog" THEN "waiting"
                                                            ELSE sock[c].phase],
  asked    <- [c \in Conns |-> sock[c].asked],
  finished <- [c \in Conns |-> sock[c].fin],
  sent     <- [c \in Conns |-> sock[c].out]

ImplementsFileService == Service!Spec

-----------------------------------------------------------------------------
(* What the code's comments say of it, and a run refutes. *)

(***************************************************************************)
(* "resume sending" if a response had not been fully sent: what a client   *)
(* is sent is the responses it asked for, whole and in order, even if it   *)
(* asks again before it has them.                                          *)
(***************************************************************************)
ResponsesAreWhole ==
  \A c \in Conns : \A i \in DOMAIN sock[c].out :
    sock[c].out[i] = Service!Unit(i)

(***************************************************************************)
(* "close if failure or last request has been handled": when the worker    *)
(* goes to sleep, a connection whose client has finished and whose last    *)
(* response is sent is closed, or epoll still has an event to close it on. *)
(***************************************************************************)
LastRequestHandledCloses ==
  pc = "wait" =>
    \A c \in Open :
      sock[c].fin /\ sock[c].inq = 0 /\ ctx[c].response_length = 0
        => c \in Range(ready)

=============================================================================
