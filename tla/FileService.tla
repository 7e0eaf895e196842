----------------------------- MODULE FileService -----------------------------
(***************************************************************************)
(* What a Johnny worker promises a client that waits for each response and *)
(* finishes only when it has them all, and nothing of how: a connection is *)
(* accepted once, what is sent on it is at any moment the beginning of the *)
(* responses to what was asked, one after the other, and it is closed only *)
(* after the client has finished and been sent everything it asked for.    *)
(* JohnnyWorker implements it (ImplementsFileService there).               *)
(***************************************************************************)
EXTENDS Integers, Sequences

CONSTANTS Conns, MaxRequests, ResponseLen

VARIABLES
  state,    \* [connection -> "idle", "waiting", "open" or "closed"]
  asked,    \* [connection -> number of requests sent by the client]
  finished, \* [connection -> whether the client has finished]
  sent      \* [connection -> sequence of <<request, unit>> sent by the server]

vars == <<state, asked, finished, sent>>

\* Unit i of all the responses of a connection, one after the other.
Unit(i) == <<(i - 1) \div ResponseLen + 1, ((i - 1) % ResponseLen) + 1>>

Owed(c) == asked[c] * ResponseLen - Len(sent[c])

Init ==
  /\ state = [c \in Conns |-> "idle"]
  /\ asked = [c \in Conns |-> 0]
  /\ finished = [c \in Conns |-> FALSE]
  /\ sent = [c \in Conns |-> <<>>]

Connect(c) ==
  /\ state[c] = "idle"
  /\ state' = [state EXCEPT ![c] = "waiting"]
  /\ UNCHANGED <<asked, finished, sent>>

Accept(c) ==
  /\ state[c] = "waiting"
  /\ state' = [state EXCEPT ![c] = "open"]
  /\ UNCHANGED <<asked, finished, sent>>

Ask(c) ==
  /\ state[c] \in {"waiting", "open"}
  /\ ~finished[c]
  /\ asked[c] < MaxRequests
  /\ Owed(c) = 0
  /\ asked' = [asked EXCEPT ![c] = @ + 1]
  /\ UNCHANGED <<state, finished, sent>>

Answer(c) ==
  /\ state[c] = "open"
  /\ \E n \in 1 .. Owed(c) :
       sent' = [sent EXCEPT ![c] = @ \o [i \in 1 .. n |-> Unit(Len(@) + i)]]
  /\ UNCHANGED <<state, asked, finished>>

Finish(c) ==
  /\ state[c] \in {"waiting", "open"}
  /\ ~finished[c]
  /\ Owed(c) = 0
  /\ finished' = [finished EXCEPT ![c] = TRUE]
  /\ UNCHANGED <<state, asked, sent>>

Close(c) ==
  /\ state[c] = "open"
  /\ finished[c]
  /\ Owed(c) = 0
  /\ state' = [state EXCEPT ![c] = "closed"]
  /\ UNCHANGED <<asked, finished, sent>>

Next == \E c \in Conns :
  \/ Connect(c) \/ Accept(c) \/ Ask(c) \/ Answer(c) \/ Finish(c) \/ Close(c)

Spec == Init /\ [][Next]_vars

=============================================================================
