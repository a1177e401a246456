---------------------------- MODULE HttpExchange ----------------------------
(***************************************************************************)
(* What an HTTP server promises its clients, whatever threads and handlers *)
(* it is made of: on each connection requests are answered one by one in   *)
(* the order in which they were sent, each with the answer it is due;      *)
(* nothing follows an answer that ends the connection; and a connection is *)
(* closed in good order only when its client was told so or has had an     *)
(* answer to all it sent.  Any connection may break at any time.           *)
(***************************************************************************)
EXTENDS Http

VARIABLES
  sent,      \* how much of its script each client has sent
  answers,   \* the answers each client has had
  phase      \* each connection: waiting, open, closed, broken

vars == <<sent, answers, phase>>

TypeOK ==
  /\ sent \in [Clients -> Nat]
  /\ answers \in [Clients -> Seq(Responses)]
  /\ phase \in [Clients -> {"waiting", "open", "closed", "broken"}]

Init ==
  /\ sent = [c \in Clients |-> 0]
  /\ answers = [c \in Clients |-> <<>>]
  /\ phase = [c \in Clients |-> "waiting"]

\* The answer r is the one that the request req is due.
IsAnswer(req, r) ==
  /\ r.keep_alive = req.keep_alive
  /\ r.status = "ok" <=> req.method \in {"get", "head"}
  /\ r.allow <=> r.status = "method_not_allowed"
  /\ r.status = "ok" => r.content_length = req.target
  /\ req.method = "head" <=> r.body = ""
  /\ r.body # "" => r.content_length = r.body

KeptAlive(c) == \A i \in DOMAIN answers[c] : answers[c][i].keep_alive

Send(c) ==
  /\ sent[c] < Len(Script[c])
  /\ sent' = [sent EXCEPT ![c] = @ + 1]
  /\ UNCHANGED <<answers, phase>>

Open(c) ==
  /\ phase[c] = "waiting"
  /\ phase' = [phase EXCEPT ![c] = "open"]
  /\ UNCHANGED <<sent, answers>>

Answer(c) ==
  /\ phase[c] = "open"
  /\ KeptAlive(c)
  /\ Len(answers[c]) < sent[c]
  /\ \E r \in Responses :
       /\ IsAnswer(Script[c][Len(answers[c]) + 1], r)
       /\ answers' = [answers EXCEPT ![c] = Append(@, r)]
  /\ UNCHANGED <<sent, phase>>

Close(c) ==
  /\ phase[c] = "open"
  /\ KeptAlive(c) => Len(answers[c]) = sent[c]
  /\ phase' = [phase EXCEPT ![c] = "closed"]
  /\ UNCHANGED <<sent, answers>>

Break(c) ==
  /\ phase[c] = "open"
  /\ phase' = [phase EXCEPT ![c] = "broken"]
  /\ UNCHANGED <<sent, answers>>

Next == \E c \in Clients : Send(c) \/ Open(c) \/ Answer(c) \/ Close(c) \/ Break(c)

Spec == Init /\ [][Next]_vars

(***************************************************************************)
(* Each answer a client has had is the one that the request in its place   *)
(* is due, however many requests it sent ahead, and an answer that ends    *)
(* the connection is the last.                                             *)
(***************************************************************************)
AnsweredInTurn ==
  \A c \in Clients :
    /\ Len(answers[c]) <= sent[c]
    /\ \A i \in DOMAIN answers[c] :
         /\ IsAnswer(Script[c][i], answers[c][i])
         /\ i < Len(answers[c]) => answers[c][i].keep_alive
=============================================================================
