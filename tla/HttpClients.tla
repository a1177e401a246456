---------------------------- MODULE HttpClients -----------------------------
(***************************************************************************)
(* The clients of an HTTP server and the kernel's queue of connections     *)
(* that wait to be accepted: the environment of AsyncServer and            *)
(* SyncServer.  A client may send its requests without waiting for         *)
(* answers, stop sending after any of them, even in the middle of the      *)
(* next, and vanish at any time.                                           *)
(***************************************************************************)
EXTENDS Http

VARIABLES
  client,    \* away, open, shut (no more to come), reset
  sent,      \* how much of its script each client has sent
  backlog    \* connections waiting to be accepted, oldest first

clientVars == <<client, sent, backlog>>

ClientsTypeOK ==
  /\ client \in [Clients -> {"away", "open", "shut", "reset"}]
  /\ sent \in [Clients -> Nat]
  /\ \A c \in Clients : sent[c] <= Len(Script[c])
  /\ backlog \in Seq(Clients)

ClientsInit ==
  /\ client = [c \in Clients |-> "away"]
  /\ sent = [c \in Clients |-> 0]
  /\ backlog = <<>>

Connect(c) ==
  /\ client[c] = "away"
  /\ client' = [client EXCEPT ![c] = "open"]
  /\ backlog' = Append(backlog, c)
  /\ UNCHANGED sent

Send(c) ==
  /\ client[c] = "open"
  /\ sent[c] < Len(Script[c])
  /\ sent' = [sent EXCEPT ![c] = @ + 1]
  /\ UNCHANGED <<client, backlog>>

Shut(c) ==
  /\ client[c] = "open"
  /\ client' = [client EXCEPT ![c] = "shut"]
  /\ UNCHANGED <<sent, backlog>>

Vanish(c) ==
  /\ client[c] \in {"open", "shut"}
  /\ client' = [client EXCEPT ![c] = "reset"]
  /\ UNCHANGED <<sent, backlog>>

ClientStep(c) == Send(c) \/ Shut(c) \/ Vanish(c)

(***************************************************************************)
(* How a read of the next request may end when n have been read.  What the *)
(* client sent before it vanished may still be in the buffer, or be lost.  *)
(***************************************************************************)
MayArrive(c, n) == n < sent[c] /\ Script[c][n + 1].method # "malformed"
MayEnd(c, n) == client[c] = "shut" /\ n = sent[c]
MayFail(c, n) ==
  \/ client[c] = "reset"
  \/ n < sent[c] /\ Script[c][n + 1].method = "malformed"
  \/ MayEnd(c, n) /\ sent[c] < Len(Script[c])
=============================================================================
