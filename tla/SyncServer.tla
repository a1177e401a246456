----------------------------- MODULE SyncServer -----------------------------
(***************************************************************************)
(* sync_server/solution/src/main.cpp: main accepts connections one after   *)
(* another and gives each to a detached thread, which reads a request,     *)
(* writes the answer and goes on until the connection ends.                *)
(*                                                                         *)
(* A thread touches nothing but its own socket and buffer.  The state of a *)
(* thread is the blocking call it is in; an action is the call's return    *)
(* and everything up to the next call.  No call has a time limit.          *)
(***************************************************************************)
EXTENDS HttpClients

CONSTANT AcceptMayFail

ASSUME SyncServerAssumption == AcceptMayFail \in BOOLEAN

VARIABLES
  thread,     \* what each connection's thread is doing
  taken,      \* requests the thread has read
  response,   \* the answer being written
  answers,    \* the answers written to each connection
  program     \* running or terminated

serverVars == <<thread, taken, response, answers, program>>
vars == <<clientVars, serverVars>>

\* done: out of the loop; caught: in the catch clause; closed and broken:
\* HandleConnection has returned from the one or the other.
ThreadStates ==
  {"none", "reading", "writing", "done", "caught", "closed", "broken"}
NoResponse == [status |-> "none"]

TypeOK ==
  /\ ClientsTypeOK
  /\ thread \in [Clients -> ThreadStates]
  /\ taken \in [Clients -> Nat]
  /\ response \in [Clients -> Responses \cup {NoResponse}]
  /\ answers \in [Clients -> Seq(Responses)]
  /\ program \in {"running", "terminated"}

Init ==
  /\ ClientsInit
  /\ thread = [c \in Clients |-> "none"]
  /\ taken = [c \in Clients |-> 0]
  /\ response = [c \in Clients |-> NoResponse]
  /\ answers = [c \in Clients |-> <<>>]
  /\ program = "running"

\* This server's HandleRequest is the same text as the asynchronous one's.
handle_request(req) == HandleRequest(req)

-----------------------------------------------------------------------------
\* main: accept returns a socket and a thread is started on it.
Accept ==
  /\ program = "running"
  /\ backlog # <<>>
  /\ backlog' = Tail(backlog)
  /\ thread' = [thread EXCEPT ![Head(backlog)] = "reading"]
  /\ UNCHANGED <<client, sent, taken, response, answers, program>>

\* main: accept, or the thread's constructor, throws, and nobody catches.
AcceptThrows ==
  /\ AcceptMayFail
  /\ program = "running"
  /\ program' = "terminated"
  /\ UNCHANGED <<clientVars, thread, taken, response, answers>>

Goes(c, from, to) ==
  /\ program = "running"
  /\ thread[c] = from
  /\ thread' = [thread EXCEPT ![c] = to]
  /\ UNCHANGED <<clientVars, program>>

\* ReadRequest returns a request; handle_request makes the answer to it.
ReadReturns(c) ==
  /\ Goes(c, "reading", "writing")
  /\ MayArrive(c, taken[c])
  /\ taken' = [taken EXCEPT ![c] = @ + 1]
  /\ response' = [response EXCEPT ![c] = handle_request(Script[c][taken[c] + 1])]
  /\ UNCHANGED answers

\* ReadRequest returns nullopt at the end of the stream.
ReadEnds(c) ==
  /\ Goes(c, "reading", "done")
  /\ MayEnd(c, taken[c])
  /\ UNCHANGED <<taken, response, answers>>

\* ReadRequest throws, HandleConnection catches.
ReadThrows(c) ==
  /\ Goes(c, "reading", "caught")
  /\ MayFail(c, taken[c])
  /\ UNCHANGED <<taken, response, answers>>

\* Mutant: need_eof is read the wrong way round.
AfterWrite_Inverted(r) == IF NeedEof(r) THEN "reading" ELSE "done"

\* Mutant: the loop stops after every answer.
AfterWrite_OnlyOne(r) == "done"

\* The loop of HandleConnection after a response has been sent.
AfterWrite(r) == IF NeedEof(r) THEN "done" ELSE "reading"

\* http::write returns.
WriteReturns(c) ==
  /\ Goes(c, "writing", AfterWrite(response[c]))
  /\ client[c] # "reset"
  /\ answers' = [answers EXCEPT ![c] = Append(@, response[c])]
  /\ UNCHANGED <<taken, response>>

\* http::write throws.
WriteThrows(c) ==
  /\ Goes(c, "writing", "caught")
  /\ client[c] = "reset"
  /\ UNCHANGED <<taken, response, answers>>

\* HandleConnection shuts the socket down and the thread ends.
Shutdown(c) ==
  /\ \/ Goes(c, "done", "closed")
     \/ Goes(c, "caught", "broken")
  /\ UNCHANGED <<taken, response, answers>>

-----------------------------------------------------------------------------
ClientActs(c) ==
  /\ program = "running"
  /\ Connect(c) \/ ClientStep(c)
  /\ UNCHANGED serverVars

ThreadStep(c) ==
  \/ ReadReturns(c)
  \/ ReadEnds(c)
  \/ ReadThrows(c)
  \/ WriteReturns(c)
  \/ WriteThrows(c)
  \/ Shutdown(c)

Quiet ==
  /\ program = "terminated" \/ \A c \in Clients : thread[c] \in {"closed", "broken"}
  /\ UNCHANGED vars

Next ==
  \/ Accept
  \/ AcceptThrows
  \/ \E c \in Clients : ClientActs(c) \/ ThreadStep(c)
  \/ Quiet

Spec == Init /\ [][Next]_vars

(***************************************************************************)
(* main and the threads are scheduled; what has arrived is read, and a     *)
(* write ends: the client takes its answers or vanishes.                   *)
(***************************************************************************)
FairSpec == Spec /\ WF_vars(Accept) /\ \A c \in Clients : WF_vars(ThreadStep(c))

-----------------------------------------------------------------------------
\* What a client sees of its connection.
PhaseOf(t) ==
  CASE t = "none" -> "waiting"
    [] t \in {"closed", "broken"} -> t
    [] OTHER -> "open"

phase == [c \in Clients |-> PhaseOf(thread[c])]

X == INSTANCE HttpExchange

(***************************************************************************)
(* The blocking server keeps the same promise as the asynchronous one:     *)
(* answers in turn, none after one that ends the connection, and a         *)
(* connection closed in good order only when it is due                     *)
(* (sync_server main.cpp:140-168).                                         *)
(***************************************************************************)
ImplementsExchange == X!Spec

(***************************************************************************)
(* Every request that was sent, and did not follow one that ends the       *)
(* connection, is answered unless the connection breaks or the accept      *)
(* loop's exception ends the program (sync_server main.cpp:147-159).       *)
(***************************************************************************)
EventuallyAnswered ==
  \A c \in Clients :
    \A i \in {n \in 1..Len(Script[c]) : \A j \in 1..(n - 1) : Script[c][j].keep_alive} :
      client[c] # "away" /\ sent[c] >= i
      ~> \/ Len(answers[c]) >= i
         \/ thread[c] = "broken"
         \/ program = "terminated"
=============================================================================
