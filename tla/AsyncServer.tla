---------------------------- MODULE AsyncServer -----------------------------
(***************************************************************************)
(* async_server/solution/src: one Listener accepts connections and starts  *)
(* a Session for each; a session reads a request, handles it, writes the   *)
(* answer and reads again.                                                 *)
(*                                                                         *)
(* A session keeps itself alive through the one handler that is pending    *)
(* for it, so the chain of its handlers is a state machine.  Its handlers  *)
(* run on its own strand and touch nothing but the session, so each is one *)
(* atomic action whatever the number of threads.  The completion of an     *)
(* operation (the kernel's doing, or the deadline's) and the handler that  *)
(* hears of it are separate actions; ioc.stop() may come between them.     *)
(***************************************************************************)
EXTENDS HttpClients

CONSTANTS NoClient, AcceptMayFail

ASSUME AsyncServerAssumption ==
  /\ NoClient \notin Clients
  /\ AcceptMayFail \in BOOLEAN

VARIABLES
  listener,   \* idle, accepting, accepted or failed (OnAccept is due), dead
  incoming,   \* the connection that OnAccept is about to be given
  session,    \* where each connection's session is
  outcome,    \* error code of the session's last operation
  deadline,   \* whether the session's stream has a deadline
  taken,      \* requests the session has read
  response,   \* safe_response: the answer being written
  answers,    \* the answers written to each connection
  program     \* running or stopped

serverVars == <<listener, incoming, session, outcome, deadline, taken,
                response, answers, program>>
vars == <<clientVars, serverVars>>

SessionStates ==
  {"none", "dispatched", "reading", "read", "writing", "written", "over"}
Outcomes == {"ok", "end_of_stream", "error"}
NoResponse == [status |-> "none"]

TypeOK ==
  /\ ClientsTypeOK
  /\ listener \in {"idle", "accepting", "accepted", "failed", "dead"}
  /\ incoming \in Clients \cup {NoClient}
  /\ session \in [Clients -> SessionStates]
  /\ outcome \in [Clients -> Outcomes]
  /\ deadline \in [Clients -> BOOLEAN]
  /\ taken \in [Clients -> Nat]
  /\ response \in [Clients -> Responses \cup {NoResponse}]
  /\ answers \in [Clients -> Seq(Responses)]
  /\ program \in {"running", "stopped"}

Init ==
  /\ ClientsInit
  /\ listener = "idle"
  /\ incoming = NoClient
  /\ session = [c \in Clients |-> "none"]
  /\ outcome = [c \in Clients |-> "ok"]
  /\ deadline = [c \in Clients |-> FALSE]
  /\ taken = [c \in Clients |-> 0]
  /\ response = [c \in Clients |-> NoResponse]
  /\ answers = [c \in Clients |-> <<>>]
  /\ program = "running"

-----------------------------------------------------------------------------
\* Listener.

\* ServeHttp: the listener listens and waits for its first connection.
ServeHttp ==
  /\ program = "running"
  /\ listener = "idle"
  /\ listener' = "accepting"
  /\ UNCHANGED <<clientVars, incoming, session, outcome, deadline, taken,
                 response, answers, program>>

\* async_accept completes with the oldest connection that waits...
Accept ==
  /\ program = "running"
  /\ listener = "accepting"
  /\ backlog # <<>>
  /\ listener' = "accepted"
  /\ incoming' = Head(backlog)
  /\ backlog' = Tail(backlog)
  /\ UNCHANGED <<client, sent, session, outcome, deadline, taken, response,
                 answers, program>>

\* ... or with an error: no descriptor or no memory is left for a socket.
AcceptFails ==
  /\ AcceptMayFail
  /\ program = "running"
  /\ listener = "accepting"
  /\ listener' = "failed"
  /\ UNCHANGED <<clientVars, incoming, session, outcome, deadline, taken,
                 response, answers, program>>

\* Mutant: OnAccept does not call DoAccept again.
OnAccept_Once ==
  /\ program = "running"
  /\ \/ /\ listener = "failed"
        /\ listener' = "dead"
        /\ UNCHANGED session
     \/ /\ listener = "accepted" /\ incoming # NoClient
        /\ session' = [session EXCEPT ![incoming] = "dispatched"]
        /\ UNCHANGED listener
  /\ incoming' = NoClient
  /\ UNCHANGED <<clientVars, outcome, deadline, taken, response, answers, program>>

\* Mutant: OnAccept does not start the session.
OnAccept_NoSession ==
  /\ program = "running"
  /\ \/ /\ listener = "failed"
        /\ listener' = "dead"
     \/ /\ listener = "accepted"
        /\ listener' = "accepting"
  /\ incoming' = NoClient
  /\ UNCHANGED <<clientVars, session, outcome, deadline, taken, response, answers, program>>

(***************************************************************************)
(* Listener::OnAccept: an error ends the loop for good; otherwise the      *)
(* session's Read is dispatched to its strand and accepting goes on.       *)
(***************************************************************************)
OnAccept ==
  /\ program = "running"
  /\ \/ /\ listener = "failed"
        /\ listener' = "dead"
        /\ UNCHANGED session
     \/ /\ listener = "accepted"
        /\ session' = [session EXCEPT ![incoming] = "dispatched"]
        /\ listener' = "accepting"
  /\ incoming' = NoClient
  /\ UNCHANGED <<clientVars, outcome, deadline, taken, response, answers, program>>

-----------------------------------------------------------------------------
\* Session: operations started by its handlers.

\* Mutant: Read sets no deadline.
Read_NoDeadline(c) ==
  /\ session' = [session EXCEPT ![c] = "reading"]
  /\ UNCHANGED deadline

\* SessionBase::Read.  The write that follows runs on the same deadline.
Read(c) ==
  /\ session' = [session EXCEPT ![c] = "reading"]
  /\ deadline' = [deadline EXCEPT ![c] = TRUE]

\* SessionBase::Write, called by the sender that HandleRequest gives away.
Write(c, r) ==
  /\ session' = [session EXCEPT ![c] = "writing"]
  /\ response' = [response EXCEPT ![c] = r]

\* The handler returns and leaves no other: the session and its socket go.
End(c) == session' = [session EXCEPT ![c] = "over"]

\* SessionBase::Run's dispatch calls Read.
Start(c) ==
  /\ program = "running"
  /\ session[c] = "dispatched"
  /\ Read(c)
  /\ UNCHANGED <<clientVars, listener, incoming, outcome, taken, response,
                 answers, program>>

\* SessionBase::OnRead: Close at the end of the stream, give up on an error.
OnRead(c) ==
  /\ program = "running"
  /\ session[c] = "read"
  /\ \/ /\ outcome[c] = "ok"
        /\ Write(c, HandleRequest(Script[c][taken[c]]))
     \/ /\ outcome[c] # "ok"
        /\ End(c)
        /\ UNCHANGED response
  /\ UNCHANGED <<clientVars, listener, incoming, outcome, deadline, taken,
                 answers, program>>

\* Mutant: close is ignored.
OnWrite_IgnoresClose(c) ==
  /\ program = "running"
  /\ session[c] = "written"
  /\ \/ /\ outcome[c] = "ok"
        /\ Read(c)
     \/ /\ outcome[c] # "ok"
        /\ End(c)
        /\ UNCHANGED deadline
  /\ UNCHANGED <<clientVars, listener, incoming, outcome, taken, response,
                 answers, program>>

\* Mutant: the session does not read again.
OnWrite_NoRead(c) ==
  /\ program = "running"
  /\ session[c] = "written"
  /\ End(c)
  /\ UNCHANGED <<clientVars, listener, incoming, outcome, deadline, taken, response,
                 answers, program>>

\* SessionBase::OnWrite: read again unless the write failed or was the last.
OnWrite(c) ==
  /\ program = "running"
  /\ session[c] = "written"
  /\ \/ /\ outcome[c] = "ok" /\ ~NeedEof(response[c])
        /\ Read(c)
     \/ /\ outcome[c] # "ok" \/ NeedEof(response[c])
        /\ End(c)
        /\ UNCHANGED deadline
  /\ UNCHANGED <<clientVars, listener, incoming, outcome, taken, response,
                 answers, program>>

-----------------------------------------------------------------------------
\* Operations complete and their handlers are queued.

Complete(c, ec) ==
  /\ program = "running"
  /\ session' = [session EXCEPT ![c] = IF @ = "reading" THEN "read" ELSE "written"]
  /\ outcome' = [outcome EXCEPT ![c] = ec]
  /\ UNCHANGED <<clientVars, listener, incoming, deadline, response, program>>

ReadArrives(c) ==
  /\ session[c] = "reading"
  /\ MayArrive(c, taken[c])
  /\ Complete(c, "ok")
  /\ taken' = [taken EXCEPT ![c] = @ + 1]
  /\ UNCHANGED answers

ReadEnds(c) ==
  /\ session[c] = "reading"
  /\ MayEnd(c, taken[c])
  /\ Complete(c, "end_of_stream")
  /\ UNCHANGED <<taken, answers>>

ReadFails(c) ==
  /\ session[c] = "reading"
  /\ MayFail(c, taken[c])
  /\ Complete(c, "error")
  /\ UNCHANGED <<taken, answers>>

WriteDone(c) ==
  /\ session[c] = "writing"
  /\ client[c] # "reset"
  /\ Complete(c, "ok")
  /\ answers' = [answers EXCEPT ![c] = Append(@, response[c])]
  /\ UNCHANGED taken

WriteFails(c) ==
  /\ session[c] = "writing"
  /\ client[c] = "reset"
  /\ Complete(c, "error")
  /\ UNCHANGED <<taken, answers>>

\* The stream's deadline passes: the socket is closed under the operation.
Expire(c) ==
  /\ session[c] \in {"reading", "writing"}
  /\ deadline[c]
  /\ Complete(c, "error")
  /\ UNCHANGED <<taken, answers>>

\* SIGINT or SIGTERM: ioc.stop(), no handler runs any more, main returns.
Signal ==
  /\ program = "running"
  /\ program' = "stopped"
  /\ UNCHANGED <<clientVars, listener, incoming, session, outcome, deadline,
                 taken, response, answers>>

-----------------------------------------------------------------------------
ClientActs(c) ==
  /\ program = "running"
  /\ \/ listener # "idle" /\ Connect(c)
     \/ ClientStep(c)
  /\ UNCHANGED serverVars

Handle(c) == Start(c) \/ OnRead(c) \/ OnWrite(c)
ReadCompletes(c) == ReadArrives(c) \/ ReadEnds(c) \/ ReadFails(c)
WriteCompletes(c) == WriteDone(c) \/ WriteFails(c)

Stopped == program = "stopped" /\ UNCHANGED vars

Next ==
  \/ ServeHttp \/ Accept \/ AcceptFails \/ OnAccept
  \/ \E c \in Clients :
       \/ ClientActs(c)
       \/ Handle(c)
       \/ ReadCompletes(c)
       \/ WriteCompletes(c)
       \/ Expire(c)
  \/ Signal
  \/ Stopped

Spec == Init /\ [][Next]_vars

(***************************************************************************)
(* At least one thread runs ioc (RunWorkers takes max(1, n)), so handlers  *)
(* that are due run; the kernel hands over connections and data that have  *)
(* arrived; the deadline's timer fires.  Nothing is assumed of clients, of *)
(* a write's progress or of signals.                                       *)
(***************************************************************************)
Fairness ==
  /\ WF_vars(ServeHttp)
  /\ WF_vars(Accept)
  /\ WF_vars(OnAccept)
  /\ \A c \in Clients :
       /\ WF_vars(Handle(c))
       /\ WF_vars(ReadCompletes(c))
       /\ WF_vars(Expire(c))

FairSpec == Spec /\ Fairness

-----------------------------------------------------------------------------
(***************************************************************************)
(* A connection is in one place: waiting to be accepted, on its way to     *)
(* OnAccept, or in the hands of a session (http_server.h:138-171); the     *)
(* accept loop neither drops a socket nor starts two sessions on it.       *)
(***************************************************************************)
Places(c) ==
  {<<"backlog", i>> : i \in {j \in DOMAIN backlog : backlog[j] = c}}
    \cup (IF incoming = c THEN {<<"incoming", 0>>} ELSE {})
    \cup (IF session[c] # "none" THEN {<<"session", 0>>} ELSE {})

ConnectionInOnePlace ==
  \A c \in Clients :
    IF client[c] = "away" THEN Places(c) = {}
    ELSE \E p \in Places(c) : Places(c) = {p}

\* What a client sees of the session s whose last operation ended with ec.
PhaseOf(s, ec) ==
  CASE s = "none" -> "waiting"
    [] s = "over" -> IF ec = "error" THEN "broken" ELSE "closed"
    [] OTHER -> "open"

phase == [c \in Clients |-> PhaseOf(session[c], outcome[c])]

X == INSTANCE HttpExchange

(***************************************************************************)
(* Each answer a client has had is the one that the request in its place   *)
(* is due, however many requests it sent ahead, and an answer that ends    *)
(* the connection is the last (http_server.cpp:37-67).                     *)
(***************************************************************************)
AnsweredInTurn == X!AnsweredInTurn

(***************************************************************************)
(* The server implements HttpExchange: no step of its listener, sessions,  *)
(* deadlines or shutdown breaks the promise, and a session closes in good  *)
(* order only when its client was told so or has all its answers.          *)
(***************************************************************************)
ImplementsExchange == X!Spec

(***************************************************************************)
(* A connection that waits is accepted in the end, as long as the server   *)
(* runs and accept has not failed (http_server.h:155-167).                 *)
(***************************************************************************)
EventuallyAccepted ==
  \A c \in Clients :
    client[c] # "away" ~> session[c] # "none" \/ listener = "dead" \/ program = "stopped"

(***************************************************************************)
(* Every request that was sent, and did not follow one that ends the       *)
(* connection, is answered unless the connection breaks: a request         *)
(* in the buffer behind another is not forgotten (http_server.cpp:55-67).  *)
(***************************************************************************)
EventuallyAnswered ==
  \A c \in Clients :
    \A i \in {n \in 1..Len(Script[c]) : \A j \in 1..(n - 1) : Script[c][j].keep_alive} :
      session[c] # "none" /\ sent[c] >= i
      ~> \/ Len(answers[c]) >= i
         \/ session[c] = "over" /\ outcome[c] = "error"
         \/ program = "stopped"

(***************************************************************************)
(* No client can hold a session for ever by neither sending nor reading    *)
(* nor leaving: the deadline of Read ends it (http_server.cpp:30).         *)
(***************************************************************************)
SessionsEnd ==
  \A c \in Clients : session[c] # "none" ~> session[c] = "over" \/ program = "stopped"
=============================================================================
