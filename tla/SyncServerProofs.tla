------------------------- MODULE SyncServerProofs ---------------------------
(***************************************************************************)
(* Proofs about SyncServer, for any set of clients and any scripts.        *)
(***************************************************************************)
EXTENDS SyncServer, SequenceTheorems, TLAPS

\* The queue holds each connection once, and none that has a thread.
Listed ==
  /\ \A i \in 1..Len(backlog) : thread[backlog[i]] = "none" /\ client[backlog[i]] # "away"
  /\ \A i, j \in 1..Len(backlog) : backlog[i] = backlog[j] => i = j
  /\ \A c \in Clients : client[c] = "away" => thread[c] = "none"

(***************************************************************************)
(* How far a thread is.  It reads and writes only while no answer has      *)
(* ended the connection; it is done after such an answer, or when the      *)
(* client will send no more and has had an answer to everything.           *)
(***************************************************************************)
Turn(c) ==
  /\ taken[c] <= sent[c]
  /\ thread[c] \in {"none", "reading"} =>
       taken[c] = Len(answers[c]) /\ X!KeptAlive(c)
  /\ thread[c] = "writing" =>
       /\ taken[c] = Len(answers[c]) + 1 /\ X!KeptAlive(c)
       /\ response[c] = HandleRequest(Script[c][taken[c]])
  /\ thread[c] = "done" /\ X!KeptAlive(c) =>
       Len(answers[c]) = sent[c] /\ client[c] \in {"shut", "reset"}

IInv ==
  /\ TypeOK
  /\ Listed
  /\ \A c \in Clients : Turn(c)

-----------------------------------------------------------------------------
\* What is taken from a script is a request, and is answered as it is due.
LEMMA ScriptAnswered ==
  ASSUME NEW c \in Clients, NEW n \in 1..Len(Script[c])
  PROVE  /\ HandleRequest(Script[c][n]) \in Responses
         /\ X!IsAnswer(Script[c][n], HandleRequest(Script[c][n]))
<1> DEFINE req == Script[c][n]
<1>1. Script[c] \in Seq(Requests)
  BY HttpAssumption
<1>2. req \in Requests
  BY <1>1, ElementOfSeq
<1> HIDE DEF req
<1>3. req.keep_alive \in BOOLEAN /\ req.method \in Methods /\ req.target \in Targets
  BY <1>2 DEF Requests
<1>4. req.target # "" /\ req.target \in Texts /\ InvalidMethod \in Texts /\ InvalidMethod # ""
  BY <1>3, HttpAssumption DEF Texts, InvalidMethod
<1>5. HandleRequest(req) \in Responses
  BY <1>3, <1>4 DEF HandleRequest, MakeResponse, Served, Text, Body, Responses, Methods
<1>6. X!IsAnswer(req, HandleRequest(req))
  BY <1>3, <1>4 DEF HandleRequest, MakeResponse, Served, Text, Body, X!IsAnswer, Methods
<1>7. QED
  BY <1>5, <1>6 DEF req

\* Scripts are finite.
LEMMA ScriptLen == \A c \in Clients : Len(Script[c]) \in Nat
BY HttpAssumption, LenProperties

\* A thread that no step touches is as far as it was.
LEMMA TurnKept ==
  ASSUME NEW c \in Clients, Turn(c),
         thread'[c] = thread[c], taken'[c] = taken[c], response'[c] = response[c],
         answers'[c] = answers[c], client'[c] = client[c], sent'[c] = sent[c]
  PROVE  Turn(c)'
BY DEF Turn, X!KeptAlive

\* The inductive invariant holds at the start.
LEMMA InitInv == Init => IInv
<1>1. SUFFICES ASSUME Init PROVE IInv
  OBVIOUS
<1>2. <<>> \in Seq(Clients) /\ <<>> \in Seq(Responses) /\ Len(<<>>) = 0
  BY EmptySeq
<1>3. TypeOK
  BY <1>1, <1>2, ScriptLen DEF Init, ClientsInit, TypeOK, ClientsTypeOK, ThreadStates
<1>4. Listed
  BY <1>1, <1>2 DEF Init, ClientsInit, Listed
<1>5. ASSUME NEW c \in Clients PROVE Turn(c)
  BY <1>1, <1>2 DEF Init, ClientsInit, Turn, X!KeptAlive
<1>6. QED
  BY <1>3, <1>4, <1>5 DEF IInv

-----------------------------------------------------------------------------
\* Only the thread of c moves, and not to "none".
OnlyMoves(c) ==
  /\ UNCHANGED <<client, sent, backlog>>
  /\ thread[c] # "none"
  /\ \A d \in Clients \ {c} :
       /\ thread'[d] = thread[d]
       /\ taken'[d] = taken[d]
       /\ response'[d] = response[d]
       /\ answers'[d] = answers[d]

LEMMA OneMoves ==
  ASSUME IInv, NEW c \in Clients, OnlyMoves(c), TypeOK', Turn(c)'
  PROVE  IInv'
<1>1. \A i \in 1..Len(backlog) : backlog[i] \in Clients
  BY ElementOfSeq DEF IInv, TypeOK, ClientsTypeOK
<1>2. Listed'
  BY <1>1 DEF IInv, Listed, OnlyMoves
<1>3. ASSUME NEW d \in Clients PROVE Turn(d)'
  <2>1. CASE d = c
    BY <2>1
  <2>2. CASE d # c
    BY <2>2, TurnKept DEF IInv, OnlyMoves
  <2>3. QED
    BY <2>1, <2>2
<1>4. QED
  BY <1>2, <1>3 DEF IInv

\* ReadRequest returns: the answer to the request just read is being written.
LEMMA ReadReturnsKeeps ==
  ASSUME IInv, NEW c \in Clients, ReadReturns(c)
  PROVE  IInv'
<1>1. TypeOK /\ Turn(c) /\ thread[c] = "reading"
  BY DEF IInv, ReadReturns, Goes
<1>2. /\ taken[c] \in Nat /\ sent[c] \in Nat /\ taken[c] < sent[c]
      /\ taken[c] + 1 \in 1..Len(Script[c])
  BY <1>1, ScriptLen DEF TypeOK, ClientsTypeOK, ReadReturns, MayArrive
<1>3. OnlyMoves(c)
  BY <1>1 DEF OnlyMoves, TypeOK, ReadReturns, Goes, clientVars
<1>4. TypeOK'
  <2>1. HandleRequest(Script[c][taken[c] + 1]) \in Responses
    BY <1>2, ScriptAnswered
  <2>2. QED
    BY <1>1, <1>2, <2>1, SMTT(30)
    DEF TypeOK, ClientsTypeOK, ThreadStates, ReadReturns, Goes, clientVars, handle_request
<1>5. Turn(c)'
  <2>1. /\ thread'[c] = "writing" /\ taken'[c] = taken[c] + 1
        /\ response'[c] = HandleRequest(Script[c][taken[c] + 1])
        /\ UNCHANGED <<answers, sent, client>>
    BY <1>1 DEF TypeOK, ThreadStates, ReadReturns, Goes, clientVars, handle_request
  <2>2. QED
    BY <1>1, <1>2, <2>1 DEF Turn, X!KeptAlive
<1>6. QED
  BY <1>3, <1>4, <1>5, OneMoves

\* WriteReturns: one more answer, and on or out of the loop.
LEMMA WriteReturnsKeeps ==
  ASSUME IInv, NEW c \in Clients, WriteReturns(c)
  PROVE  IInv'
<1>1. TypeOK /\ Turn(c) /\ thread[c] = "writing"
  BY DEF IInv, WriteReturns, Goes
<1>2. /\ taken[c] \in Nat /\ sent[c] \in Nat /\ taken[c] = Len(answers[c]) + 1
      /\ answers[c] \in Seq(Responses) /\ Len(answers[c]) \in Nat
      /\ taken[c] \in 1..Len(Script[c])
  BY <1>1, ScriptLen, LenProperties DEF TypeOK, ClientsTypeOK, Turn
<1>3. response[c] \in Responses /\ response[c].keep_alive \in BOOLEAN
  BY <1>1, <1>2, ScriptAnswered DEF Turn, Responses
<1>4. OnlyMoves(c)
  BY <1>1 DEF OnlyMoves, TypeOK, WriteReturns, Goes, clientVars
<1>5. /\ Append(answers[c], response[c]) \in Seq(Responses)
      /\ Len(Append(answers[c], response[c])) = Len(answers[c]) + 1
      /\ \A i \in 1..(Len(answers[c]) + 1) :
           Append(answers[c], response[c])[i] =
             IF i <= Len(answers[c]) THEN answers[c][i] ELSE response[c]
  BY <1>2, <1>3, AppendProperties
<1>6. TypeOK'
  BY <1>1, <1>5 DEF TypeOK, ClientsTypeOK, ThreadStates, WriteReturns, AfterWrite, Goes, clientVars
<1>7. Turn(c)'
  <2>1. /\ thread'[c] = AfterWrite(response[c])
        /\ answers'[c] = Append(answers[c], response[c])
        /\ UNCHANGED <<taken, sent, client, response>>
    BY <1>1 DEF TypeOK, WriteReturns, Goes, clientVars
  <2>2. DOMAIN answers'[c] = 1..(Len(answers[c]) + 1) /\ DOMAIN answers[c] = 1..Len(answers[c])
    BY <1>2, <1>5, <2>1, LenProperties
  <2>3. CASE NeedEof(response[c])
    <3>1. answers'[c][Len(answers[c]) + 1].keep_alive = FALSE
      BY <1>2, <1>3, <1>5, <2>1, <2>3 DEF NeedEof
    <3>2. ~X!KeptAlive(c)'
      BY <1>2, <2>2, <3>1 DEF X!KeptAlive
    <3>3. thread'[c] = "done"
      BY <2>1, <2>3 DEF AfterWrite
    <3>4. QED
      BY <1>1, <2>1, <3>2, <3>3 DEF Turn
  <2>4. CASE ~NeedEof(response[c])
    <3>1. thread'[c] = "reading" /\ response[c].keep_alive
      BY <2>1, <2>4 DEF AfterWrite, NeedEof
    <3>2. X!KeptAlive(c)'
      BY <1>1, <1>2, <1>5, <2>1, <2>2, <3>1 DEF Turn, X!KeptAlive
    <3>3. QED
      BY <1>1, <1>2, <1>5, <2>1, <3>1, <3>2 DEF Turn
  <2>5. QED
    BY <2>3, <2>4
<1>8. QED
  BY <1>4, <1>6, <1>7, OneMoves

\* The steps that end a thread's loop without an answer.
LEMMA LeavesKeep ==
  ASSUME IInv, NEW c \in Clients,
         ReadEnds(c) \/ ReadThrows(c) \/ WriteThrows(c) \/ Shutdown(c)
  PROVE  IInv'
<1>1. /\ TypeOK /\ Turn(c) /\ thread[c] # "none"
      /\ thread' = [thread EXCEPT ![c] = thread'[c]]
      /\ thread'[c] \in {"done", "caught", "closed", "broken"}
      /\ UNCHANGED <<clientVars, taken, response, answers, program>>
  BY DEF IInv, TypeOK, ReadEnds, ReadThrows, WriteThrows, Shutdown, Goes
<1>2. OnlyMoves(c)
  BY <1>1 DEF OnlyMoves, TypeOK, clientVars
<1>3. TypeOK'
  BY <1>1 DEF TypeOK, ClientsTypeOK, ThreadStates, clientVars
<1>4. Turn(c)'
  <2>1. thread'[c] = "done" => ReadEnds(c)
    BY <1>1 DEF TypeOK, ReadThrows, WriteThrows, Shutdown, Goes
  <2>2. ReadEnds(c) => taken[c] = sent[c] /\ client[c] = "shut" /\ thread[c] = "reading"
    BY DEF ReadEnds, MayEnd, Goes
  <2>3. QED
    BY <1>1, <2>1, <2>2 DEF Turn, X!KeptAlive, clientVars
<1>5. QED
  BY <1>2, <1>3, <1>4, OneMoves

-----------------------------------------------------------------------------
\* Accept: the head of the queue gets a thread.
LEMMA AcceptKeeps ==
  ASSUME IInv, Accept
  PROVE  IInv'
<1>1. TypeOK /\ Listed /\ backlog \in Seq(Clients) /\ backlog # <<>>
  BY DEF IInv, TypeOK, ClientsTypeOK, Accept
<1>2. /\ Len(backlog) \in Nat \ {0} /\ Head(backlog) = backlog[1] /\ backlog[1] \in Clients
      /\ backlog' \in Seq(Clients) /\ Len(backlog') = Len(backlog) - 1
      /\ \A i \in 1..Len(backlog') : backlog'[i] = backlog[i + 1]
  <2>1. Len(backlog) \in Nat \ {0}
    BY <1>1, EmptySeq, LenProperties
  <2>2. QED
    BY <1>1, <2>1, HeadTailProperties, ElementOfSeq DEF Accept
<1> DEFINE h == backlog[1]
<1>3. thread' = [thread EXCEPT ![h] = "reading"]
      /\ UNCHANGED <<client, sent, taken, response, answers, program>>
  BY <1>2 DEF Accept
<1>4. TypeOK'
  BY <1>1, <1>2, <1>3 DEF TypeOK, ClientsTypeOK, ThreadStates
<1>5. Listed'
  <2>1. \A i \in 1..Len(backlog') : i + 1 \in 1..Len(backlog) /\ backlog[i + 1] # h
    BY <1>1, <1>2 DEF Listed
  <2>2. \A i \in 1..Len(backlog') : backlog'[i] \in Clients
    BY <1>2, ElementOfSeq
  <2>3. \A i \in 1..Len(backlog') : thread'[backlog'[i]] = "none" /\ client'[backlog'[i]] # "away"
    <3>1. SUFFICES ASSUME NEW i \in 1..Len(backlog')
                   PROVE  thread'[backlog'[i]] = "none" /\ client'[backlog'[i]] # "away"
      OBVIOUS
    <3>2. i + 1 \in 1..Len(backlog) /\ backlog'[i] = backlog[i + 1] /\ backlog'[i] # h
      BY <1>2, <2>1
    <3>3. thread[backlog[i + 1]] = "none" /\ client[backlog[i + 1]] # "away"
      BY <1>1, <3>2 DEF Listed
    <3>4. backlog'[i] \in Clients /\ thread'[backlog'[i]] = thread[backlog'[i]]
      BY <1>1, <1>3, <2>2, <3>2 DEF TypeOK
    <3>5. QED
      BY <1>3, <3>2, <3>3, <3>4
  <2>4. \A i, j \in 1..Len(backlog') : backlog'[i] = backlog'[j] => i = j
    <3>1. SUFFICES ASSUME NEW i \in 1..Len(backlog'), NEW j \in 1..Len(backlog'),
                          backlog'[i] = backlog'[j]
                   PROVE  i = j
      OBVIOUS
    <3>2. backlog[i + 1] = backlog[j + 1]
      BY <1>2, <3>1
    <3>3. i + 1 = j + 1
      BY <1>1, <2>1, <3>2 DEF Listed
    <3>4. i \in Nat /\ j \in Nat
      BY <1>2
    <3>5. QED
      BY <3>3, <3>4
  <2>5. \A c \in Clients : client'[c] = "away" => thread'[c] = "none"
    BY <1>1, <1>2, <1>3 DEF Listed, TypeOK
  <2>6. QED
    BY <2>3, <2>4, <2>5 DEF Listed
<1>6. ASSUME NEW c \in Clients PROVE Turn(c)'
  <2>1. CASE c # h
    BY <1>1, <1>2, <1>3, <2>1, TurnKept DEF IInv, TypeOK
  <2>2. CASE c = h
    <3>1. Turn(c) /\ thread[c] = "none" /\ thread'[c] = "reading"
      BY <1>1, <1>2, <1>3, <2>2 DEF IInv, Listed, TypeOK
    <3>2. QED
      BY <1>3, <3>1 DEF Turn, X!KeptAlive
  <2>3. QED
    BY <2>1, <2>2
<1>7. QED
  BY <1>4, <1>5, <1>6 DEF IInv

\* A client that connects joins the queue.
LEMMA ConnectKeeps ==
  ASSUME IInv, NEW c \in Clients, Connect(c), UNCHANGED serverVars
  PROVE  IInv'
<1>1. TypeOK /\ Listed /\ backlog \in Seq(Clients) /\ Len(backlog) \in Nat
      /\ \A i \in 1..Len(backlog) : backlog[i] \in Clients
  BY LenProperties, ElementOfSeq DEF IInv, TypeOK, ClientsTypeOK
<1>2. /\ backlog' \in Seq(Clients) /\ Len(backlog') = Len(backlog) + 1
      /\ \A i \in 1..Len(backlog) : backlog'[i] = backlog[i]
      /\ backlog'[Len(backlog) + 1] = c
  BY <1>1, AppendProperties DEF Connect
<1>3. TypeOK'
  BY <1>1, <1>2 DEF TypeOK, ClientsTypeOK, Connect, serverVars
<1>4. thread[c] = "none" /\ \A i \in 1..Len(backlog) : backlog[i] # c
  BY <1>1 DEF Listed, Connect
<1>5. \A d \in Clients : client'[d] = IF d = c THEN "open" ELSE client[d]
  BY <1>1 DEF TypeOK, ClientsTypeOK, Connect
<1>6. \A i \in 1..Len(backlog') : i \in 1..Len(backlog) \/ i = Len(backlog) + 1
  BY <1>1, <1>2
<1>7. Listed'
  BY <1>1, <1>2, <1>4, <1>5, <1>6 DEF Listed, serverVars
<1>8. ASSUME NEW d \in Clients PROVE Turn(d)'
  <2>1. CASE d # c
    BY <1>5, <2>1, TurnKept DEF IInv, Connect, serverVars
  <2>2. CASE d = c
    BY <1>4, <2>2 DEF IInv, Turn, X!KeptAlive, Connect, serverVars
  <2>3. QED
    BY <2>1, <2>2
<1>9. QED
  BY <1>3, <1>7, <1>8 DEF IInv

\* A client that sends, shuts or vanishes only adds to what may be read.
LEMMA ClientStepKeeps ==
  ASSUME IInv, NEW c \in Clients, ClientStep(c), UNCHANGED serverVars
  PROVE  IInv'
<1>1. TypeOK /\ Listed
  BY DEF IInv
<1>2. TypeOK'
  <2>1. CASE Send(c)
    BY <1>1, <2>1, ScriptLen DEF TypeOK, ClientsTypeOK, Send, serverVars
  <2>2. CASE Shut(c)
    BY <1>1, <2>2 DEF TypeOK, ClientsTypeOK, Shut, serverVars
  <2>3. CASE Vanish(c)
    BY <1>1, <2>3 DEF TypeOK, ClientsTypeOK, Vanish, serverVars
  <2>4. QED
    BY <2>1, <2>2, <2>3 DEF ClientStep
<1>3. /\ UNCHANGED backlog
      /\ \A d \in Clients : client'[d] = "away" <=> client[d] = "away"
  BY <1>1 DEF TypeOK, ClientsTypeOK, ClientStep, Send, Shut, Vanish
<1>4. \A i \in 1..Len(backlog) : backlog[i] \in Clients
  BY <1>1, ElementOfSeq DEF TypeOK, ClientsTypeOK
<1>5. Listed'
  BY <1>1, <1>3, <1>4 DEF Listed, serverVars
<1>6. ASSUME NEW d \in Clients PROVE Turn(d)'
  <2>1. CASE d # c
    BY <1>1, <2>1, TurnKept DEF IInv, TypeOK, ClientsTypeOK, ClientStep, Send, Shut, Vanish, serverVars
  <2>2. CASE d = c
    <3>1. Turn(d)
      BY DEF IInv
    <3>2. /\ sent'[d] >= sent[d] /\ sent'[d] \in Nat /\ sent[d] \in Nat /\ taken[d] \in Nat
          /\ client[d] \in {"shut", "reset"} =>
               client'[d] \in {"shut", "reset"} /\ sent'[d] = sent[d]
      BY <1>1, <2>2 DEF TypeOK, ClientsTypeOK, ClientStep, Send, Shut, Vanish
    <3>3. QED
      BY <3>1, <3>2 DEF Turn, X!KeptAlive, serverVars
  <2>3. QED
    BY <2>1, <2>2
<1>7. QED
  BY <1>2, <1>5, <1>6 DEF IInv

\* The invariant is inductive.
LEMMA NextInv == IInv /\ [Next]_vars => IInv'
<1>1. SUFFICES ASSUME IInv, [Next]_vars PROVE IInv'
  OBVIOUS
<1>2. ASSUME NEW c \in Clients, ClientActs(c) PROVE IInv'
  BY <1>1, <1>2, ConnectKeeps, ClientStepKeeps DEF ClientActs
<1>3. ASSUME NEW c \in Clients, ThreadStep(c) PROVE IInv'
  BY <1>1, <1>3, ReadReturnsKeeps, WriteReturnsKeeps, LeavesKeep DEF ThreadStep
<1>4. CASE AcceptThrows \/ UNCHANGED vars
  <2>1. UNCHANGED <<client, sent, backlog, thread, taken, response, answers>>
        /\ program' \in {program, "terminated"}
    BY <1>4 DEF AcceptThrows, vars, clientVars, serverVars
  <2>2. TypeOK' /\ Listed'
    BY <1>1, <2>1 DEF IInv, TypeOK, ClientsTypeOK, Listed
  <2>3. ASSUME NEW c \in Clients PROVE Turn(c)'
    BY <1>1, <2>1, TurnKept DEF IInv
  <2>4. QED
    BY <2>2, <2>3 DEF IInv
<1>5. QED
  BY <1>1, <1>2, <1>3, <1>4, AcceptKeeps DEF Next, Quiet

(***************************************************************************)
(* In every reachable state the queue and the threads are in order, and    *)
(* each thread is as far as its answers say.                               *)
(***************************************************************************)
THEOREM Invariant == Spec => []IInv
BY InitInv, NextInv, PTL DEF Spec

\* Type correctness, for any clients and scripts.
THEOREM TypeCorrect == Spec => []TypeOK
<1>1. IInv => TypeOK
  BY DEF IInv
<1>2. QED
  BY <1>1, Invariant, PTL

-----------------------------------------------------------------------------
\* What a client sees when only the thread of c moves.
LEMMA PhaseMoves ==
  ASSUME NEW c \in Clients, \A d \in Clients \ {c} : thread'[d] = thread[d]
  PROVE  /\ phase' = [phase EXCEPT ![c] = PhaseOf(thread'[c])]
         /\ phase[c] = PhaseOf(thread[c])
         /\ PhaseOf(thread'[c]) = PhaseOf(thread[c]) => UNCHANGED phase
BY DEF phase

LEMMA Phases ==
  /\ PhaseOf("none") = "waiting" /\ PhaseOf("closed") = "closed" /\ PhaseOf("broken") = "broken"
  /\ \A t \in {"reading", "writing", "done", "caught"} : PhaseOf(t) = "open"
BY DEF PhaseOf

LEMMA InitExchange == Init => X!Init
BY DEF Init, ClientsInit, X!Init, phase, PhaseOf

\* A step of a thread is a step of the exchange, or shows nothing.
LEMMA ThreadShows ==
  ASSUME IInv, NEW c \in Clients, ThreadStep(c)
  PROVE  X!Next \/ UNCHANGED X!vars
<1>1. TypeOK /\ Turn(c)
  BY DEF IInv
<1>2. /\ \A d \in Clients \ {c} : thread'[d] = thread[d]
      /\ UNCHANGED sent
  BY <1>1 DEF TypeOK, ThreadStep, ReadReturns, ReadEnds, ReadThrows, WriteReturns,
              WriteThrows, Shutdown, Goes, clientVars
<1>3. CASE ReadReturns(c) \/ ReadEnds(c) \/ ReadThrows(c) \/ WriteThrows(c)
  <2>1. /\ thread[c] \in {"reading", "writing"} /\ thread'[c] \in {"writing", "done", "caught"}
        /\ UNCHANGED answers
    BY <1>1, <1>3 DEF TypeOK, ReadReturns, ReadEnds, ReadThrows, WriteThrows, Goes
  <2>2. UNCHANGED phase
    BY <1>2, <2>1, Phases, PhaseMoves
  <2>3. QED
    BY <1>2, <2>1, <2>2 DEF X!vars
<1>4. CASE WriteReturns(c)
  <2>1. /\ thread[c] = "writing" /\ thread'[c] \in {"reading", "done"}
        /\ answers' = [answers EXCEPT ![c] = Append(answers[c], response[c])]
    BY <1>1, <1>4 DEF TypeOK, WriteReturns, AfterWrite, Goes
  <2>2. phase[c] = "open" /\ UNCHANGED phase
    BY <1>2, <2>1, Phases, PhaseMoves
  <2>3. /\ taken[c] \in Nat /\ sent[c] \in Nat /\ Len(answers[c]) \in Nat
        /\ taken[c] = Len(answers[c]) + 1 /\ taken[c] \in 1..Len(Script[c])
        /\ Len(answers[c]) < sent[c] /\ X!KeptAlive(c)
        /\ response[c] = HandleRequest(Script[c][Len(answers[c]) + 1])
    BY <1>1, <2>1, ScriptLen, LenProperties DEF TypeOK, ClientsTypeOK, Turn
  <2>4. response[c] \in Responses /\ X!IsAnswer(Script[c][Len(answers[c]) + 1], response[c])
    BY <2>3, ScriptAnswered
  <2>5. response[c] \in X!Responses
    BY <2>4 DEF Responses, Texts, InvalidMethod, X!Responses, X!Texts, X!InvalidMethod
  <2>6. X!Answer(c)
    BY <1>2, <2>1, <2>2, <2>3, <2>4, <2>5 DEF X!Answer
  <2>7. QED
    BY <2>6 DEF X!Next
<1>5. CASE Shutdown(c)
  <2>1. UNCHANGED answers
    BY <1>5 DEF Shutdown
  <2>2. CASE thread[c] = "done"
    <3>1. thread'[c] = "closed"
      BY <1>1, <1>5, <2>2 DEF TypeOK, Shutdown, Goes
    <3>2. X!KeptAlive(c) => Len(answers[c]) = sent[c]
      BY <1>1, <2>2 DEF Turn
    <3>3. X!Close(c)
      BY <1>2, <2>1, <2>2, <3>1, <3>2, Phases, PhaseMoves DEF X!Close
    <3>4. QED
      BY <3>3 DEF X!Next
  <2>3. CASE thread[c] # "done"
    <3>1. thread[c] = "caught" /\ thread'[c] = "broken"
      BY <1>1, <1>5, <2>3 DEF TypeOK, Shutdown, Goes
    <3>2. X!Break(c)
      BY <1>2, <2>1, <3>1, Phases, PhaseMoves DEF X!Break
    <3>3. QED
      BY <3>2 DEF X!Next
  <2>4. QED
    BY <2>2, <2>3
<1>6. QED
  BY <1>3, <1>4, <1>5 DEF ThreadStep

\* Every step of the server is a step of the exchange, or shows nothing.
LEMMA NextExchange ==
  ASSUME IInv, [Next]_vars
  PROVE  [X!Next]_(X!vars)
<1>1. ASSUME NEW c \in Clients, ClientActs(c) PROVE [X!Next]_(X!vars)
  <2>1. UNCHANGED <<answers, phase>>
    BY <1>1 DEF ClientActs, serverVars, phase
  <2>2. CASE Send(c)
    <3>1. X!Send(c)
      BY <2>1, <2>2 DEF Send, X!Send
    <3>2. QED
      BY <3>1 DEF X!Next
  <2>3. CASE Connect(c) \/ Shut(c) \/ Vanish(c)
    BY <2>1, <2>3 DEF Connect, Shut, Vanish, X!vars
  <2>4. QED
    BY <1>1, <2>2, <2>3 DEF ClientActs, ClientStep
<1>2. ASSUME NEW c \in Clients, ThreadStep(c) PROVE [X!Next]_(X!vars)
  BY <1>2, ThreadShows
<1>3. CASE Accept
  <2>1. backlog \in Seq(Clients) /\ backlog # <<>>
    BY <1>3 DEF IInv, TypeOK, ClientsTypeOK, Accept
  <2>2. Len(backlog) \in Nat \ {0} /\ Head(backlog) = backlog[1] /\ backlog[1] \in Clients
    BY <2>1, EmptySeq, LenProperties, HeadTailProperties, ElementOfSeq
  <2>3. /\ thread[backlog[1]] = "none"
        /\ thread' = [thread EXCEPT ![backlog[1]] = "reading"]
        /\ UNCHANGED <<sent, answers>>
    BY <1>3, <2>2 DEF IInv, Listed, Accept
  <2>4. thread'[backlog[1]] = "reading" /\ \A d \in Clients \ {backlog[1]} : thread'[d] = thread[d]
    BY <2>2, <2>3 DEF IInv, TypeOK
  <2>5. X!Open(backlog[1])
    BY <2>2, <2>3, <2>4, Phases, PhaseMoves DEF X!Open
  <2>6. QED
    BY <2>2, <2>5 DEF X!Next
<1>4. CASE AcceptThrows \/ UNCHANGED vars
  BY <1>4 DEF AcceptThrows, vars, clientVars, serverVars, X!vars, phase
<1>5. QED
  BY <1>1, <1>2, <1>3, <1>4 DEF Next, Quiet

(***************************************************************************)
(* The blocking server implements HttpExchange for any clients and         *)
(* scripts, accepts that throw included: requests are answered in turn,    *)
(* nothing follows an answer that ends the connection, and a connection is *)
(* closed in good order only when that is due.                             *)
(***************************************************************************)
THEOREM Implements == Spec => ImplementsExchange
<1>1. IInv /\ [Next]_vars => [X!Next]_(X!vars)
  BY NextExchange
<1>2. QED
  BY <1>1, InitExchange, Invariant, PTL DEF Spec, ImplementsExchange, X!Spec

-----------------------------------------------------------------------------
\* What the exchange itself keeps to.
LEMMA ExchangeInit == X!Init => X!TypeOK /\ X!AnsweredInTurn
<1>1. <<>> \in Seq(X!Responses) /\ Len(<<>>) = 0 /\ DOMAIN <<>> = {}
  BY EmptySeq
<1>2. QED
  BY <1>1 DEF X!Init, X!TypeOK, X!AnsweredInTurn

LEMMA ExchangeAnswer ==
  ASSUME X!TypeOK, X!AnsweredInTurn, NEW c \in Clients, X!Answer(c)
  PROVE  X!TypeOK' /\ X!AnsweredInTurn'
<1>1. PICK r \in X!Responses :
        /\ X!IsAnswer(Script[c][Len(answers[c]) + 1], r)
        /\ answers' = [answers EXCEPT ![c] = Append(answers[c], r)]
  BY DEF X!Answer
<1>2. /\ answers \in [Clients -> Seq(X!Responses)] /\ sent \in [Clients -> Nat]
      /\ UNCHANGED <<sent, phase>> /\ X!KeptAlive(c) /\ Len(answers[c]) < sent[c]
  BY DEF X!TypeOK, X!Answer
<1>3. /\ answers'[c] = Append(answers[c], r)
      /\ \A d \in Clients \ {c} : answers'[d] = answers[d]
      /\ answers' \in [Clients -> Seq(X!Responses)]
  <2>1. Append(answers[c], r) \in Seq(X!Responses)
    BY <1>2, AppendProperties
  <2>2. QED
    BY <1>1, <1>2, <2>1
<1> DEFINE n == Len(answers[c])
<1>4. /\ n \in Nat /\ Len(answers'[c]) = n + 1 /\ DOMAIN answers[c] = 1..n
      /\ DOMAIN answers'[c] = 1..(n + 1) /\ answers'[c][n + 1] = r
      /\ \A i \in 1..n : answers'[c][i] = answers[c][i]
  BY <1>2, <1>3, AppendProperties, LenProperties
<1>5. ASSUME NEW d \in Clients
      PROVE  /\ Len(answers'[d]) <= sent'[d]
             /\ \A i \in DOMAIN answers'[d] :
                  /\ X!IsAnswer(Script[d][i], answers'[d][i])
                  /\ i < Len(answers'[d]) => answers'[d][i].keep_alive
  <2>1. CASE d # c
    BY <1>2, <1>3, <2>1 DEF X!AnsweredInTurn
  <2>2. CASE d = c
    <3>1. Len(answers'[c]) <= sent'[c]
      BY <1>2, <1>4
    <3>2. ASSUME NEW i \in 1..(n + 1)
          PROVE  /\ X!IsAnswer(Script[c][i], answers'[c][i])
                 /\ i < n + 1 => answers'[c][i].keep_alive
      <4>1. CASE i = n + 1
        BY <1>1, <1>4, <4>1
      <4>2. CASE i # n + 1
        <5>1. i \in 1..n
          BY <1>4, <4>2
        <5>2. X!IsAnswer(Script[c][i], answers[c][i]) /\ answers[c][i].keep_alive
          BY <1>2, <1>4, <5>1 DEF X!AnsweredInTurn, X!KeptAlive
        <5>3. QED
          BY <1>4, <5>1, <5>2
      <4>3. QED
        BY <4>1, <4>2
    <3>3. QED
      BY <1>4, <2>2, <3>1, <3>2
  <2>3. QED
    BY <2>1, <2>2
<1>6. X!AnsweredInTurn'
  BY <1>5 DEF X!AnsweredInTurn, X!IsAnswer
<1>7. QED
  BY <1>2, <1>3, <1>6 DEF X!TypeOK

\* A step that answers nothing leaves the answers right.
LEMMA AnswersKept ==
  ASSUME X!AnsweredInTurn, answers' = answers,
         \A d \in Clients : Len(answers[d]) <= sent'[d]
  PROVE  X!AnsweredInTurn'
<1>1. ASSUME NEW d \in Clients
      PROVE  /\ Len(answers'[d]) <= sent'[d]
             /\ \A i \in DOMAIN answers'[d] :
                  /\ X!IsAnswer(Script[d][i], answers'[d][i])
                  /\ i < Len(answers'[d]) => answers'[d][i].keep_alive
  BY DEF X!AnsweredInTurn
<1>2. QED
  BY <1>1 DEF X!AnsweredInTurn, X!IsAnswer

LEMMA ExchangeNext ==
  X!TypeOK /\ X!AnsweredInTurn /\ [X!Next]_(X!vars) => X!TypeOK' /\ X!AnsweredInTurn'
<1> SUFFICES ASSUME X!TypeOK, X!AnsweredInTurn, [X!Next]_(X!vars)
             PROVE  X!TypeOK' /\ X!AnsweredInTurn'
  OBVIOUS
<1>1. ASSUME NEW c \in Clients, X!Send(c) PROVE X!TypeOK' /\ X!AnsweredInTurn'
  <2>1. /\ sent \in [Clients -> Nat] /\ sent' = [sent EXCEPT ![c] = sent[c] + 1]
        /\ answers \in [Clients -> Seq(X!Responses)] /\ UNCHANGED <<answers, phase>>
    BY <1>1 DEF X!Send, X!TypeOK
  <2>2. sent' \in [Clients -> Nat] /\ \A d \in Clients : sent'[d] >= sent[d] /\ sent[d] \in Nat
    BY <2>1
  <2>3. \A d \in Clients : Len(answers[d]) \in Nat
    BY <2>1, LenProperties
  <2>4. \A d \in Clients : Len(answers[d]) <= sent'[d]
    BY <2>2, <2>3 DEF X!AnsweredInTurn
  <2>5. X!TypeOK'
    BY <2>1, <2>2 DEF X!TypeOK
  <2>6. answers' = answers
    BY <2>1
  <2>7. X!AnsweredInTurn'
    BY <2>4, <2>6, AnswersKept
  <2>8. QED
    BY <2>5, <2>7
<1>2. ASSUME NEW c \in Clients, X!Open(c) \/ X!Close(c) \/ X!Break(c)
      PROVE  X!TypeOK' /\ X!AnsweredInTurn'
  <2>1. phase' \in [Clients -> {"waiting", "open", "closed", "broken"}]
    BY <1>2 DEF X!Open, X!Close, X!Break, X!TypeOK
  <2>2. UNCHANGED <<sent, answers>>
    BY <1>2 DEF X!Open, X!Close, X!Break
  <2>3. X!TypeOK'
    BY <2>1, <2>2 DEF X!TypeOK
  <2>4. X!AnsweredInTurn'
    <3>1. \A d \in Clients : Len(answers[d]) <= sent'[d]
      BY <2>2 DEF X!AnsweredInTurn
    <3>2. QED
      BY <2>2, <3>1, AnswersKept
  <2>5. QED
    BY <2>3, <2>4
<1>3. CASE UNCHANGED X!vars
  <2>1. X!TypeOK' /\ answers' = answers /\ sent' = sent
    BY <1>3 DEF X!vars, X!TypeOK
  <2>2. \A d \in Clients : Len(answers[d]) <= sent'[d]
    BY <2>1 DEF X!AnsweredInTurn
  <2>3. QED
    BY <2>1, <2>2, AnswersKept
<1>4. QED
  BY <1>1, <1>2, <1>3, ExchangeAnswer DEF X!Next

(***************************************************************************)
(* An exchange answers in turn, and so does every server that implements   *)
(* one: each answer is the one the request in its place is due, and one    *)
(* that ends the connection is the last (sync_server main.cpp:140-168).    *)
(***************************************************************************)
THEOREM AnswersInTurn == Spec => []X!AnsweredInTurn
<1>1. X!Spec => []X!AnsweredInTurn
  BY ExchangeInit, ExchangeNext, PTL DEF X!Spec
<1>2. QED
  BY <1>1, Implements, PTL DEF ImplementsExchange

-----------------------------------------------------------------------------
(***************************************************************************)
(* A client that connected is in the queue, once, until it has a thread,   *)
(* and not after: main neither drops a connection nor starts two threads   *)
(* on one.                                                                 *)
(***************************************************************************)
InQueue(c) == \E i \in 1..Len(backlog) : backlog[i] = c

ConnectionInOnePlace ==
  /\ \A c \in Clients : client[c] # "away" => (InQueue(c) <=> thread[c] = "none")
  /\ \A i, j \in 1..Len(backlog) : backlog[i] = backlog[j] => i = j

Queued == \A c \in Clients : client[c] # "away" /\ thread[c] = "none" => InQueue(c)

LEMMA QueuedInit == Init => Queued
BY DEF Init, ClientsInit, Queued

LEMMA QueuedNext == IInv /\ Queued /\ [Next]_vars => Queued'
<1> SUFFICES ASSUME IInv, Queued, [Next]_vars PROVE Queued'
  OBVIOUS
<1>1. /\ backlog \in Seq(Clients) /\ Len(backlog) \in Nat
      /\ thread \in [Clients -> ThreadStates]
      /\ client \in [Clients -> {"away", "open", "shut", "reset"}]
  BY LenProperties DEF IInv, TypeOK, ClientsTypeOK
<1>2. ASSUME UNCHANGED backlog,
             \A c \in Clients : client[c] = "away" => client'[c] = "away",
             \A c \in Clients : thread'[c] = "none" => thread[c] = "none"
      PROVE  Queued'
  BY <1>2 DEF Queued, InQueue
<1>3. ASSUME NEW c \in Clients, Connect(c), UNCHANGED serverVars PROVE Queued'
  <2>1. /\ Len(backlog') = Len(backlog) + 1 /\ backlog'[Len(backlog) + 1] = c
        /\ \A i \in 1..Len(backlog) : backlog'[i] = backlog[i]
    BY <1>1, <1>3, AppendProperties DEF Connect
  <2>2. \A d \in Clients \ {c} : client'[d] = client[d]
    BY <1>1, <1>3 DEF Connect
  <2>3. thread' = thread
    BY <1>3 DEF serverVars
  <2>4. \A i \in 1..Len(backlog) : i \in 1..Len(backlog')
    BY <1>1, <2>1
  <2>5. InQueue(c)'
    BY <1>1, <2>1 DEF InQueue
  <2>6. \A d \in Clients : InQueue(d) => InQueue(d)'
    BY <2>1, <2>4 DEF InQueue
  <2>7. QED
    BY <2>2, <2>3, <2>5, <2>6 DEF Queued
<1>4. ASSUME NEW c \in Clients, ClientStep(c), UNCHANGED serverVars PROVE Queued'
  <2>1. /\ UNCHANGED <<backlog, thread>>
        /\ \A d \in Clients : client[d] = "away" => client'[d] = "away"
    BY <1>1, <1>4 DEF ClientStep, Send, Shut, Vanish, serverVars
  <2>2. QED
    BY <1>2, <2>1
<1>5. ASSUME NEW c \in Clients, ThreadStep(c) PROVE Queued'
  <2>1. PICK to \in ThreadStates \ {"none"} :
          /\ thread' = [thread EXCEPT ![c] = to]
          /\ UNCHANGED <<client, backlog>>
    BY <1>5 DEF ThreadStep, ReadReturns, ReadEnds, ReadThrows, WriteReturns, WriteThrows,
                Shutdown, Goes, AfterWrite, ThreadStates, clientVars
  <2>2. QED
    BY <1>1, <1>2, <2>1
<1>6. CASE Accept
  <2>1. backlog # <<>>
    BY <1>6 DEF Accept
  <2>2. /\ Len(backlog) \in Nat \ {0} /\ Head(backlog) = backlog[1]
        /\ Len(backlog') = Len(backlog) - 1
        /\ \A i \in 1..Len(backlog') : backlog'[i] = backlog[i + 1]
    BY <1>1, <1>6, <2>1, EmptySeq, HeadTailProperties DEF Accept
  <2>3. client' = client /\ thread' = [thread EXCEPT ![backlog[1]] = "reading"]
    BY <1>6, <2>2 DEF Accept
  <2>4. ASSUME NEW d \in Clients, client'[d] # "away", thread'[d] = "none"
        PROVE  InQueue(d)'
    <3>1. d # backlog[1] /\ thread[d] = "none"
      BY <1>1, <2>3, <2>4
    <3>2. PICK i \in 1..Len(backlog) : backlog[i] = d
      BY <2>3, <2>4, <3>1 DEF Queued, InQueue
    <3>3. i - 1 \in 1..Len(backlog') /\ backlog'[i - 1] = d
      BY <2>2, <3>1, <3>2
    <3>4. QED
      BY <3>3 DEF InQueue
  <2>5. QED
    BY <2>4 DEF Queued
<1>7. CASE AcceptThrows \/ Quiet \/ UNCHANGED vars
  <2>1. UNCHANGED <<backlog, client, thread>>
    BY <1>7 DEF AcceptThrows, Quiet, vars, clientVars, serverVars
  <2>2. QED
    BY <1>2, <2>1
<1>8. QED
  BY <1>3, <1>4, <1>5, <1>6, <1>7 DEF Next, ClientActs

(***************************************************************************)
(* The accept loop and its threads, for any clients: the safety half of    *)
(* EventuallyAnswered (sync_server main.cpp:170-187).                      *)
(***************************************************************************)
THEOREM KeepsConnections == Spec => []ConnectionInOnePlace
<1>1. IInv /\ Queued => ConnectionInOnePlace
  BY DEF IInv, Listed, Queued, InQueue, ConnectionInOnePlace
<1>2. QED
  BY <1>1, QueuedInit, QueuedNext, Invariant, PTL DEF Spec
=============================================================================
