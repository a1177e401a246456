------------------------- MODULE AsyncServerProofs --------------------------
(***************************************************************************)
(* Proofs about AsyncServer, for any set of clients and any scripts.       *)
(***************************************************************************)
EXTENDS AsyncServer, SequenceTheorems, TLAPS

(***************************************************************************)
(* Where connections are.  Listed: the queue holds each connection once    *)
(* and none that is in other hands.  Found: every connection is somewhere. *)
(***************************************************************************)
Listed ==
  /\ \A i \in 1..Len(backlog) :
       /\ session[backlog[i]] = "none"
       /\ client[backlog[i]] # "away"
       /\ backlog[i] # incoming
  /\ \A i, j \in 1..Len(backlog) : backlog[i] = backlog[j] => i = j
  /\ incoming \in Clients <=> listener = "accepted"
  /\ incoming \in Clients => session[incoming] = "none" /\ client[incoming] # "away"
  /\ \A c \in Clients : client[c] = "away" => session[c] = "none"

Found ==
  \A c \in Clients : client[c] # "away" =>
    \/ \E i \in 1..Len(backlog) : backlog[i] = c
    \/ incoming = c
    \/ session[c] # "none"

(***************************************************************************)
(* How far a session is: what it has read, what it has answered, and what  *)
(* the pending handler will find.                                          *)
(***************************************************************************)
AllKept(c) == \A i \in 1..Len(answers[c]) : answers[c][i].keep_alive

Turn(c) ==
  /\ taken[c] <= sent[c]
  /\ Len(answers[c]) <= taken[c]
  /\ \A i \in 1..Len(answers[c]) : answers[c][i] = HandleRequest(Script[c][i])
  /\ \A i \in 1..(Len(answers[c]) - 1) : answers[c][i].keep_alive
  /\ session[c] \notin {"written", "over"} => AllKept(c)
  /\ session[c] \in {"none", "dispatched", "reading"} => taken[c] = Len(answers[c])
  /\ session[c] = "read" =>
       /\ outcome[c] = "ok" => taken[c] = Len(answers[c]) + 1
       /\ outcome[c] # "ok" => taken[c] = Len(answers[c])
       /\ outcome[c] = "end_of_stream" =>
            client[c] \in {"shut", "reset"} /\ sent[c] = taken[c]
  /\ session[c] = "writing" =>
       /\ taken[c] = Len(answers[c]) + 1
       /\ response[c] = HandleRequest(Script[c][taken[c]])
  /\ session[c] = "written" =>
       /\ outcome[c] # "end_of_stream"
       /\ outcome[c] = "ok" =>
            /\ Len(answers[c]) > 0
            /\ taken[c] = Len(answers[c])
            /\ response[c] = answers[c][Len(answers[c])]

IInv ==
  /\ TypeOK
  /\ Listed
  /\ Found
  /\ \A c \in Clients : Turn(c)

-----------------------------------------------------------------------------
(***************************************************************************)
(* The answer HandleRequest makes is a response, and the one that the      *)
(* exchange asks for.                                                      *)
(***************************************************************************)
LEMMA HandleRequestAnswers ==
  ASSUME NEW req \in Requests
  PROVE  /\ HandleRequest(req) \in Responses
         /\ X!IsAnswer(req, HandleRequest(req))
<1>1. req.target # "" /\ req.target \in Texts /\ InvalidMethod \in Texts /\ InvalidMethod # ""
  BY HttpAssumption DEF Requests, Texts, InvalidMethod
<1>2. req.keep_alive \in BOOLEAN /\ req.method \in Methods
  BY DEF Requests
<1>3. HandleRequest(req) \in Responses
  BY <1>1, <1>2 DEF HandleRequest, MakeResponse, Served, Text, Body, Responses, Methods
<1>4. X!IsAnswer(req, HandleRequest(req))
  BY <1>1, <1>2
  DEF HandleRequest, MakeResponse, Served, Text, Body, X!IsAnswer, Methods
<1>5. QED
  BY <1>3, <1>4

\* What is taken from a script is a request.
LEMMA ScriptFacts ==
  ASSUME NEW c \in Clients
  PROVE  /\ Len(Script[c]) \in Nat
         /\ \A n \in 1..Len(Script[c]) : Script[c][n] \in Requests
<1>1. Script[c] \in Seq(Requests)
  BY HttpAssumption
<1>2. QED
  BY <1>1, LenProperties, ElementOfSeq

\* A session that no step touches is as far as it was.
LEMMA TurnKept ==
  ASSUME NEW c \in Clients, Turn(c),
         session'[c] = session[c], outcome'[c] = outcome[c], taken'[c] = taken[c],
         response'[c] = response[c], answers'[c] = answers[c],
         client'[c] = client[c], sent'[c] = sent[c]
  PROVE  Turn(c)'
BY DEF Turn, AllKept

(***************************************************************************)
(* A step that moves no connection, and starts no session, leaves every    *)
(* connection where it is.                                                 *)
(***************************************************************************)
LEMMA PlacesKept ==
  ASSUME TypeOK, Listed, Found,
         UNCHANGED <<client, backlog, incoming, listener>>,
         \A c \in Clients : session'[c] = "none" <=> session[c] = "none"
  PROVE  Listed' /\ Found'
<1>1. \A i \in 1..Len(backlog) : backlog[i] \in Clients
  BY ElementOfSeq DEF TypeOK, ClientsTypeOK
<1>2. Listed'
  BY <1>1 DEF Listed
<1>3. Found'
  BY DEF Found
<1>4. QED
  BY <1>2, <1>3

(***************************************************************************)
(* A session that is about to answer, or answering, has read a request.    *)
(***************************************************************************)
LEMMA RequestDue ==
  ASSUME TypeOK, NEW c \in Clients, Turn(c),
         session[c] = "writing" \/ (session[c] = "read" /\ outcome[c] = "ok")
  PROVE  /\ taken[c] = Len(answers[c]) + 1
         /\ taken[c] \in 1..Len(Script[c])
         /\ HandleRequest(Script[c][taken[c]]) \in Responses
         /\ HandleRequest(Script[c][taken[c]]).keep_alive \in BOOLEAN
<1>1. Len(answers[c]) \in Nat /\ sent[c] \in Nat /\ sent[c] <= Len(Script[c])
  BY LenProperties DEF TypeOK, ClientsTypeOK
<1>2. taken[c] = Len(answers[c]) + 1 /\ taken[c] <= sent[c]
  BY DEF Turn
<1>3. taken[c] \in 1..Len(Script[c])
  BY <1>1, <1>2, ScriptFacts
<1>4. HandleRequest(Script[c][taken[c]]) \in Responses
  BY <1>3, ScriptFacts, HandleRequestAnswers
<1>5. QED
  BY <1>2, <1>3, <1>4 DEF Responses

-----------------------------------------------------------------------------
\* The inductive invariant holds at the start.
LEMMA InitInv == Init => IInv
<1> SUFFICES ASSUME Init PROVE IInv
  OBVIOUS
<1>1. TypeOK
  BY EmptySeq DEF Init, ClientsInit, TypeOK, ClientsTypeOK, SessionStates, Outcomes
<1>2. Listed /\ Found
  BY AsyncServerAssumption, EmptySeq DEF Init, ClientsInit, Listed, Found
<1>3. ASSUME NEW c \in Clients PROVE Turn(c)
  BY EmptySeq DEF Init, ClientsInit, Turn, AllKept
<1>4. QED
  BY <1>1, <1>2, <1>3 DEF IInv

-----------------------------------------------------------------------------
(***************************************************************************)
(* Steps of one session.  Each moves its own session on and leaves the     *)
(* places of connections and the other sessions alone.                     *)
(***************************************************************************)

\* Only the session c moves.
OnlyMoves(c) ==
  /\ UNCHANGED <<client, sent, backlog, incoming, listener>>
  /\ session[c] # "none" /\ session'[c] # "none"
  /\ \A d \in Clients \ {c} :
       /\ session'[d] = session[d]
       /\ outcome'[d] = outcome[d]
       /\ taken'[d] = taken[d]
       /\ response'[d] = response[d]
       /\ answers'[d] = answers[d]

LEMMA OneMoves ==
  ASSUME IInv, NEW c \in Clients, OnlyMoves(c), TypeOK', Turn(c)'
  PROVE  IInv'
<1>1. Listed' /\ Found'
  BY PlacesKept DEF IInv, OnlyMoves
<1>2. ASSUME NEW d \in Clients PROVE Turn(d)'
  <2>1. CASE d = c
    BY <2>1
  <2>2. CASE d # c
    BY <2>2, TurnKept DEF IInv, OnlyMoves
  <2>3. QED
    BY <2>1, <2>2
<1>3. QED
  BY <1>1, <1>2 DEF IInv

\* Start: nothing read, nothing answered.
LEMMA StartKeeps ==
  ASSUME IInv, NEW c \in Clients, Start(c)
  PROVE  IInv'
<1>1. TypeOK /\ Turn(c)
  BY DEF IInv
<1>2. OnlyMoves(c)
  BY <1>1 DEF OnlyMoves, TypeOK, clientVars, Start, Read
<1>3. TypeOK'
  BY <1>1 DEF TypeOK, ClientsTypeOK, SessionStates, Outcomes, clientVars, Start, Read
<1>4. Turn(c)'
  BY <1>1 DEF Turn, AllKept, TypeOK, ClientsTypeOK, clientVars, Start, Read
<1>5. QED
  BY <1>2, <1>3, <1>4, OneMoves

\* OnRead: the answer to the request just read is being written.
LEMMA OnReadKeeps ==
  ASSUME IInv, NEW c \in Clients, OnRead(c)
  PROVE  IInv'
<1>1. TypeOK /\ Turn(c)
  BY DEF IInv
<1>2. OnlyMoves(c)
  BY <1>1 DEF OnlyMoves, TypeOK, clientVars, OnRead, Write, End
<1>3. TypeOK'
  <2>1. outcome[c] = "ok" => HandleRequest(Script[c][taken[c]]) \in Responses
    BY <1>1, RequestDue DEF OnRead
  <2>2. response' \in [Clients -> Responses \cup {NoResponse}]
    BY <1>1, <2>1 DEF TypeOK, OnRead, Write
  <2>3. QED
    BY <1>1, <2>2 DEF TypeOK, ClientsTypeOK, SessionStates, clientVars, OnRead, Write, End
<1>4. Turn(c)'
  BY <1>1, RequestDue DEF Turn, AllKept, TypeOK, ClientsTypeOK, clientVars, OnRead, Write, End
<1>5. QED
  BY <1>2, <1>3, <1>4, OneMoves

\* OnWrite: a kept connection has answers that all keep it.
LEMMA OnWriteKeeps ==
  ASSUME IInv, NEW c \in Clients, OnWrite(c)
  PROVE  IInv'
<1>1. TypeOK /\ Turn(c)
  BY DEF IInv
<1>2. OnlyMoves(c)
  BY <1>1 DEF OnlyMoves, TypeOK, clientVars, OnWrite, Read, End, NeedEof
<1>3. TypeOK'
  BY <1>1 DEF TypeOK, ClientsTypeOK, SessionStates, Outcomes, clientVars, OnWrite, Read, End, NeedEof
<1>4. Turn(c)'
  BY <1>1 DEF Turn, AllKept, TypeOK, ClientsTypeOK, clientVars, OnWrite, Read, End, NeedEof
<1>5. QED
  BY <1>2, <1>3, <1>4, OneMoves

\* ReadArrives: one more request is read.
LEMMA ReadArrivesKeeps ==
  ASSUME IInv, NEW c \in Clients, ReadArrives(c)
  PROVE  IInv'
<1>1. TypeOK /\ Turn(c)
  BY DEF IInv
<1>2. OnlyMoves(c)
  BY <1>1 DEF OnlyMoves, TypeOK, clientVars, ReadArrives, Complete, MayArrive
<1>3. TypeOK'
  BY <1>1 DEF TypeOK, ClientsTypeOK, SessionStates, Outcomes, clientVars, ReadArrives, Complete, MayArrive
<1>4. Turn(c)'
  BY <1>1 DEF Turn, AllKept, TypeOK, ClientsTypeOK, clientVars, ReadArrives, Complete, MayArrive
<1>5. QED
  BY <1>2, <1>3, <1>4, OneMoves

\* ReadEnds: everything has been read and no more will be sent.
LEMMA ReadEndsKeeps ==
  ASSUME IInv, NEW c \in Clients, ReadEnds(c)
  PROVE  IInv'
<1>1. TypeOK /\ Turn(c)
  BY DEF IInv
<1>2. OnlyMoves(c)
  BY <1>1 DEF OnlyMoves, TypeOK, clientVars, ReadEnds, Complete, MayEnd
<1>3. TypeOK'
  BY <1>1 DEF TypeOK, ClientsTypeOK, SessionStates, Outcomes, clientVars, ReadEnds, Complete, MayEnd
<1>4. Turn(c)'
  BY <1>1 DEF Turn, AllKept, TypeOK, ClientsTypeOK, clientVars, ReadEnds, Complete, MayEnd
<1>5. QED
  BY <1>2, <1>3, <1>4, OneMoves

\* ReadFails.
LEMMA ReadFailsKeeps ==
  ASSUME IInv, NEW c \in Clients, ReadFails(c)
  PROVE  IInv'
<1>1. TypeOK /\ Turn(c)
  BY DEF IInv
<1>2. OnlyMoves(c)
  BY <1>1 DEF OnlyMoves, TypeOK, clientVars, ReadFails, Complete
<1>3. TypeOK'
  BY <1>1 DEF TypeOK, ClientsTypeOK, SessionStates, Outcomes, clientVars, ReadFails, Complete
<1>4. Turn(c)'
  BY <1>1 DEF Turn, AllKept, TypeOK, ClientsTypeOK, clientVars, ReadFails, Complete
<1>5. QED
  BY <1>2, <1>3, <1>4, OneMoves

\* WriteDone: the answer is the next one.
LEMMA WriteDoneKeeps ==
  ASSUME IInv, NEW c \in Clients, WriteDone(c)
  PROVE  IInv'
<1>1. TypeOK /\ Turn(c)
  BY DEF IInv
<1>2. OnlyMoves(c)
  BY <1>1 DEF OnlyMoves, TypeOK, clientVars, WriteDone, Complete
<1>3. TypeOK'
  <2>1. response[c] \in Responses
    BY <1>1, RequestDue DEF Turn, WriteDone
  <2>2. answers[c] \in Seq(Responses)
    BY <1>1 DEF TypeOK
  <2>3. Append(answers[c], response[c]) \in Seq(Responses)
    BY <2>1, <2>2, AppendProperties
  <2>4. answers' \in [Clients -> Seq(Responses)]
    BY <1>1, <2>3 DEF TypeOK, WriteDone
  <2>5. QED
    BY <1>1, <2>4 DEF TypeOK, ClientsTypeOK, SessionStates, Outcomes, clientVars, WriteDone, Complete
<1>4. Turn(c)'
  BY <1>1, RequestDue, AppendProperties DEF Turn, AllKept, TypeOK, ClientsTypeOK, clientVars, WriteDone, Complete
<1>5. QED
  BY <1>2, <1>3, <1>4, OneMoves

\* WriteFails.
LEMMA WriteFailsKeeps ==
  ASSUME IInv, NEW c \in Clients, WriteFails(c)
  PROVE  IInv'
<1>1. TypeOK /\ Turn(c)
  BY DEF IInv
<1>2. OnlyMoves(c)
  BY <1>1 DEF OnlyMoves, TypeOK, clientVars, WriteFails, Complete
<1>3. TypeOK'
  BY <1>1 DEF TypeOK, ClientsTypeOK, SessionStates, Outcomes, clientVars, WriteFails, Complete
<1>4. Turn(c)'
  BY <1>1 DEF Turn, AllKept, TypeOK, ClientsTypeOK, clientVars, WriteFails, Complete
<1>5. QED
  BY <1>2, <1>3, <1>4, OneMoves

\* Expire ends a read or a write with an error.
LEMMA ExpireKeeps ==
  ASSUME IInv, NEW c \in Clients, Expire(c)
  PROVE  IInv'
<1>1. TypeOK /\ Turn(c)
  BY DEF IInv
<1>2. OnlyMoves(c)
  BY <1>1 DEF OnlyMoves, TypeOK, clientVars, Expire, Complete
<1>3. TypeOK'
  BY <1>1 DEF TypeOK, ClientsTypeOK, SessionStates, Outcomes, clientVars, Expire, Complete
<1>4. Turn(c)'
  BY <1>1 DEF Turn, AllKept, TypeOK, ClientsTypeOK, clientVars, Expire, Complete
<1>5. QED
  BY <1>2, <1>3, <1>4, OneMoves

-----------------------------------------------------------------------------
\* Steps of the listener and of clients, which move connections.

\* ServeHttp, AcceptFails and Signal move nothing.
LEMMA ListenerKeeps ==
  ASSUME IInv, ServeHttp \/ AcceptFails \/ Signal
  PROVE  IInv'
<1>1. TypeOK'
  BY DEF IInv, TypeOK, ClientsTypeOK, clientVars, ServeHttp, AcceptFails, Signal
<1>2. Listed'
  BY DEF IInv, Listed, clientVars, ServeHttp, AcceptFails, Signal
<1>3. Found'
  BY DEF IInv, Found, clientVars, ServeHttp, AcceptFails, Signal
<1>4. ASSUME NEW c \in Clients PROVE Turn(c)'
  BY TurnKept DEF IInv, clientVars, ServeHttp, AcceptFails, Signal
<1>5. QED
  BY <1>1, <1>2, <1>3, <1>4 DEF IInv

\* Accept: the head of the queue becomes the connection on its way.
LEMMA AcceptKeeps ==
  ASSUME IInv, Accept
  PROVE  IInv'
<1>1. TypeOK /\ Listed /\ Found
  BY DEF IInv
<1>2. backlog \in Seq(Clients) /\ backlog # <<>>
  BY <1>1 DEF TypeOK, ClientsTypeOK, Accept
<1>3. /\ Len(backlog) \in Nat \ {0}
      /\ Head(backlog) = backlog[1]
      /\ backlog[1] \in Clients
      /\ backlog' \in Seq(Clients)
      /\ Len(backlog') = Len(backlog) - 1
      /\ \A i \in 1..Len(backlog') : backlog'[i] = backlog[i + 1]
  <2>1. Len(backlog) \in Nat \ {0}
    BY <1>2, EmptySeq, LenProperties
  <2>2. QED
    BY <1>2, <2>1, HeadTailProperties, ElementOfSeq DEF Accept
<1>4. TypeOK'
  BY <1>1, <1>3 DEF TypeOK, ClientsTypeOK, Accept
<1>5. Listed'
  BY <1>1, <1>3 DEF Listed, Accept
<1>6. Found'
  <2> SUFFICES ASSUME NEW c \in Clients, client[c] # "away", session[c] = "none",
                      incoming' # c
               PROVE  \E i \in 1..Len(backlog') : backlog'[i] = c
    BY DEF Found, Accept
  <2>1. incoming \notin Clients
    BY <1>1 DEF Listed, Accept
  <2>2. PICK i \in 1..Len(backlog) : backlog[i] = c
    BY <1>1, <2>1 DEF Found
  <2>3. i # 1
    BY <1>3, <2>2 DEF Accept
  <2>4. i - 1 \in 1..Len(backlog') /\ backlog'[i - 1] = c
    BY <1>3, <2>2, <2>3
  <2>5. QED
    BY <2>4
<1>7. ASSUME NEW c \in Clients PROVE Turn(c)'
  BY TurnKept DEF IInv, Accept
<1>8. QED
  BY <1>4, <1>5, <1>6, <1>7 DEF IInv

\* OnAccept: the connection on its way gets a session.
LEMMA OnAcceptKeeps ==
  ASSUME IInv, OnAccept
  PROVE  IInv'
<1>1. TypeOK /\ Listed /\ Found
  BY DEF IInv
<1>2. incoming' \notin Clients
  BY AsyncServerAssumption DEF OnAccept
<1>3. \A i \in 1..Len(backlog) : backlog[i] \in Clients
  BY <1>1, ElementOfSeq DEF TypeOK, ClientsTypeOK
<1>4. TypeOK'
  BY <1>1 DEF TypeOK, ClientsTypeOK, SessionStates, clientVars, OnAccept
<1>5. CASE listener = "failed"
  <2>1. incoming \notin Clients
    BY <1>1, <1>5 DEF Listed
  <2>2. Listed'
    BY <1>1, <1>2, <1>3, <1>5 DEF Listed, clientVars, OnAccept
  <2>3. Found'
    BY <1>1, <1>5, <2>1 DEF Found, clientVars, OnAccept
  <2>4. ASSUME NEW c \in Clients PROVE Turn(c)'
    BY <1>5, TurnKept DEF IInv, clientVars, OnAccept
  <2>5. QED
    BY <1>4, <2>2, <2>3, <2>4 DEF IInv
<1>6. CASE listener = "accepted"
  <2>1. /\ incoming \in Clients
        /\ session[incoming] = "none"
        /\ session' = [session EXCEPT ![incoming] = "dispatched"]
        /\ listener' = "accepting"
        /\ UNCHANGED <<client, sent, backlog>>
    BY <1>1, <1>6 DEF Listed, clientVars, OnAccept
  <2>2. Listed'
    BY <1>1, <1>2, <1>3, <2>1 DEF Listed, TypeOK
  <2>3. Found'
    BY <1>1, <2>1 DEF Found, TypeOK
  <2>4. ASSUME NEW c \in Clients PROVE Turn(c)'
    <3>1. CASE c # incoming
      BY <1>1, <2>1, <3>1, TurnKept DEF IInv, TypeOK, OnAccept
    <3>2. CASE c = incoming
      <4>1. Turn(c) /\ session'[c] = "dispatched"
        BY <1>1, <2>1, <3>2 DEF IInv, TypeOK
      <4>2. QED
        BY <2>1, <3>2, <4>1 DEF Turn, AllKept, OnAccept
    <3>3. QED
      BY <3>1, <3>2
  <2>5. QED
    BY <1>4, <2>2, <2>3, <2>4 DEF IInv
<1>7. QED
  BY <1>5, <1>6 DEF OnAccept

\* A client that connects joins the queue; its session is still to come.
LEMMA ConnectKeeps ==
  ASSUME IInv, NEW c \in Clients, Connect(c), UNCHANGED serverVars
  PROVE  IInv'
<1>1. TypeOK /\ Listed /\ Found
  BY DEF IInv
<1>2. /\ backlog \in Seq(Clients)
      /\ Len(backlog) \in Nat
      /\ \A i \in 1..Len(backlog) : backlog[i] \in Clients
  BY <1>1, LenProperties, ElementOfSeq DEF TypeOK, ClientsTypeOK
<1>3. /\ backlog' \in Seq(Clients)
      /\ Len(backlog') = Len(backlog) + 1
      /\ \A i \in 1..Len(backlog) : backlog'[i] = backlog[i]
      /\ backlog'[Len(backlog) + 1] = c
  BY <1>2, AppendProperties DEF Connect
<1>4. TypeOK'
  BY <1>1, <1>3 DEF TypeOK, ClientsTypeOK, Connect, serverVars
<1>5. session[c] = "none" /\ incoming # c /\ \A i \in 1..Len(backlog) : backlog[i] # c
  BY <1>1 DEF Listed, Connect
<1>6. \A d \in Clients : client'[d] = IF d = c THEN "open" ELSE client[d]
  BY <1>1 DEF TypeOK, ClientsTypeOK, Connect
<1>7. \A i \in 1..Len(backlog') : i \in 1..Len(backlog) \/ i = Len(backlog) + 1
  BY <1>2, <1>3
<1>8. Listed'
  BY <1>1, <1>2, <1>3, <1>5, <1>6, <1>7 DEF Listed, serverVars
<1>9. Found'
  <2> SUFFICES ASSUME NEW d \in Clients, client'[d] # "away", session[d] = "none",
                      incoming # d
               PROVE  \E i \in 1..Len(backlog') : backlog'[i] = d
    BY DEF Found, serverVars
  <2>1. CASE d = c
    BY <1>2, <1>3, <2>1
  <2>2. CASE d # c
    <3>1. PICK i \in 1..Len(backlog) : backlog[i] = d
      BY <1>1, <1>6, <2>2 DEF Found
    <3>2. QED
      BY <1>2, <1>3, <3>1
  <2>3. QED
    BY <2>1, <2>2
<1>10. ASSUME NEW d \in Clients PROVE Turn(d)'
  <2>1. CASE d # c
    BY <1>6, <2>1, TurnKept DEF IInv, Connect, serverVars
  <2>2. CASE d = c
    <3>1. Turn(d) /\ session[d] = "none"
      BY <1>5, <2>2 DEF IInv
    <3>2. QED
      BY <3>1 DEF Turn, AllKept, Connect, serverVars
  <2>3. QED
    BY <2>1, <2>2
<1>11. QED
  BY <1>4, <1>8, <1>9, <1>10 DEF IInv

\* A client that sends, shuts or vanishes only adds to what may be read.
LEMMA ClientStepKeeps ==
  ASSUME IInv, NEW c \in Clients, ClientStep(c), UNCHANGED serverVars
  PROVE  IInv'
<1>1. TypeOK /\ Listed /\ Found
  BY DEF IInv
<1>2. TypeOK'
  <2>1. \A d \in Clients : Len(Script[d]) \in Nat
    BY ScriptFacts
  <2>2. ClientsTypeOK'
    <3>1. CASE Send(c)
      BY <1>1, <2>1, <3>1 DEF TypeOK, ClientsTypeOK, Send
    <3>2. CASE Shut(c)
      BY <1>1, <3>2 DEF TypeOK, ClientsTypeOK, Shut
    <3>3. CASE Vanish(c)
      BY <1>1, <3>3 DEF TypeOK, ClientsTypeOK, Vanish
    <3>4. QED
      BY <3>1, <3>2, <3>3 DEF ClientStep
  <2>3. QED
    BY <1>1, <2>2 DEF TypeOK, serverVars
<1>3. /\ UNCHANGED backlog
      /\ \A d \in Clients : client'[d] = "away" <=> client[d] = "away"
  BY <1>1 DEF TypeOK, ClientsTypeOK, ClientStep, Send, Shut, Vanish
<1>4. \A i \in 1..Len(backlog) : backlog[i] \in Clients
  BY <1>1, ElementOfSeq DEF TypeOK, ClientsTypeOK
<1>5. Listed'
  BY <1>1, <1>3, <1>4 DEF Listed, serverVars
<1>6. Found'
  BY <1>1, <1>3 DEF Found, serverVars
<1>7. ASSUME NEW d \in Clients PROVE Turn(d)'
  <2>1. CASE d # c
    BY <1>1, <2>1, TurnKept DEF IInv, TypeOK, ClientsTypeOK, ClientStep, Send, Shut, Vanish, serverVars
  <2>2. CASE d = c
    <3>1. Turn(d)
      BY DEF IInv
    <3>2. /\ sent'[d] >= sent[d] /\ sent'[d] \in Nat /\ sent[d] \in Nat /\ taken[d] \in Nat
          /\ client[d] \in {"shut", "reset"} =>
               client'[d] \in {"shut", "reset"} /\ sent'[d] = sent[d]
      BY <1>1, <2>2 DEF TypeOK, ClientsTypeOK, ClientStep, Send, Shut, Vanish
    <3>3. QED
      BY <3>1, <3>2 DEF Turn, AllKept, serverVars
  <2>3. QED
    BY <2>1, <2>2
<1>8. QED
  BY <1>2, <1>5, <1>6, <1>7 DEF IInv

-----------------------------------------------------------------------------
\* The invariant is inductive.
LEMMA NextInv == IInv /\ [Next]_vars => IInv'
<1> SUFFICES ASSUME IInv, [Next]_vars PROVE IInv'
  OBVIOUS
<1>1. ASSUME NEW c \in Clients, ClientActs(c) PROVE IInv'
  BY <1>1, ConnectKeeps, ClientStepKeeps DEF ClientActs
<1>2. ASSUME NEW c \in Clients, Handle(c) PROVE IInv'
  BY <1>2, StartKeeps, OnReadKeeps, OnWriteKeeps DEF Handle
<1>3. ASSUME NEW c \in Clients, ReadCompletes(c) PROVE IInv'
  BY <1>3, ReadArrivesKeeps, ReadEndsKeeps, ReadFailsKeeps DEF ReadCompletes
<1>4. ASSUME NEW c \in Clients, WriteCompletes(c) PROVE IInv'
  BY <1>4, WriteDoneKeeps, WriteFailsKeeps DEF WriteCompletes
<1>5. CASE UNCHANGED vars
  <2>1. TypeOK'
    BY <1>5 DEF IInv, TypeOK, ClientsTypeOK, vars, clientVars, serverVars
  <2>2. Listed' /\ Found'
    BY <1>5 DEF IInv, Listed, Found, vars, clientVars, serverVars
  <2>3. ASSUME NEW c \in Clients PROVE Turn(c)'
    BY <1>5, TurnKept DEF IInv, vars, clientVars, serverVars
  <2>4. QED
    BY <2>1, <2>2, <2>3 DEF IInv
<1>6. QED
  BY <1>1, <1>2, <1>3, <1>4, <1>5, ListenerKeeps, AcceptKeeps, OnAcceptKeeps, ExpireKeeps
     DEF Next, Stopped

(***************************************************************************)
(* In every reachable state of the server: the queue and the sessions are  *)
(* well typed, connections are in place, and each session is as far as its *)
(* answers say.                                                            *)
(***************************************************************************)
THEOREM Invariant == Spec => []IInv
BY InitInv, NextInv, PTL DEF Spec

\* Type correctness.
THEOREM TypeCorrect == Spec => []TypeOK
<1>1. IInv => TypeOK
  BY DEF IInv
<1>2. QED
  BY <1>1, Invariant, PTL

(***************************************************************************)
(* Whatever the accept loop and the sessions do, a connection is in the    *)
(* queue once, on its way to OnAccept, or with a session, and never in two *)
(* of these places (http_server.h:138-171).                                *)
(***************************************************************************)
LEMMA OnePlace == IInv => ConnectionInOnePlace
<1> SUFFICES ASSUME IInv, NEW c \in Clients
             PROVE  IF client[c] = "away" THEN Places(c) = {}
                    ELSE \E p \in Places(c) : Places(c) = {p}
  BY DEF ConnectionInOnePlace
<1>1. TypeOK /\ Listed /\ Found
  BY DEF IInv
<1>2. DOMAIN backlog = 1..Len(backlog)
  BY <1>1, LenProperties DEF TypeOK, ClientsTypeOK
<1> DEFINE Indices == {i \in DOMAIN backlog : backlog[i] = c}
<1>3. CASE client[c] = "away"
  <2>1. Indices = {} /\ incoming # c /\ session[c] = "none"
    BY <1>1, <1>2, <1>3 DEF Listed
  <2>2. QED
    BY <1>3, <2>1 DEF Places
<1>4. CASE client[c] # "away"
  <2>1. CASE \E i \in 1..Len(backlog) : backlog[i] = c
    <3>1. PICK i \in 1..Len(backlog) : backlog[i] = c
      BY <2>1
    <3>2. Indices = {i} /\ incoming # c /\ session[c] = "none"
      BY <1>1, <1>2, <3>1 DEF Listed
    <3>3. Places(c) = {<<"backlog", i>>}
      BY <3>2 DEF Places
    <3>4. QED
      BY <1>4, <3>3
  <2>2. CASE Indices = {} /\ incoming = c
    <3>1. session[c] = "none"
      BY <1>1, <2>2 DEF Listed
    <3>2. Places(c) = {<<"incoming", 0>>}
      BY <2>2, <3>1 DEF Places
    <3>3. QED
      BY <1>4, <3>2
  <2>3. CASE Indices = {} /\ incoming # c
    <3>1. session[c] # "none"
      BY <1>1, <1>2, <1>4, <2>3 DEF Found
    <3>2. Places(c) = {<<"session", 0>>}
      BY <2>3, <3>1 DEF Places
    <3>3. QED
      BY <1>4, <3>2
  <2>4. QED
    BY <1>2, <2>1, <2>2, <2>3
<1>5. QED
  BY <1>3, <1>4

THEOREM KeepsConnections == Spec => []ConnectionInOnePlace
BY OnePlace, Invariant, PTL

(***************************************************************************)
(* The answers a client has had are those its requests are due, in order,  *)
(* and none follows one that ends the connection (http_server.cpp:37-67).  *)
(***************************************************************************)
LEMMA InTurn == IInv => AnsweredInTurn
<1> SUFFICES ASSUME IInv, NEW c \in Clients
             PROVE  /\ Len(answers[c]) <= sent[c]
                    /\ \A i \in DOMAIN answers[c] :
                         /\ X!IsAnswer(Script[c][i], answers[c][i])
                         /\ i < Len(answers[c]) => answers[c][i].keep_alive
  BY DEF AnsweredInTurn, X!AnsweredInTurn
<1>1. TypeOK /\ Turn(c)
  BY DEF IInv
<1>2. /\ DOMAIN answers[c] = 1..Len(answers[c])
      /\ Len(answers[c]) \in Nat
      /\ Len(Script[c]) \in Nat
      /\ sent[c] \in Nat /\ taken[c] \in Nat
      /\ sent[c] <= Len(Script[c])
  BY <1>1, LenProperties, ScriptFacts DEF TypeOK, ClientsTypeOK
<1>3. Len(answers[c]) <= sent[c]
  BY <1>1, <1>2 DEF Turn
<1>4. ASSUME NEW i \in 1..Len(answers[c])
      PROVE  /\ X!IsAnswer(Script[c][i], answers[c][i])
             /\ i < Len(answers[c]) => answers[c][i].keep_alive
  <2>1. Script[c][i] \in Requests
    BY <1>2, <1>3, ScriptFacts
  <2>2. answers[c][i] = HandleRequest(Script[c][i])
    BY <1>1 DEF Turn
  <2>3. i < Len(answers[c]) => i \in 1..(Len(answers[c]) - 1)
    BY <1>2
  <2>4. QED
    BY <1>1, <2>1, <2>2, <2>3, HandleRequestAnswers DEF Turn
<1>5. QED
  BY <1>2, <1>3, <1>4

THEOREM AnswersInTurn == Spec => []AnsweredInTurn
BY InTurn, Invariant, PTL

-----------------------------------------------------------------------------
\* The server implements the exchange.

\* What a client sees when only the session c moves.
LEMMA PhaseMoves ==
  ASSUME NEW c \in Clients,
         \A d \in Clients \ {c} : session'[d] = session[d] /\ outcome'[d] = outcome[d]
  PROVE  /\ phase' = [phase EXCEPT ![c] = PhaseOf(session'[c], outcome'[c])]
         /\ phase[c] = PhaseOf(session[c], outcome[c])
         /\ PhaseOf(session'[c], outcome'[c]) = PhaseOf(session[c], outcome[c]) => UNCHANGED phase
BY DEF phase

\* Where the phase changes.
LEMMA Phases ==
  ASSUME NEW s \in SessionStates, NEW ec \in Outcomes
  PROVE  /\ s = "none" => PhaseOf(s, ec) = "waiting"
         /\ s = "over" /\ ec = "error" => PhaseOf(s, ec) = "broken"
         /\ s = "over" /\ ec # "error" => PhaseOf(s, ec) = "closed"
         /\ s \notin {"none", "over"} => PhaseOf(s, ec) = "open"
BY DEF PhaseOf, SessionStates, Outcomes

LEMMA InitExchange == Init => X!Init
BY DEF Init, ClientsInit, X!Init, phase, PhaseOf

\* A session that stays open, with the answers it had, shows nothing.
LEMMA ShowsNothing ==
  ASSUME TypeOK, TypeOK', NEW c \in Clients,
         \A d \in Clients \ {c} : session'[d] = session[d] /\ outcome'[d] = outcome[d],
         session[c] \notin {"none", "over"}, session'[c] \notin {"none", "over"},
         UNCHANGED <<sent, answers>>
  PROVE  UNCHANGED X!vars
<1>1. PhaseOf(session[c], outcome[c]) = "open"
  BY Phases DEF TypeOK
<1>2. PhaseOf(session'[c], outcome'[c]) = "open"
  BY Phases DEF TypeOK
<1>3. QED
  BY <1>1, <1>2, PhaseMoves DEF X!vars

\* A session that ends does so in good order, or with an error.
LEMMA Ends ==
  ASSUME TypeOK, TypeOK', NEW c \in Clients,
         \A d \in Clients \ {c} : session'[d] = session[d],
         session[c] \notin {"none", "over"}, session'[c] = "over",
         UNCHANGED <<sent, answers, outcome>>,
         outcome[c] # "error" /\ X!KeptAlive(c) => Len(answers[c]) = sent[c]
  PROVE  X!Next
<1>1. PhaseOf(session[c], outcome[c]) = "open"
  BY Phases DEF TypeOK
<1>2. CASE outcome[c] = "error"
  <2>1. PhaseOf(session'[c], outcome'[c]) = "broken"
    BY <1>2, Phases DEF TypeOK
  <2>2. X!Break(c)
    BY <1>1, <2>1, PhaseMoves DEF X!Break
  <2>3. QED
    BY <2>2 DEF X!Next
<1>3. CASE outcome[c] # "error"
  <2>1. PhaseOf(session'[c], outcome'[c]) = "closed"
    BY <1>3, Phases DEF TypeOK
  <2>2. X!Close(c)
    BY <1>1, <1>3, <2>1, PhaseMoves DEF X!Close
  <2>3. QED
    BY <2>2 DEF X!Next
<1>4. QED
  BY <1>2, <1>3

\* Every step of the server is a step of the exchange, or shows nothing.
LEMMA NextExchange ==
  ASSUME IInv, IInv', [Next]_vars
  PROVE  [X!Next]_(X!vars)
<1>0. TypeOK /\ TypeOK'
  BY DEF IInv
<1>1. ASSUME NEW c \in Clients, ClientActs(c) PROVE [X!Next]_(X!vars)
  <2>1. UNCHANGED <<answers, phase>>
    BY <1>1 DEF ClientActs, serverVars, phase
  <2>2. CASE Send(c)
    <3>1. X!Send(c)
      BY <2>1, <2>2 DEF Send, X!Send
    <3>2. QED
      BY <3>1 DEF X!Next
  <2>3. CASE Connect(c) \/ Shut(c) \/ Vanish(c)
    BY <2>1, <2>3 DEF Connect, Shut, Vanish, X!vars
  <2>4. QED
    BY <1>1, <2>2, <2>3 DEF ClientActs, ClientStep
<1>2. CASE ServeHttp \/ Accept \/ AcceptFails \/ Signal \/ UNCHANGED vars
  BY <1>2 DEF ServeHttp, Accept, AcceptFails, Signal, vars, clientVars, serverVars, X!vars, phase
<1>3. CASE OnAccept
  <2>1. CASE listener = "failed"
    BY <1>3, <2>1 DEF OnAccept, clientVars, X!vars, phase
  <2>2. CASE listener = "accepted"
    <3>1. /\ incoming \in Clients
          /\ session[incoming] = "none"
          /\ session' = [session EXCEPT ![incoming] = "dispatched"]
          /\ UNCHANGED <<sent, answers, outcome>>
      BY <1>3, <2>2 DEF IInv, Listed, OnAccept, clientVars
    <3>2. session'[incoming] = "dispatched"
      BY <1>0, <3>1 DEF TypeOK
    <3>3. PhaseOf(session[incoming], outcome[incoming]) = "waiting"
      BY <1>0, <3>1, Phases DEF TypeOK
    <3>4. PhaseOf(session'[incoming], outcome'[incoming]) = "open"
      BY <3>2 DEF PhaseOf
    <3>5. X!Open(incoming)
      BY <3>1, <3>3, <3>4, PhaseMoves DEF X!Open
    <3>6. QED
      BY <3>1, <3>5 DEF X!Next
  <2>3. QED
    BY <1>3, <2>1, <2>2 DEF OnAccept
<1>4. ASSUME NEW c \in Clients, Start(c) PROVE [X!Next]_(X!vars)
  BY <1>0, <1>4, ShowsNothing DEF Start, Read, TypeOK, clientVars
<1>5. ASSUME NEW c \in Clients, OnRead(c) PROVE [X!Next]_(X!vars)
  <2>1. CASE outcome[c] = "ok"
    BY <1>0, <1>5, <2>1, ShowsNothing DEF OnRead, Write, TypeOK, clientVars
  <2>2. CASE outcome[c] # "ok"
    <3>1. outcome[c] # "error" => Len(answers[c]) = sent[c]
      BY <1>0, <1>5, <2>2 DEF IInv, Turn, OnRead, TypeOK, Outcomes
    <3>2. QED
      BY <1>0, <1>5, <2>2, <3>1, Ends DEF OnRead, End, TypeOK, clientVars
  <2>3. QED
    BY <2>1, <2>2
<1>6. ASSUME NEW c \in Clients, OnWrite(c) PROVE [X!Next]_(X!vars)
  <2>1. CASE outcome[c] = "ok" /\ ~NeedEof(response[c])
    BY <1>0, <1>6, <2>1, ShowsNothing DEF OnWrite, Read, TypeOK, clientVars
  <2>2. CASE outcome[c] # "ok" \/ NeedEof(response[c])
    <3>1. outcome[c] # "error" => ~X!KeptAlive(c)
      <4>1. SUFFICES ASSUME outcome[c] # "error" PROVE ~X!KeptAlive(c)
        OBVIOUS
      <4>2. outcome[c] = "ok" /\ NeedEof(response[c])
        BY <1>0, <1>6, <2>2, <4>1 DEF IInv, Turn, OnWrite, TypeOK, Outcomes
      <4>3. Len(answers[c]) > 0 /\ response[c] = answers[c][Len(answers[c])]
        BY <1>6, <4>2 DEF IInv, Turn, OnWrite
      <4>4. Len(answers[c]) \in DOMAIN answers[c]
        BY <1>0, <4>3, LenProperties DEF TypeOK
      <4>5. QED
        BY <4>2, <4>3, <4>4 DEF X!KeptAlive, NeedEof
    <3>2. QED
      BY <1>0, <1>6, <2>2, <3>1, Ends DEF OnWrite, End, TypeOK, clientVars
  <2>3. QED
    BY <2>1, <2>2
<1>7. ASSUME NEW c \in Clients, ReadCompletes(c) \/ WriteFails(c) \/ Expire(c)
      PROVE  [X!Next]_(X!vars)
  <2>1. /\ session[c] \in {"reading", "writing"}
        /\ UNCHANGED <<sent, answers>>
        /\ session'[c] \in {"read", "written"}
        /\ \A d \in Clients \ {c} : session'[d] = session[d] /\ outcome'[d] = outcome[d]
    BY <1>0, <1>7 DEF ReadCompletes, ReadArrives, ReadEnds, ReadFails, WriteFails, Expire,
                      Complete, TypeOK, clientVars
  <2>2. QED
    BY <1>0, <2>1, ShowsNothing
<1>8. ASSUME NEW c \in Clients, WriteDone(c) PROVE [X!Next]_(X!vars)
  <2>1. TypeOK /\ Turn(c) /\ session[c] = "writing" /\ session'[c] = "written"
    BY <1>0, <1>8 DEF IInv, WriteDone, Complete, TypeOK
  <2>2. PhaseOf(session[c], outcome[c]) = "open" /\ PhaseOf(session'[c], outcome'[c]) = "open"
    BY <2>1 DEF PhaseOf
  <2>3. \A d \in Clients \ {c} : session'[d] = session[d] /\ outcome'[d] = outcome[d]
    BY <1>0, <1>8 DEF WriteDone, Complete, TypeOK
  <2>4. phase[c] = "open" /\ UNCHANGED phase
    BY <2>2, <2>3, PhaseMoves
  <2>5. X!KeptAlive(c)
    BY <1>0, <2>1, LenProperties DEF Turn, AllKept, X!KeptAlive, TypeOK
  <2>6. /\ taken[c] = Len(answers[c]) + 1
        /\ taken[c] \in 1..Len(Script[c])
        /\ response[c] = HandleRequest(Script[c][taken[c]])
        /\ response[c] \in Responses
    BY <2>1, RequestDue DEF Turn
  <2>7. X!IsAnswer(Script[c][Len(answers[c]) + 1], response[c])
    BY <2>6, ScriptFacts, HandleRequestAnswers
  <2>8. response[c] \in X!Responses
    BY <2>6 DEF Responses, Texts, InvalidMethod, X!Responses, X!Texts, X!InvalidMethod
  <2>9. Len(answers[c]) < sent[c]
    BY <1>0, <2>1, <2>6, LenProperties DEF Turn, TypeOK, ClientsTypeOK
  <2>10. X!Answer(c)
    BY <1>8, <2>4, <2>5, <2>7, <2>8, <2>9 DEF X!Answer, WriteDone, Complete, clientVars
  <2>11. QED
    BY <2>10 DEF X!Next
<1>9. QED
  BY <1>1, <1>2, <1>3, <1>4, <1>5, <1>6, <1>7, <1>8 DEF Next, Handle, WriteCompletes, Stopped

(***************************************************************************)
(* The server implements HttpExchange for any clients and scripts: with    *)
(* failing accepts, deadlines, clients that vanish and a signal at any     *)
(* moment, requests are answered in turn, nothing follows an answer that   *)
(* ends the connection, and a connection is closed in good order only      *)
(* when that is due.                                                       *)
(***************************************************************************)
THEOREM Implements == Spec => ImplementsExchange
<1>1. IInv /\ IInv' /\ [Next]_vars => [X!Next]_(X!vars)
  BY NextExchange
<1>2. QED
  BY <1>1, InitExchange, Invariant, PTL DEF Spec, ImplementsExchange, X!Spec


-----------------------------------------------------------------------------
(***************************************************************************)
(* Nothing is forgotten while the server runs.  A connection that waits is *)
(* in the queue of a listener that accepts, or OnAccept is due, or the     *)
(* listener has given up; a session has a handler that is due, or waits    *)
(* for an operation that its deadline can end.                             *)
(***************************************************************************)
Held == {"reading", "read", "writing", "written"}
Due == {"dispatched", "read", "written"}

Watched ==
  /\ listener = "idle" => \A c \in Clients : client[c] = "away"
  /\ \A c \in Clients : session[c] \in Held => deadline[c]

NothingForgotten ==
  \A c \in Clients :
    /\ client[c] # "away" /\ session[c] = "none" =>
         \/ listener = "accepting" /\ backlog # <<>>
         \/ listener \in {"accepted", "failed", "dead"}
    /\ session[c] \notin {"none", "over"} => session[c] \in Due \/ deadline[c]

LEMMA WatchedInit == Init => Watched
BY DEF Init, ClientsInit, Watched, Held

\* Only Read begins an operation on a stream that may have had no deadline.
LEMMA WatchedNext == IInv /\ Watched /\ [Next]_vars => Watched'
<1> SUFFICES ASSUME IInv, Watched, [Next]_vars PROVE Watched'
  OBVIOUS
<1>1. /\ session \in [Clients -> SessionStates] /\ deadline \in [Clients -> BOOLEAN]
      /\ client \in [Clients -> {"away", "open", "shut", "reset"}]
  BY DEF IInv, TypeOK, ClientsTypeOK
<1>2. UNCHANGED <<listener, client, session, deadline>> => Watched'
  BY DEF Watched
<1>3. ASSUME NEW c \in Clients, ClientActs(c) PROVE Watched'
  <2>1. UNCHANGED <<listener, session, deadline>>
    BY <1>3 DEF ClientActs, serverVars
  <2>2. CASE listener = "idle"
    <3>1. client[c] = "away" /\ ClientStep(c)
      BY <1>3, <2>2 DEF ClientActs, Watched
    <3>2. FALSE
      BY <3>1 DEF ClientStep, Send, Shut, Vanish, IInv, TypeOK, ClientsTypeOK, Listed
    <3>3. QED
      BY <3>2
  <2>3. CASE listener # "idle"
    BY <2>1, <2>3 DEF Watched
  <2>4. QED
    BY <2>2, <2>3
<1>4. ASSUME NEW c \in Clients, Handle(c) PROVE Watched'
  <2>1. /\ UNCHANGED <<listener, client>>
        /\ \A d \in Clients \ {c} : session'[d] = session[d] /\ deadline'[d] = deadline[d]
    BY <1>1, <1>4 DEF Handle, Start, OnRead, OnWrite, Read, Write, End, clientVars
  <2>2. session'[c] \in Held => deadline'[c]
    <3>1. CASE Start(c)
      BY <1>1, <3>1 DEF Start, Read
    <3>2. CASE OnRead(c)
      BY <1>1, <3>2 DEF OnRead, Write, End, Watched, Held
    <3>3. CASE OnWrite(c)
      BY <1>1, <3>3 DEF OnWrite, Read, End, Held
    <3>4. QED
      BY <1>4, <3>1, <3>2, <3>3 DEF Handle
  <2>3. QED
    BY <2>1, <2>2 DEF Watched
<1>5. ASSUME NEW c \in Clients, ReadCompletes(c) \/ WriteCompletes(c) \/ Expire(c) PROVE Watched'
  <2>1. PICK ec \in Outcomes : Complete(c, ec) /\ session[c] \in {"reading", "writing"}
    BY <1>5 DEF ReadCompletes, ReadArrives, ReadEnds, ReadFails, WriteCompletes, WriteDone,
                WriteFails, Expire, Outcomes
  <2>2. UNCHANGED <<listener, client, deadline>>
    BY <2>1 DEF Complete, clientVars
  <2>3. \A d \in Clients \ {c} : session'[d] = session[d]
    BY <1>1, <2>1 DEF Complete
  <2>4. deadline[c]
    BY <2>1 DEF Watched, Held
  <2>5. QED
    BY <2>2, <2>3, <2>4 DEF Watched
<1>6. CASE OnAccept
  <2>1. /\ listener' # "idle" /\ UNCHANGED <<client, deadline>>
        /\ \A c \in Clients : session'[c] \in Held => session[c] \in Held
    BY <1>1, <1>6 DEF OnAccept, clientVars, Held
  <2>2. QED
    BY <2>1 DEF Watched
<1>7. CASE ServeHttp \/ Accept \/ AcceptFails
  <2>1. listener' # "idle" /\ UNCHANGED <<client, session, deadline>>
    BY <1>7 DEF ServeHttp, Accept, AcceptFails, clientVars
  <2>2. QED
    BY <2>1 DEF Watched
<1>8. CASE Signal \/ Stopped \/ UNCHANGED vars
  BY <1>2, <1>8 DEF Signal, Stopped, vars, clientVars, serverVars
<1>9. QED
  BY <1>3, <1>4, <1>5, <1>6, <1>7, <1>8 DEF Next

LEMMA Remembered ==
  ASSUME IInv, Watched
  PROVE  NothingForgotten
<1> SUFFICES ASSUME NEW c \in Clients
             PROVE  /\ client[c] # "away" /\ session[c] = "none" =>
                         \/ listener = "accepting" /\ backlog # <<>>
                         \/ listener \in {"accepted", "failed", "dead"}
                    /\ session[c] \notin {"none", "over"} => session[c] \in Due \/ deadline[c]
  BY DEF NothingForgotten
<1>1. TypeOK /\ Listed /\ Found
  BY DEF IInv
<1>2. ASSUME client[c] # "away", session[c] = "none", listener \notin {"accepted", "failed", "dead"}
      PROVE  listener = "accepting" /\ backlog # <<>>
  <2>1. listener = "accepting" /\ incoming # c
    BY <1>1, <1>2 DEF TypeOK, Watched, Listed
  <2>2. \E i \in 1..Len(backlog) : backlog[i] = c
    BY <1>1, <1>2, <2>1 DEF Found
  <2>3. QED
    BY <2>1, <2>2, EmptySeq
<1>3. session[c] \notin {"none", "over"} => session[c] \in Due \/ deadline[c]
  BY <1>1 DEF TypeOK, SessionStates, Watched, Held, Due
<1>4. QED
  BY <1>2, <1>3

(***************************************************************************)
(* This is the safety half of EventuallyAccepted and SessionsEnd, for any  *)
(* number of clients: the accept loop is never left with a connection that *)
(* nobody will take (http_server.h:138-167), and every read and write has  *)
(* the deadline that SessionBase::Read set (http_server.cpp:26-34).        *)
(***************************************************************************)
THEOREM ForgetsNothing == Spec => []NothingForgotten
<1>1. IInv /\ Watched => NothingForgotten
  BY Remembered
<1>2. QED
  BY <1>1, WatchedInit, WatchedNext, Invariant, PTL DEF Spec
=============================================================================
