---------------------------- MODULE RadioProofs -----------------------------
(***************************************************************************)
(* Proofs about Radio, for any clients, buffer, device and network.        *)
(***************************************************************************)
EXTENDS Radio, SequenceTheorems, TLAPS

Limit(n) == IF n < BufferFrames THEN n ELSE BufferFrames

\* The first n frames of recording r, then zeros.
Recording(r, n) == [k \in 1..BufferFrames |-> IF k <= n THEN <<r, k>> ELSE Zero]

(***************************************************************************)
(* A recorder that is at work has counted and copied just what it was      *)
(* given, as far as it fits; one that is not has nothing in its buffer.    *)
(***************************************************************************)
Recorder(c) ==
  /\ client[c] = "recording" =>
       /\ number[c] \in 1..MaxRecordings
       /\ current_off[c] + copying[c] = Limit(heard[c])
       /\ buffer[c] = Recording(number[c], Limit(heard[c]))
  /\ client[c] # "recording" => copying[c] = 0 /\ buffer[c] = <<>>
  /\ client[c] = "recorded" =>
       result[c] = [frames |-> Limit(heard[c]),
                    data |-> Recording(number[c], Limit(heard[c]))]

\* A datagram that holds the beginning of the recording it is named after.
Sound(d) == \E n \in 0..BufferFrames : d.data = Recording(d.number, n)

\* A player has copied what it gave the speaker, as far as there was something.
PlayerInv ==
  /\ play_off + filling = Limit(Len(output))
  /\ filling > 0 => server = "playing"
  /\ server = "playing" \/ output # <<>> => Sound(recv_buf)
  /\ \A k \in 1..Len(output) :
       output[k] = IF k <= BufferFrames THEN recv_buf.data[k] ELSE Quiet

IInv ==
  /\ TypeOK
  /\ \A c \in Clients : Recorder(c)
  /\ \A d \in net : Sound(d)
  /\ \A i \in 1..Len(queue) : Sound(queue[i])
  /\ PlayerInv

-----------------------------------------------------------------------------
\* A function on 1..n is a sequence of length n.
LEMMA FunctionIsSeq ==
  ASSUME NEW S, NEW n \in Nat, NEW f \in [1..n -> S]
  PROVE  f \in Seq(S) /\ Len(f) = n
<1>1. f \in Seq(S)
  BY SeqDef
<1>2. QED
  BY <1>1, LenProperties

\* What resize() leaves has the length of the buffer and frames in it.
LEMMA ResizedType ==
  ASSUME NEW b \in Seq(Frames)
  PROVE  Resized(b) \in Seq(Frames) /\ Len(Resized(b)) = BufferFrames
<1>1. \A k \in 1..BufferFrames : k <= Len(b) => b[k] \in Frames
  BY LenProperties, ElementOfSeq, RadioAssumption
<1>2. Resized(b) \in [1..BufferFrames -> Frames]
  BY <1>1 DEF Resized, Frames
<1>3. QED
  BY <1>2, FunctionIsSeq, RadioAssumption

\* An empty buffer resized is a recording without frames; a full one stays.
LEMMA ResizedEmpty == \A r : Resized(<<>>) = Recording(r, 0)
BY DEF Resized, Recording

LEMMA ResizedFull ==
  ASSUME NEW b \in Seq(Frames), Len(b) = BufferFrames
  PROVE  Resized(b) = b
<1>1. b = [k \in 1..BufferFrames |-> b[k]]
  BY LenProperties
<1>2. QED
  BY <1>1, RadioAssumption DEF Resized

LEMMA RecordingLen == \A r, n : Len(Recording(r, n)) = BufferFrames
<1>1. SUFFICES ASSUME NEW r, NEW n PROVE Len(Recording(r, n)) = BufferFrames
  OBVIOUS
<1>2. Recording(r, n) \in [1..BufferFrames -> {Recording(r, n)[k] : k \in 1..BufferFrames}]
  BY DEF Recording
<1>3. QED
  BY <1>2, FunctionIsSeq, RadioAssumption

-----------------------------------------------------------------------------
LEMMA InitInv == Init => IInv
<1>1. SUFFICES ASSUME Init PROVE IInv
  OBVIOUS
<1>2. TypeOK
  <2>1. <<>> \in Seq(Frames) /\ <<>> \in Seq(Datagrams) /\ Len(<<>>) = 0
    BY EmptySeq
  <2>2. /\ recordings \in 0..MaxRecordings
        /\ client \in [Clients -> {"asking", "recording", "recorded", "ended"}]
        /\ server \in {"receiving", "playing", "ended"}
        /\ number \in [Clients -> 0..MaxRecordings]
        /\ heard \in [Clients -> 0..SleepFrames]
    BY <1>1, RadioAssumption DEF Init, RecordersInit
  <2>3. /\ current_off \in [Clients -> 0..BufferFrames]
        /\ copying \in [Clients -> 0..BufferFrames]
        /\ buffer \in [Clients -> Seq(Frames)]
        /\ result \in [Clients -> [frames : 0..BufferFrames, data : Seq(Frames)]]
    BY <1>1, <2>1, RadioAssumption DEF Init, RecordersInit
  <2>4. recv_buf \in Datagrams
    BY <1>1, <2>1, RadioAssumption DEF Init, PlayerInit, Datagrams
  <2>5. net = {} /\ queue = <<>> /\ play_off = 0 /\ filling = 0 /\ output = <<>>
    BY <1>1 DEF Init, PlayerInit
  <2>6. 0 \in 0..BufferFrames /\ 0 <= QueueLimit
    BY RadioAssumption
  <2>7. queue \in Seq(Datagrams) /\ Len(queue) <= QueueLimit /\ output \in Seq(Frames)
    BY <2>1, <2>5, <2>6
  <2>8. QED
    BY <2>2, <2>3, <2>4, <2>5, <2>6, <2>7 DEF TypeOK
<1>3. \A c \in Clients : Recorder(c)
  BY <1>1 DEF Init, RecordersInit, Recorder
<1>4. PlayerInv
  BY <1>1, RadioAssumption DEF Init, PlayerInit, PlayerInv, Limit
<1>5. QED
  BY <1>1, <1>2, <1>3, <1>4 DEF IInv, Init

\* What a client's step leaves of the server, and the server's of the clients.
LEMMA ServerKept ==
  ASSUME IInv, UNCHANGED <<net, queue, playerVars>>
  PROVE  /\ (\A d \in net : Sound(d))'
         /\ (\A i \in 1..Len(queue) : Sound(queue[i]))'
         /\ PlayerInv'
BY DEF IInv, PlayerInv, Sound, playerVars

LEMMA ClientsKept ==
  ASSUME IInv, UNCHANGED clientVars
  PROVE  \A c \in Clients : Recorder(c)'
BY DEF IInv, Recorder, clientVars, recorderVars

\* A step of one client leaves the others as they were.
LEMMA OthersKept ==
  ASSUME NEW c, Recorder(c),
         client'[c] = client[c], number'[c] = number[c], heard'[c] = heard[c],
         buffer'[c] = buffer[c], current_off'[c] = current_off[c],
         copying'[c] = copying[c], result'[c] = result[c]
  PROVE  Recorder(c)'
BY DEF Recorder

LEMMA StartKeeps ==
  ASSUME IInv, NEW c \in Clients, StartRecording(c)
  PROVE  IInv'
<1>0. TypeOK /\ Recorder(c) /\ client[c] = "asking" /\ recordings + 1 \in 1..MaxRecordings
  <2>1. recordings \in 0..MaxRecordings /\ recordings < MaxRecordings
    BY DEF IInv, StartRecording, TypeOK
  <2>2. QED
    BY <2>1, RadioAssumption DEF IInv, StartRecording
<1>1. buffer[c] \in Seq(Frames) /\ buffer[c] = <<>>
  BY <1>0 DEF TypeOK, Recorder
<1>2. TypeOK'
  <2>1. Resized(buffer[c]) \in Seq(Frames)
    BY <1>1, ResizedType
  <2>2. buffer' \in [Clients -> Seq(Frames)]
    BY <1>0, <2>1 DEF TypeOK, StartRecording
  <2>3. /\ client' \in [Clients -> {"asking", "recording", "recorded", "ended"}]
        /\ recordings' \in 0..MaxRecordings
        /\ number' \in [Clients -> 0..MaxRecordings]
        /\ heard' \in [Clients -> 0..SleepFrames]
        /\ current_off' \in [Clients -> 0..BufferFrames]
    BY <1>0, RadioAssumption DEF TypeOK, StartRecording
  <2>4. QED
    BY <1>0, <2>2, <2>3 DEF TypeOK, StartRecording, playerVars
<1>3. Recorder(c)'
  <2>1. /\ client'[c] = "recording" /\ number'[c] = recordings + 1
        /\ heard'[c] = 0 /\ current_off'[c] = 0 /\ copying'[c] = 0
        /\ buffer'[c] = Resized(<<>>)
    BY <1>0, <1>1 DEF TypeOK, StartRecording, Recorder
  <2>2. QED
    BY <1>0, <2>1, ResizedEmpty, RadioAssumption DEF Recorder, Limit
<1>4. ASSUME NEW d \in Clients \ {c} PROVE Recorder(d)'
  BY <1>0, OthersKept DEF IInv, TypeOK, StartRecording
<1>5. QED
  BY <1>2, <1>3, <1>4, ServerKept DEF IInv, StartRecording

LEMMA SaveKeeps ==
  ASSUME IInv, NEW c \in Clients, NEW n \in 1..MaxPeriod, SaveBuffer(c, n)
  PROVE  IInv'
<1> DEFINE off == current_off[c]
           size == CopySize(n, Len(buffer[c]), off)
           more == [k \in 1..Len(buffer[c]) |->
                      IF k \in (off + 1)..(off + size) THEN <<number[c], heard[c] + (k - off)>>
                      ELSE buffer[c][k]]
<1>0. TypeOK /\ Recorder(c) /\ client[c] = "recording" /\ copying[c] = 0
  BY DEF IInv, SaveBuffer
<1>1. /\ n \in Nat /\ n > 0 /\ heard[c] \in Nat /\ heard[c] + n <= SleepFrames
      /\ number[c] \in 1..MaxRecordings
      /\ off = Limit(heard[c])
      /\ off \in 0..BufferFrames
      /\ buffer[c] = Recording(number[c], off)
  BY <1>0, RadioAssumption DEF TypeOK, Recorder, SaveBuffer
<1>2. Len(buffer[c]) = BufferFrames /\ buffer[c] \in Seq(Frames)
  BY <1>0, <1>1, RecordingLen DEF TypeOK
<1>3. /\ size \in 0..BufferFrames
      /\ off + size = Limit(heard[c] + n)
      /\ size > 0 => off = heard[c]
      /\ size <= n
  BY <1>1, <1>2, RadioAssumption, SMTT(30) DEF CopySize, Limit
<1>4. more = Recording(number[c], Limit(heard[c] + n))
  <2>1. ASSUME NEW k \in 1..BufferFrames
        PROVE  more[k] = Recording(number[c], Limit(heard[c] + n))[k]
    <3>1. CASE k \in (off + 1)..(off + size)
      BY <1>1, <1>2, <1>3, <2>1, <3>1, RadioAssumption DEF Recording
    <3>2. CASE k \notin (off + 1)..(off + size)
      BY <1>1, <1>2, <1>3, <2>1, <3>2, RadioAssumption DEF Recording
    <3>3. QED
      BY <3>1, <3>2
  <2>2. more = [k \in 1..BufferFrames |-> more[k]]
    BY <1>2
  <2>3. QED
    BY <2>1, <2>2 DEF Recording
<1>5. more \in Seq(Frames)
  <2>1. ASSUME NEW k \in 1..BufferFrames PROVE more[k] \in Frames
    <3>1. buffer[c][k] \in Frames
      BY <1>2, ElementOfSeq
    <3>2. k \in (off + 1)..(off + size) => heard[c] + (k - off) \in 1..SleepFrames
      <4>1. SUFFICES ASSUME k \in (off + 1)..(off + size)
                     PROVE  heard[c] + (k - off) \in 1..SleepFrames
        OBVIOUS
      <4>2. off \in Nat /\ size \in Nat /\ k \in Nat /\ k > off /\ k <= off + size
        BY <1>1, <1>3, <4>1, RadioAssumption
      <4>3. k - off \in 1..n
        BY <1>1, <1>3, <4>2
      <4>4. QED
        BY <1>1, <4>3, RadioAssumption
    <3>3. QED
      BY <1>1, <1>2, <3>1, <3>2 DEF Frames
  <2>2. more \in [1..BufferFrames -> Frames]
    BY <1>2, <2>1
  <2>3. QED
    BY <2>2, FunctionIsSeq, RadioAssumption
<1>6. /\ heard' = [heard EXCEPT ![c] = heard[c] + n]
      /\ copying' = [copying EXCEPT ![c] = size]
      /\ buffer' = [buffer EXCEPT ![c] = more]
      /\ UNCHANGED <<recordings, client, number, current_off, result, net, queue, playerVars>>
  BY DEF SaveBuffer
<1> HIDE DEF off, size, more
<1>7. TypeOK'
  <2>1. /\ heard' \in [Clients -> 0..SleepFrames]
        /\ copying' \in [Clients -> 0..BufferFrames]
        /\ buffer' \in [Clients -> Seq(Frames)]
    <3>1. heard[c] + n \in 0..SleepFrames
      BY <1>1, RadioAssumption
    <3>2. QED
      BY <1>0, <1>3, <1>5, <1>6, <3>1 DEF TypeOK
  <2>2. QED
    BY <1>0, <1>6, <2>1 DEF TypeOK, playerVars
<1>8. Recorder(c)'
  <2>1. /\ heard'[c] = heard[c] + n /\ copying'[c] = size /\ buffer'[c] = more
        /\ client'[c] = "recording" /\ number'[c] = number[c] /\ current_off'[c] = off
    BY <1>0, <1>6 DEF TypeOK, off
  <2>2. QED
    BY <1>1, <1>3, <1>4, <2>1 DEF Recorder
<1>9. ASSUME NEW d \in Clients \ {c} PROVE Recorder(d)'
  BY <1>0, <1>6, OthersKept DEF IInv, TypeOK
<1>10. QED
  BY <1>6, <1>7, <1>8, <1>9, ServerKept DEF IInv

LEMMA CountKeeps ==
  ASSUME IInv, NEW c \in Clients, CountSaved(c)
  PROVE  IInv'
<1>0. TypeOK /\ Recorder(c) /\ copying[c] > 0
  BY DEF IInv, CountSaved
<1>1. client[c] = "recording" /\ current_off[c] + copying[c] \in 0..BufferFrames
  BY <1>0, RadioAssumption, SMTT(30) DEF TypeOK, Recorder, Limit
<1>2. TypeOK'
  <2>1. /\ current_off' \in [Clients -> 0..BufferFrames]
        /\ copying' \in [Clients -> 0..BufferFrames]
    BY <1>0, <1>1, RadioAssumption, SMTT(30) DEF TypeOK, CountSaved
  <2>2. QED
    BY <1>0, <2>1 DEF TypeOK, CountSaved, playerVars
<1>3. Recorder(c)'
  <2>1. current_off'[c] = current_off[c] + copying[c] /\ copying'[c] = 0
    BY <1>0 DEF TypeOK, CountSaved
  <2>2. QED
    BY <1>0, <1>1, <2>1, RadioAssumption DEF Recorder, CountSaved, TypeOK
<1>4. ASSUME NEW d \in Clients \ {c} PROVE Recorder(d)'
  BY <1>0, OthersKept DEF IInv, TypeOK, CountSaved
<1>5. QED
  BY <1>2, <1>3, <1>4, ServerKept DEF IInv, CountSaved

LEMMA StopKeeps ==
  ASSUME IInv, NEW c \in Clients, StopRecording(c)
  PROVE  IInv'
<1>0. TypeOK /\ Recorder(c) /\ copying[c] = 0 /\ client[c] = "recording"
  BY DEF IInv, StopRecording, Return
<1>1. current_off[c] = Limit(heard[c])
  BY <1>0, RadioAssumption DEF Recorder, TypeOK
<1>2. TypeOK'
  <2>1. /\ client' \in [Clients -> {"asking", "recording", "recorded", "ended"}]
        /\ buffer' \in [Clients -> Seq(Frames)]
    BY <1>0, EmptySeq DEF TypeOK, StopRecording, Return
  <2>2. result' \in [Clients -> [frames : 0..BufferFrames, data : Seq(Frames)]]
    BY <1>0 DEF TypeOK, StopRecording, Return
  <2>3. QED
    BY <1>0, <2>1, <2>2 DEF TypeOK, StopRecording, Return, playerVars
<1>3. Recorder(c)'
  <2>1. /\ client'[c] = "recorded" /\ buffer'[c] = <<>>
        /\ result'[c] = [frames |-> current_off[c], data |-> buffer[c]]
    BY <1>0 DEF TypeOK, StopRecording, Return
  <2>2. QED
    BY <1>0, <1>1, <2>1 DEF Recorder, StopRecording, Return
<1>4. ASSUME NEW d \in Clients \ {c} PROVE Recorder(d)'
  BY <1>0, OthersKept DEF IInv, TypeOK, StopRecording, Return
<1>5. QED
  BY <1>2, <1>3, <1>4, ServerKept DEF IInv, StopRecording, Return

LEMMA SendKeeps ==
  ASSUME IInv, NEW c \in Clients, Send(c) \/ SendFails(c)
  PROVE  IInv'
<1>0. TypeOK /\ Recorder(c) /\ client[c] = "recorded"
  BY DEF IInv, Send, SendFails
<1> DEFINE d == [number |-> number[c], data |-> result[c].data]
<1>1. d \in Datagrams
  BY <1>0 DEF TypeOK, Datagrams
<1>2. Sound(d)
  BY <1>0, RadioAssumption DEF Recorder, Sound, Limit, TypeOK
<1>3. net' \subseteq net \cup {d} /\ UNCHANGED <<recordings, recorderVars, queue, playerVars>>
  BY DEF Send, SendFails
<1>4. client' \in [Clients -> {"asking", "recording", "recorded", "ended"}]
  BY <1>0 DEF TypeOK, Send, SendFails
<1>5. TypeOK'
  BY <1>0, <1>1, <1>3, <1>4 DEF TypeOK, recorderVars, playerVars
<1>6. ASSUME NEW e \in Clients PROVE Recorder(e)'
  <2>1. CASE e = c
    <3>1. client'[c] \in {"asking", "ended"}
      BY <1>0 DEF TypeOK, Send, SendFails
    <3>2. QED
      BY <1>0, <1>3, <2>1, <3>1 DEF Recorder, recorderVars
  <2>2. CASE e # c
    BY <1>0, <1>3, <2>2, OthersKept DEF IInv, TypeOK, recorderVars, Send, SendFails
  <2>3. QED
    BY <2>1, <2>2
<1>7. \A e \in net' : Sound(e)
  BY <1>2, <1>3 DEF IInv
<1>8. (\A i \in 1..Len(queue) : Sound(queue[i]))' /\ PlayerInv'
  BY <1>3 DEF IInv, PlayerInv, Sound, playerVars
<1>9. QED
  BY <1>5, <1>6, <1>7, <1>8 DEF IInv, Sound

LEMMA DeliverKeeps ==
  ASSUME IInv, NEW d \in net, Deliver(d)
  PROVE  IInv'
<1>0. TypeOK /\ queue \in Seq(Datagrams) /\ d \in Datagrams /\ Sound(d)
  BY DEF IInv, TypeOK
<1>1. /\ queue' \in Seq(Datagrams) /\ Len(queue') = Len(queue) + 1
      /\ \A i \in 1..Len(queue') : queue'[i] = IF i <= Len(queue) THEN queue[i] ELSE d
  BY <1>0, AppendProperties, LenProperties DEF Deliver
<1>2. TypeOK'
  BY <1>0, <1>1, LenProperties, RadioAssumption
  DEF TypeOK, Deliver, clientVars, recorderVars, playerVars
<1>3. \A i \in 1..Len(queue') : Sound(queue'[i])
  BY <1>0, <1>1, LenProperties DEF IInv
<1>4. PlayerInv' /\ \A e \in net' : Sound(e)
  BY DEF IInv, Deliver, PlayerInv, Sound, playerVars
<1>5. QED
  BY <1>2, <1>3, <1>4, ClientsKept DEF IInv, Deliver, Sound

LEMMA ReceiveKeeps ==
  ASSUME IInv, Receive
  PROVE  IInv'
<1>0. /\ TypeOK /\ queue \in Seq(Datagrams) /\ queue # <<>>
      /\ Head(queue) \in Datagrams
      /\ queue' = Tail(queue)
      /\ recv_buf' = [Head(queue) EXCEPT !.data = Resized(@)]
      /\ server' = "playing" /\ output' = <<>> /\ play_off' = 0
      /\ filling' = 0 /\ filling = 0
      /\ UNCHANGED <<clientVars, net>>
  <2>1. ~(filling > 0)
    BY DEF IInv, PlayerInv, Receive, Play
  <2>2. filling = 0
    BY <2>1, RadioAssumption DEF IInv, TypeOK
  <2>3. QED
    BY <2>2, HeadTailProperties DEF IInv, TypeOK, Receive, Play
<1>1. /\ queue' \in Seq(Datagrams) /\ Len(queue') = Len(queue) - 1
      /\ \A i \in 1..Len(queue') : queue'[i] = queue[i + 1]
      /\ Len(queue) \in Nat \ {0}
      /\ Head(queue) = queue[1]
  BY <1>0, HeadTailProperties, EmptySeq
<1>2. Sound(Head(queue))
  BY <1>1 DEF IInv
<1>3. Len(Head(queue).data) = BufferFrames
  BY <1>2, RecordingLen DEF Sound
<1>4. recv_buf' = Head(queue)
  BY <1>0, <1>3, ResizedFull DEF Datagrams
<1>5. TypeOK'
  <2>1. Len(queue') <= QueueLimit
    BY <1>0, <1>1, RadioAssumption DEF TypeOK
  <2>2. play_off' \in 0..BufferFrames /\ filling' \in 0..BufferFrames
    BY <1>0, RadioAssumption
  <2>3. output' \in Seq(Frames) /\ recv_buf' \in Datagrams
    BY <1>0, <1>4, EmptySeq
  <2>4. QED
    BY <1>0, <1>1, <2>1, <2>2, <2>3 DEF TypeOK, clientVars, recorderVars
<1>6. PlayerInv'
  <2>1. Len(output') = 0 /\ Limit(0) = 0
    BY <1>0, EmptySeq, RadioAssumption DEF Limit
  <2>2. Sound(recv_buf')
    BY <1>2, <1>4
  <2>3. QED
    BY <1>0, <2>1, <2>2 DEF PlayerInv, Sound
<1>7. \A i \in 1..Len(queue') : Sound(queue'[i])
  BY <1>1 DEF IInv
<1>8. QED
  BY <1>0, <1>5, <1>6, <1>7, ClientsKept DEF IInv, Sound

LEMMA FillKeeps ==
  ASSUME IInv, NEW n \in 1..MaxPeriod, FillBuffer(n)
  PROVE  IInv'
<1> DEFINE size == CopySize(n, BufferFrames, play_off)
           given == [k \in 1..n |-> IF k <= size THEN recv_buf.data[play_off + k] ELSE Quiet]
<1>0. /\ TypeOK /\ output \in Seq(Frames) /\ Len(output) \in Nat
      /\ server = "playing" /\ filling = 0
      /\ n \in Nat /\ n > 0
      /\ play_off = Limit(Len(output)) /\ play_off \in 0..BufferFrames
      /\ Sound(recv_buf) /\ recv_buf.data \in Seq(Frames)
  <2>1. /\ TypeOK /\ output \in Seq(Frames) /\ play_off \in 0..BufferFrames
        /\ server = "playing" /\ filling = 0
        /\ play_off = Limit(Len(output))
    <3>1. /\ TypeOK /\ output \in Seq(Frames) /\ play_off \in 0..BufferFrames
          /\ server = "playing" /\ filling = 0 /\ play_off + filling = Limit(Len(output))
      BY DEF IInv, PlayerInv, TypeOK, FillBuffer
    <3>2. QED
      BY <3>1, RadioAssumption
  <2>2. Sound(recv_buf)
    BY <2>1 DEF IInv, PlayerInv
  <2>3. recv_buf.data \in Seq(Frames)
    BY <2>1 DEF TypeOK, Datagrams
  <2>4. Len(output) \in Nat
    BY <2>1, LenProperties
  <2>5. n \in Nat /\ n > 0
    BY RadioAssumption
  <2>6. QED
    BY <2>1, <2>2, <2>3, <2>4, <2>5
<1>1. /\ size \in 0..BufferFrames /\ play_off + size = Limit(Len(output) + n)
      /\ play_off + size <= BufferFrames
      /\ size > 0 => play_off = Len(output)
      /\ size < n => play_off + size = BufferFrames
  <2>1. BufferFrames \in Nat /\ play_off <= BufferFrames /\ play_off \in Nat
    BY <1>0, RadioAssumption
  <2>2. CASE BufferFrames - play_off < n
    BY <1>0, <2>1, <2>2 DEF CopySize, Limit
  <2>3. CASE ~(BufferFrames - play_off < n)
    BY <1>0, <2>1, <2>3 DEF CopySize, Limit
  <2>4. QED
    BY <2>2, <2>3
<1>2. Len(recv_buf.data) = BufferFrames
  BY <1>0, RecordingLen DEF Sound
<1>3. given \in Seq(Frames) /\ Len(given) = n
  <2>1. ASSUME NEW k \in 1..n, k <= size PROVE recv_buf.data[play_off + k] \in Frames
    BY <1>0, <1>1, <1>2, <2>1, ElementOfSeq
  <2>2. given \in [1..n -> Frames]
    BY <2>1 DEF Frames
  <2>3. QED
    BY <1>0, <2>2, FunctionIsSeq
<1>4. /\ output' = output \o given /\ filling' = size
      /\ UNCHANGED <<clientVars, net, queue, server, recv_buf, play_off>>
  BY DEF FillBuffer
<1>5. \A k \in 1..n : given[k] = IF Len(output) + k <= BufferFrames
                                    THEN recv_buf.data[Len(output) + k] ELSE Quiet
  <2>1. SUFFICES ASSUME NEW k \in 1..n
                 PROVE  given[k] = IF Len(output) + k <= BufferFrames
                                     THEN recv_buf.data[Len(output) + k] ELSE Quiet
    OBVIOUS
  <2>2. k <= size <=> Len(output) + k <= BufferFrames
    BY <1>0, <1>1, RadioAssumption DEF Limit
  <2>3. k <= size => play_off + k = Len(output) + k
    <3>1. k <= size => size > 0
      BY <1>0, <1>1
    <3>2. QED
      BY <1>1, <3>1
  <2>4. QED
    BY <2>2, <2>3
<1> HIDE DEF size, given
<1>6. /\ output' \in Seq(Frames) /\ Len(output') = Len(output) + n
      /\ \A k \in 1..(Len(output) + n) :
           output'[k] = IF k <= Len(output) THEN output[k] ELSE given[k - Len(output)]
  BY <1>0, <1>3, <1>4, ConcatProperties
<1>7. TypeOK'
  <2>1. filling' \in 0..BufferFrames
    BY <1>1, <1>4
  <2>2. QED
    BY <1>0, <1>4, <1>6, <2>1 DEF TypeOK, clientVars, recorderVars
<1>8. PlayerInv'
  <2>1. play_off' + filling' = Limit(Len(output')) /\ Sound(recv_buf)' /\ server' = "playing"
    BY <1>0, <1>1, <1>4, <1>6 DEF Sound
  <2>2. ASSUME NEW k \in 1..Len(output')
        PROVE  output'[k] = IF k <= BufferFrames THEN recv_buf'.data[k] ELSE Quiet
    <3>1. CASE k <= Len(output)
      <4>1. k \in 1..Len(output)
        BY <1>0, <3>1
      <4>2. output[k] = IF k <= BufferFrames THEN recv_buf.data[k] ELSE Quiet
        BY <4>1 DEF IInv, PlayerInv
      <4>3. output'[k] = output[k]
        BY <1>0, <1>6, <3>1
      <4>4. QED
        BY <1>4, <4>2, <4>3
    <3>2. CASE k > Len(output)
      <4>1. k - Len(output) \in 1..n /\ Len(output) + (k - Len(output)) = k
        BY <1>0, <1>6, <3>2
      <4>2. QED
        BY <1>0, <1>4, <1>5, <1>6, <3>2, <4>1, SMTT(30)
    <3>3. QED
      BY <1>0, <1>6, <3>1, <3>2
  <2>3. QED
    BY <2>1, <2>2 DEF PlayerInv
<1>9. QED
  BY <1>4, <1>7, <1>8, ClientsKept DEF IInv, Sound

LEMMA CountFilledKeeps ==
  ASSUME IInv, CountFilled
  PROVE  IInv'
<1>1. /\ TypeOK /\ PlayerInv /\ filling > 0
      /\ play_off' = play_off + filling /\ filling' = 0
      /\ UNCHANGED <<clientVars, net, queue, server, recv_buf, output>>
  BY DEF IInv, CountFilled
<1>2. play_off' \in 0..BufferFrames /\ play_off' + filling' = Limit(Len(output))
  <2>1. play_off \in Nat /\ filling \in Nat /\ play_off + filling = Limit(Len(output))
    BY <1>1, RadioAssumption DEF TypeOK, PlayerInv
  <2>2. Len(output) \in Nat
    BY <1>1, LenProperties DEF TypeOK
  <2>3. Limit(Len(output)) \in 0..BufferFrames
    BY <2>2, RadioAssumption DEF Limit
  <2>4. QED
    BY <1>1, <2>1, <2>3
<1>3. TypeOK'
  BY <1>1, <1>2, RadioAssumption DEF TypeOK, clientVars, recorderVars
<1>4. PlayerInv'
  BY <1>1, <1>2 DEF PlayerInv, Sound
<1>5. QED
  BY <1>1, <1>3, <1>4, ClientsKept DEF IInv, Sound

\* PlayBuffer returns with no callback at work, receive_from throws outside it.
LEMMA LoopKeeps ==
  ASSUME IInv, StopPlaying \/ ServerFails
  PROVE  IInv'
<1>1. /\ TypeOK /\ PlayerInv
      /\ server' \in {"receiving", "ended"} /\ queue' \in {queue, <<>>}
      /\ UNCHANGED <<clientVars, net, recv_buf, play_off, filling, output>>
  BY DEF IInv, StopPlaying, EndPlaying, ServerFails
<1>2. ~(filling > 0)
  BY DEF IInv, PlayerInv, StopPlaying, ServerFails
<1>3. /\ queue' \in Seq(Datagrams) /\ Len(queue') <= QueueLimit
      /\ \A i \in 1..Len(queue') : Sound(queue'[i])
  <2>1. CASE queue' = queue
    BY <1>1, <2>1 DEF IInv, TypeOK
  <2>2. CASE queue' = <<>>
    <3>1. Len(queue') = 0 /\ 1..0 = {}
      BY <2>2
    <3>2. queue' \in Seq(Datagrams)
      BY <2>2
    <3>3. QED
      BY <3>1, <3>2, RadioAssumption
  <2>3. QED
    BY <1>1, <2>1, <2>2
<1>4. TypeOK'
  BY <1>1, <1>3 DEF TypeOK, clientVars, recorderVars
<1>5. PlayerInv'
  BY <1>1, <1>2 DEF PlayerInv, Sound
<1>6. QED
  BY <1>1, <1>3, <1>4, <1>5, ClientsKept DEF IInv, Sound

\* The inductive invariant is preserved by every step.
LEMMA NextInv == IInv /\ [Next]_vars => IInv'
<1>1. SUFFICES ASSUME IInv, [Next]_vars PROVE IInv'
  OBVIOUS
<1>2. CASE UNCHANGED vars
  BY <1>1, <1>2, ClientsKept, ServerKept
  DEF IInv, TypeOK, vars, clientVars, recorderVars, playerVars
<1>3. ASSUME NEW c \in Clients, ClientStep(c) PROVE IInv'
  BY <1>1, <1>3, StartKeeps, SaveKeeps, CountKeeps, StopKeeps, SendKeeps DEF ClientStep
<1>4. ASSUME NEW d \in net, Deliver(d) PROVE IInv'
  BY <1>1, <1>4, DeliverKeeps
<1>5. CASE ServerStep
  BY <1>1, <1>5, ReceiveKeeps, FillKeeps, CountFilledKeeps, LoopKeeps DEF ServerStep
<1>6. QED
  BY <1>1, <1>2, <1>3, <1>4, <1>5 DEF Next

(***************************************************************************)
(* The strengthened invariant holds in every state of every behaviour.     *)
(***************************************************************************)
THEOREM Invariant == Spec => []IInv
BY InitInv, NextInv, PTL DEF Spec

(***************************************************************************)
(* The types are kept for every buffer and device: no offset passes the    *)
(* end of a buffer, however many frames the audio library hands over.      *)
(***************************************************************************)
THEOREM TypeCorrect == Spec => []TypeOK
<1>1. IInv => TypeOK
  BY DEF IInv
<1>2. QED
  BY <1>1, Invariant, PTL

(***************************************************************************)
(* The audio threads never copy past the end of a buffer, none copies into *)
(* the buffer that Record has moved away, and none from the buffer of an   *)
(* iteration of the server's loop that is over.                            *)
(***************************************************************************)
THEOREM StaysInside == Spec => []InsideBuffers
<1>1. IInv => InsideBuffers
  <2>1. SUFFICES ASSUME IInv PROVE InsideBuffers
    OBVIOUS
  <2>2. ASSUME NEW c \in Clients, copying[c] > 0
        PROVE  current_off[c] + copying[c] <= Len(buffer[c])
    <3>1. Recorder(c) /\ copying[c] # 0 /\ heard[c] \in Nat
      BY <2>1, <2>2, RadioAssumption DEF IInv, TypeOK
    <3>2. Len(buffer[c]) = BufferFrames /\ current_off[c] + copying[c] = Limit(heard[c])
      BY <3>1, RecordingLen DEF Recorder
    <3>3. QED
      BY <3>1, <3>2, RadioAssumption DEF Limit
  <2>3. filling > 0 => server = "playing" /\ play_off + filling <= Len(recv_buf.data)
    <3>1. SUFFICES ASSUME filling > 0
                   PROVE  server = "playing" /\ play_off + filling <= Len(recv_buf.data)
      OBVIOUS
    <3>2. server = "playing" /\ Sound(recv_buf) /\ play_off + filling = Limit(Len(output))
      BY <2>1, <3>1 DEF IInv, PlayerInv
    <3>3. Len(recv_buf.data) = BufferFrames
      BY <3>2, RecordingLen DEF Sound
    <3>4. Limit(Len(output)) <= BufferFrames
      BY <2>1, LenProperties, RadioAssumption DEF Limit, IInv, TypeOK
    <3>5. QED
      BY <3>2, <3>3, <3>4
  <2>4. QED
    BY <2>2, <2>3 DEF InsideBuffers
<1>2. QED
  BY <1>1, Invariant, PTL

(***************************************************************************)
(* A recording is complete: from its first frame, without a gap, and with  *)
(* nothing of an earlier one.                                              *)
(***************************************************************************)
THEOREM RecordsAll == Spec => []ResultComplete
<1>1. IInv => ResultComplete
  BY DEF IInv, Recorder, ResultComplete, Recorded, Recording, Limit
<1>2. QED
  BY <1>1, Invariant, PTL

(***************************************************************************)
(* The speaker is given one recording at a time, from its beginning.       *)
(***************************************************************************)
THEOREM PlaysOne == Spec => []HearsOneRecording
<1>1. IInv => HearsOneRecording
  <2>1. SUFFICES ASSUME IInv PROVE HearsOneRecording
    OBVIOUS
  <2>2. CASE output = <<>>
    BY <2>2, RadioAssumption DEF HearsOneRecording
  <2>3. CASE output # <<>>
    <3>1. PICK n \in 0..BufferFrames : recv_buf.data = Recording(recv_buf.number, n)
      BY <2>1, <2>3 DEF IInv, PlayerInv, Sound
    <3>2. Len(output) \in Nat
      BY <2>1, LenProperties DEF IInv, TypeOK
    <3>3. ASSUME NEW k \in 1..Len(output)
          PROVE  output[k] = IF k <= n THEN <<recv_buf.number, k>>
                             ELSE IF k <= BufferFrames THEN Zero ELSE Quiet
      BY <2>1, <3>1, <3>2, <3>3, RadioAssumption DEF IInv, PlayerInv, Recording
    <3>4. QED
      BY <3>1, <3>3 DEF HearsOneRecording
  <2>4. QED
    BY <2>2, <2>3
<1>2. QED
  BY <1>1, Invariant, PTL
=============================================================================
