------------------------------- MODULE Radio --------------------------------
(***************************************************************************)
(* radio/solution/src: audio.h (Recorder, Player) and main.cpp             *)
(* (StartClient, StartServer).                                             *)
(*                                                                         *)
(* A client records for 1.5 s and sends the whole buffer to the server as  *)
(* one datagram; the server plays what arrives, one datagram at a time.    *)
(* While a device is started the audio library calls SaveBuffer or         *)
(* FillBuffer on a thread of its own; each is two steps, the copy and the  *)
(* new offset, so that a step of Record, or of the server's loop, can come *)
(* between them.  ma_device_stop returns only when no call is in progress. *)
(* A device that does not start is one that is never called: the results   *)
(* of ma_* are ignored.  What a socket throws is caught outside the loop,  *)
(* on either side: the client, or the server, ends.                        *)
(*                                                                         *)
(* A frame is one byte (ma_format_u8, one channel).  The k-th frame the    *)
(* microphone delivers during recording r is <<r, k>>.                     *)
(***************************************************************************)
EXTENDS Naturals, Sequences

CONSTANTS
  Clients,
  BufferFrames,   \* max_buffer_size, in frames
  SleepFrames,    \* the most frames a device handles in 1.5 s
  MaxPeriod,      \* the most frames of one call of a device
  QueueLimit,     \* datagrams the server's socket holds; more are dropped
  MaxRecordings   \* bound: recordings made in all

ASSUME RadioAssumption ==
  /\ BufferFrames \in Nat \ {0}
  /\ SleepFrames \in Nat
  /\ MaxPeriod \in Nat
  /\ QueueLimit \in Nat
  /\ MaxRecordings \in Nat

Zero == <<0, 0>>    \* the byte resize() writes
Quiet == <<0, 1>>   \* what the library fills an output with before the call
Frames == ((1..MaxRecordings) \X (1..SleepFrames)) \cup {Zero, Quiet}
Datagrams == [number : 0..MaxRecordings, data : Seq(Frames)]

VARIABLES
  recordings,   \* recordings begun so far
  client,       \* where each client's loop is: asking, recording, recorded, ended
  number,       \* the recording a client is making or made last
  heard,        \* frames the microphone delivered to it
  buffer,       \* Recorder::buffer_
  current_off,  \* Recorder::current_off_
  copying,      \* frames SaveBuffer has copied but not yet counted
  result,       \* RecordingResult
  net,          \* datagrams sent: each may arrive late, again or never
  queue,        \* datagrams in the server's socket
  server,       \* where the server's loop is: receiving, playing, ended
  recv_buf,     \* the datagram received last; its buffer lives while it is played
  play_off,     \* Player::current_off_
  filling,      \* frames FillBuffer has copied but not yet counted
  output        \* what the speaker was given since PlayBuffer was called

recorderVars == <<number, heard, buffer, current_off, copying, result>>
clientVars == <<recordings, client, recorderVars>>
playerVars == <<server, recv_buf, play_off, filling, output>>
vars == <<clientVars, net, queue, playerVars>>

TypeOK ==
  /\ recordings \in 0..MaxRecordings
  /\ client \in [Clients -> {"asking", "recording", "recorded", "ended"}]
  /\ number \in [Clients -> 0..MaxRecordings]
  /\ heard \in [Clients -> 0..SleepFrames]
  /\ buffer \in [Clients -> Seq(Frames)]
  /\ current_off \in [Clients -> 0..BufferFrames]
  /\ copying \in [Clients -> 0..BufferFrames]
  /\ result \in [Clients -> [frames : 0..BufferFrames, data : Seq(Frames)]]
  /\ net \subseteq Datagrams
  /\ queue \in Seq(Datagrams) /\ Len(queue) <= QueueLimit
  /\ server \in {"receiving", "playing", "ended"}
  /\ recv_buf \in Datagrams
  /\ play_off \in 0..BufferFrames
  /\ filling \in 0..BufferFrames
  /\ output \in Seq(Frames)

RecordersInit ==
  /\ number = [c \in Clients |-> 0]
  /\ heard = [c \in Clients |-> 0]
  /\ buffer = [c \in Clients |-> <<>>]
  /\ current_off = [c \in Clients |-> 0]
  /\ copying = [c \in Clients |-> 0]
  /\ result = [c \in Clients |-> [frames |-> 0, data |-> <<>>]]

PlayerInit ==
  /\ recv_buf = [number |-> 0, data |-> <<>>]
  /\ play_off = 0 /\ filling = 0 /\ output = <<>>

\* A program whose socket cannot be opened ends before its loop.
Init ==
  /\ recordings = 0
  /\ client \in [Clients -> {"asking", "ended"}]
  /\ server \in {"receiving", "ended"}
  /\ RecordersInit
  /\ net = {} /\ queue = <<>>
  /\ PlayerInit

-----------------------------------------------------------------------------
\* std::vector::resize to max_buffer_size: what is there stays, zeros follow.
Resized(b) == [k \in 1..BufferFrames |-> IF k <= Len(b) THEN b[k] ELSE Zero]

\* Mutant: n frames are copied, whatever the buffer holds.
CopySize_NoMin(n, size, off) == n

(***************************************************************************)
(* How many of n frames are copied: std::min with an unsigned difference,  *)
(* which wraps around when the offset is past the end.                     *)
(***************************************************************************)
CopySize(n, size, off) == IF off <= size /\ size - off < n THEN size - off ELSE n

\* Enter was pressed, or the input has ended: Record, up to ma_device_start.
StartRecording(c) ==
  /\ client[c] = "asking" /\ recordings < MaxRecordings
  /\ client' = [client EXCEPT ![c] = "recording"]
  /\ recordings' = recordings + 1
  /\ number' = [number EXCEPT ![c] = recordings + 1]
  /\ heard' = [heard EXCEPT ![c] = 0]
  /\ current_off' = [current_off EXCEPT ![c] = 0]
  /\ buffer' = [buffer EXCEPT ![c] = Resized(@)]
  /\ UNCHANGED <<copying, result, net, queue, playerVars>>

\* The audio thread delivers n frames: SaveBuffer copies those that fit ...
SaveBuffer(c, n) ==
  LET off == current_off[c]
      size == CopySize(n, Len(buffer[c]), off)
  IN
  /\ client[c] = "recording" /\ copying[c] = 0
  /\ heard[c] + n <= SleepFrames
  /\ heard' = [heard EXCEPT ![c] = @ + n]
  /\ copying' = [copying EXCEPT ![c] = size]
  /\ buffer' = [buffer EXCEPT ![c] = [k \in 1..Len(@) |->
       IF k \in (off + 1)..(off + size) THEN <<number[c], heard[c] + (k - off)>> ELSE @[k]]]
  /\ UNCHANGED <<recordings, client, number, current_off, result, net, queue, playerVars>>

\* ... and counts them.
CountSaved(c) ==
  /\ copying[c] > 0
  /\ current_off' = [current_off EXCEPT ![c] = @ + copying[c]]
  /\ copying' = [copying EXCEPT ![c] = 0]
  /\ UNCHANGED <<recordings, client, number, heard, buffer, result, net, queue, playerVars>>

\* What Record returns and what it leaves: buffer_ is moved from.
Return(c, left) ==
  /\ client[c] = "recording"
  /\ client' = [client EXCEPT ![c] = "recorded"]
  /\ result' = [result EXCEPT ![c] = [frames |-> current_off[c], data |-> buffer[c]]]
  /\ buffer' = [buffer EXCEPT ![c] = left]
  /\ UNCHANGED <<recordings, number, heard, current_off, copying, net, queue, playerVars>>

\* Mutant: the buffer is copied and keeps the frames of this recording.
StopRecording_Copies(c) == copying[c] = 0 /\ Return(c, buffer[c])

\* Mutant: the result is taken before the device has stopped.
StopRecording_NoWait(c) == Return(c, <<>>)

\* 1.5 s are over: ma_device_stop waits for the audio thread, Record returns.
StopRecording(c) == copying[c] = 0 /\ Return(c, <<>>)

\* send_to: the whole buffer, whatever frames says, to wherever ip leads.
Send(c) ==
  /\ client[c] = "recorded"
  /\ client' = [client EXCEPT ![c] = "asking"]
  /\ net' = net \cup {[number |-> number[c], data |-> result[c].data]}
  /\ UNCHANGED <<recordings, recorderVars, queue, playerVars>>

\* send_to throws: the handler is outside the loop, the client ends.
SendFails(c) ==
  /\ client[c] = "recorded"
  /\ client' = [client EXCEPT ![c] = "ended"]
  /\ UNCHANGED <<recordings, recorderVars, net, queue, playerVars>>

-----------------------------------------------------------------------------
\* The network hands the server's socket some datagram that was sent.
Deliver(d) ==
  /\ d \in net /\ server # "ended"
  /\ Len(queue) < QueueLimit
  /\ queue' = Append(queue, d)
  /\ UNCHANGED <<clientVars, net, playerVars>>

\* receive_from into a new buffer, and PlayBuffer up to ma_device_start.
Play(off, left) ==
  /\ server = "receiving" /\ queue # <<>>
  /\ recv_buf' = [Head(queue) EXCEPT !.data = Resized(@)]
  /\ queue' = left
  /\ server' = "playing" /\ output' = <<>>
  /\ play_off' = off
  /\ UNCHANGED <<clientVars, net, filling>>

\* Mutant: the player goes on where it stopped.
Receive_NoReset == Play(play_off, Tail(queue))

\* Mutant: the socket is opened in the loop, and what it holds is lost with it.
Receive_NewSocket == Play(0, <<>>)

\* receive_from returns a datagram.
Receive == Play(0, Tail(queue))

(***************************************************************************)
(* receive_from throws: the handler is outside the loop, the server ends   *)
(* and its socket is closed.                                               *)
(***************************************************************************)
ServerFails ==
  /\ server = "receiving"
  /\ server' = "ended" /\ queue' = <<>>
  /\ UNCHANGED <<clientVars, net, recv_buf, play_off, filling, output>>

\* The audio thread asks for n frames; those FillBuffer leaves are quiet ...
FillBuffer(n) ==
  LET size == CopySize(n, BufferFrames, play_off) IN
  /\ server = "playing" /\ filling = 0
  /\ Len(output) + n <= SleepFrames
  /\ output' = output \o [k \in 1..n |->
       IF k <= size THEN recv_buf.data[play_off + k] ELSE Quiet]
  /\ filling' = size
  /\ UNCHANGED <<clientVars, net, queue, server, recv_buf, play_off>>

\* ... and those it copied are counted.
CountFilled ==
  /\ filling > 0
  /\ play_off' = play_off + filling
  /\ filling' = 0
  /\ UNCHANGED <<clientVars, net, queue, server, recv_buf, output>>

\* PlayBuffer returns, and with the iteration recv_buf is gone.
EndPlaying ==
  /\ server = "playing"
  /\ server' = "receiving"
  /\ UNCHANGED <<clientVars, net, queue, recv_buf, play_off, filling, output>>

\* Mutant: the device is not stopped before PlayBuffer returns.
StopPlaying_NoWait == EndPlaying

\* 1.5 s are over: ma_device_stop waits for the audio thread.
StopPlaying == filling = 0 /\ EndPlaying

ClientStep(c) ==
  \/ StartRecording(c)
  \/ \E n \in 1..MaxPeriod : SaveBuffer(c, n)
  \/ CountSaved(c)
  \/ StopRecording(c)
  \/ Send(c) \/ SendFails(c)

ServerStep ==
  \/ Receive \/ ServerFails \/ StopPlaying
  \/ \E n \in 1..MaxPeriod : FillBuffer(n)
  \/ CountFilled

Next ==
  \/ \E c \in Clients : ClientStep(c)
  \/ \E d \in net : Deliver(d)
  \/ ServerStep

Spec == Init /\ [][Next]_vars

(***************************************************************************)
(* The server's thread goes on: receive_from returns when there is a       *)
(* datagram, PlayBuffer's sleep ends, a callback ends.                     *)
(***************************************************************************)
FairSpec == Spec /\ WF_vars(Receive) /\ WF_vars(StopPlaying) /\ WF_vars(CountFilled)

-----------------------------------------------------------------------------
(***************************************************************************)
(* The audio threads never copy past an end of a buffer: not into the      *)
(* empty buffer_ that Record leaves behind, where the unsigned difference  *)
(* of audio.h:21 wraps around, not past the end of a datagram, and not     *)
(* through the pointer current_buffer_ when the iteration it belongs to is *)
(* over (audio.h:21-25, 55-63, 89-94, 118-125, main.cpp:38-54).            *)
(***************************************************************************)
InsideBuffers ==
  /\ \A c \in Clients : copying[c] > 0 => current_off[c] + copying[c] <= Len(buffer[c])
  /\ filling > 0 => server = "playing" /\ play_off + filling <= Len(recv_buf.data)

(***************************************************************************)
(* Record returns the frames the microphone delivered during this          *)
(* recording, in order and from the first, as many as fit, then zeros; and *)
(* frames says how many they are (audio.h:54-64).                          *)
(***************************************************************************)
Recorded(c) == IF heard[c] < BufferFrames THEN heard[c] ELSE BufferFrames

ResultComplete ==
  \A c \in Clients : client[c] = "recorded" =>
    result[c] = [frames |-> Recorded(c),
                 data |-> [k \in 1..BufferFrames |->
                             IF k <= Recorded(c) THEN <<number[c], k>> ELSE Zero]]

(***************************************************************************)
(* What the speaker is given for a datagram is the beginning of a single   *)
(* recording, from its first frame and without a gap, then zeros, then     *)
(* quiet: datagrams that arrive out of order or twice never mix, and       *)
(* nothing of an earlier recording remains (main.cpp:35-55, 78-96).        *)
(***************************************************************************)
HearsOneRecording ==
  \E n \in 0..BufferFrames : \A k \in 1..Len(output) :
    output[k] = IF k <= n THEN <<recv_buf.number, k>>
                ELSE IF k <= BufferFrames THEN Zero ELSE Quiet

(***************************************************************************)
(* A datagram the socket holds is played, however many are before it: the  *)
(* server always comes back to receive_from, with the same socket, unless  *)
(* receive_from throws and ends it (main.cpp:29, 35-59).                   *)
(***************************************************************************)
Queued(r) == \E i \in 1..Len(queue) : queue[i].number = r
Played(r) == server = "playing" /\ recv_buf.number = r

EveryQueuedPlayed ==
  \A r \in 1..MaxRecordings : Queued(r) ~> Played(r) \/ server = "ended"
=============================================================================
