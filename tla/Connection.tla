----------------------------- MODULE Connection -----------------------------
(***************************************************************************)
(* One connection of the server: the event loop of src/Server/server.c with *)
(* handle_read, handle_write and cleanup_connection, the framing of        *)
(* src/Protocol/proto_io.c, the answers of packet_handler.c and the queue  *)
(* of enqueue_message (server_client.c), between a client and the socket's *)
(* two kernel buffers, under edge-triggered epoll.                         *)
(*                                                                         *)
(* The client sends a stream of packets; a cell is a position in it, and   *)
(* the contents of a buffer are the cells it holds.  A packet is known by  *)
(* its type, which fixes its size.  A system call is one step.             *)
(***************************************************************************)
EXTENDS Integers, SequencesExt

CONSTANTS
  Streams,        \* the sequences of packet types that clients may send
  HeaderSize,     \* sizeof(header_t)
  PayloadSize,    \* payload length, by packet type
  BufSize,        \* PROTOCOL_MAX_SIZE, the receive buffer
  SendBuffer,     \* what the kernel accepts before send() would block
  HighWatermark,  \* conn->tx.high_watermark
  MaxBusPackets   \* bound on the packets that the session sends the client

Types == {"PING", "HELLO", "REGISTER", "RECONNECT", "UNREGISTER", "DATA", "BAD"}

ASSUME ConnectionAssumption ==
  /\ Streams \subseteq Seq(Types)
  /\ HeaderSize \in Nat \ {0} /\ BufSize \in Nat
  /\ PayloadSize \in [Types -> Nat]
  /\ \A t \in Types : HeaderSize + PayloadSize[t] <= BufSize
  /\ SendBuffer \in Nat \ {0} /\ HighWatermark \in Nat
  /\ MaxBusPackets \in Nat

VARIABLES
  stream, arrived, closed,  \* what the client sends, how much of it has come
  received, outbound,       \* what it has read of the answers, and has yet to
  edge,                     \* the connection is in epoll's ready list
  pc, events, caller,       \* where the thread is, the event it handles, and
                            \*   who called handle_write
  taken, buf, have,         \* cells received in all, and conn->rx
  chunks, queued,           \* conn->tx, a chunk being what is left of it
  want_epollout, state, player,
  handled,     \* the packets handed to handle_packet_main
  stopped,     \* handle_read has left, or will leave, data behind
  accepted,    \* number of units that enqueue_message took
  busPackets   \* number of packets that the session sent the client

clientVars == <<stream, arrived, closed, received>>
rxVars == <<taken, buf, have, handled, stopped>>
txVars == <<chunks, queued, want_epollout, outbound, accepted>>
connVars == <<state, player>>
vars == <<clientVars, rxVars, txVars, connVars, edge, pc, events, caller, busPackets>>

Init ==
  /\ stream \in Streams /\ arrived = 0 /\ closed = FALSE
  /\ received = << >> /\ outbound = << >>
  /\ edge = FALSE /\ pc = "wait" /\ events = {} /\ caller = "event"
  /\ taken = 0 /\ buf = [j \in 1..BufSize |-> 0] /\ have = 0
  /\ chunks = << >> /\ queued = 0 /\ want_epollout = FALSE
  /\ state = "INIT" /\ player = FALSE
  /\ handled = << >> /\ stopped = FALSE
  /\ accepted = 0 /\ busPackets = 0

\* Packet i takes the cells FirstCell(i)..LastCell(i) of the stream.
Size(type) == HeaderSize + PayloadSize[type]
LastCell(i) == FoldLeft(LAMBDA sum, type : sum + Size(type), 0, SubSeq(stream, 1, i))
FirstCell(i) == LastCell(i - 1) + 1

-----------------------------------------------------------------------------
(* The client and the kernel *)

Open == pc \notin {"gone", "fault"}
Room == Len(outbound) < SendBuffer

Arrive == /\ Open /\ ~closed /\ arrived < LastCell(Len(stream))
          /\ arrived' = arrived + 1 /\ edge' = TRUE
          /\ UNCHANGED <<stream, closed, received, rxVars, txVars, connVars, pc,
                         events, caller, busPackets>>

ClientClose == /\ Open /\ ~closed
               /\ closed' = TRUE /\ edge' = TRUE
               /\ UNCHANGED <<stream, arrived, received, rxVars, txVars, connVars,
                              pc, events, caller, busPackets>>

\* Reading makes room, which epoll reports if it was asked to.
ClientRead == /\ ~closed /\ outbound # << >>
              /\ received' = Append(received, Head(outbound))
              /\ outbound' = Tail(outbound)
              /\ edge' = (edge \/ want_epollout)
              /\ UNCHANGED <<stream, arrived, closed, rxVars, chunks, queued,
                             want_epollout, accepted, connVars, pc, events,
                             caller, busPackets>>

\* What epoll finds when it looks at the connection.
Ready(wanted) == (IF arrived > taken \/ closed THEN {"IN"} ELSE {})
                 \cup (IF wanted /\ Room THEN {"OUT"} ELSE {})
                 \cup (IF closed THEN {"HUP"} ELSE {})

\* Faulty variant: the interest is changed and nobody looks.
ModEventBlind(wanted) == want_epollout' = wanted /\ UNCHANGED edge

\* EPOLL_CTL_MOD changes the interest, and looks at once.
ModEvent(wanted) == /\ want_epollout' = wanted
                    /\ edge' = (edge \/ Ready(wanted) # {})

-----------------------------------------------------------------------------
(* Where the thread goes on, the connection being open or freed meanwhile *)

\* The loop comes to the connection's event ev, which names its response.
Dispatch(ev, open) ==
  IF ev = {} THEN IF open THEN "wait" ELSE "gone"
  ELSE IF ~open THEN "fault"
  ELSE IF "HUP" \in ev THEN "cleanup"
  ELSE IF "IN" \in ev THEN "recv" ELSE "send"

\* handle_read returns: on EPOLLOUT handle_write is called with the same
\* pointer, freed or not.
LeaveRead(ev, open) ==
  IF "OUT" \notin ev THEN IF open THEN "wait" ELSE "gone"
                     ELSE IF open THEN "send" ELSE "fault"

\* handle_write or enqueue_message returns ok: to a branch of handle_packet_main
\* that returns the result, ignores it, or returns -1 in any case; to handle_bus_
\* message; or to the loop.
Return(how, ev, ok, open) ==
  CASE how = "returned" -> IF ok THEN "extract" ELSE LeaveRead(ev, open)
    [] how = "ignored"  -> IF open THEN "extract" ELSE "fault"
    [] how = "refused"  -> LeaveRead(ev, open)
    [] how = "bus"      -> Dispatch(ev, open)
    [] how = "event"    -> IF open THEN "wait" ELSE "gone"

GoOn(next) == pc' = next /\ caller' = "event"

\* cleanup_connection; what the kernel holds is still sent.
Cleanup(next) ==
  /\ GoOn(next)
  /\ player' = FALSE /\ chunks' = << >> /\ queued' = 0
  /\ UNCHANGED <<clientVars, rxVars, want_epollout, outbound, accepted, state,
                 edge, events, busPackets>>

\* Faulty variant: the queue has no limit.
EnqueueUnlimited(size, how, ev) ==
  /\ chunks' = Append(chunks, [k \in 1..size |-> accepted + k])
  /\ queued' = queued + size /\ accepted' = accepted + size
  /\ pc' = "send" /\ caller' = how

\* send_packet and enqueue_message: above the watermark the packet is dropped.
Enqueue(size, how, ev) ==
  IF queued + size > HighWatermark
  THEN /\ GoOn(Return(how, ev, FALSE, TRUE))
       /\ UNCHANGED <<chunks, queued, accepted>>
  ELSE /\ chunks' = Append(chunks, [k \in 1..size |-> accepted + k])
       /\ queued' = queued + size /\ accepted' = accepted + size
       /\ pc' = "send" /\ caller' = how

-----------------------------------------------------------------------------
(* server_main *)

EpollWait == /\ pc = "wait" /\ edge
             /\ edge' = FALSE
             /\ events' = Ready(want_epollout)
             /\ GoOn(Dispatch(Ready(want_epollout), TRUE))
             /\ UNCHANGED <<clientVars, rxVars, txVars, connVars, busPackets>>

\* A message of the session comes before the connection in the batch of
\* epoll_wait, and handle_bus_message sends its packet.
BusPacket == /\ pc = "wait" /\ player /\ busPackets < MaxBusPackets
             /\ busPackets' = busPackets + 1
             /\ edge' = FALSE
             /\ events' = IF edge THEN Ready(want_epollout) ELSE {}
             /\ Enqueue(2, "bus", events')
             /\ UNCHANGED <<clientVars, rxVars, want_epollout, outbound, connVars>>

\* EPOLLERR, EPOLLHUP or EPOLLRDHUP.
Disconnected == pc = "cleanup" /\ Cleanup("gone")

-----------------------------------------------------------------------------
(* handle_read *)

Received(n) == buf' = [j \in 1..BufSize |-> IF j \in (have + 1)..(have + n)
                                            THEN taken + j - have ELSE buf[j]]

Recv == /\ pc = "recv" /\ have < BufSize /\ arrived > taken
        /\ LET n == Min({arrived - taken, BufSize - have})
           IN  Received(n) /\ have' = have + n /\ taken' = taken + n
        /\ UNCHANGED <<clientVars, handled, stopped, txVars, connVars, edge, pc,
                       events, caller, busPackets>>

\* Faulty variant: recv is called once only.
RecvOnce == /\ pc = "recv"
            /\ have = BufSize \/ ~closed
            /\ stopped' = (have = BufSize)
            /\ GoOn("extract")
            /\ UNCHANGED <<clientVars, taken, buf, have, handled, txVars, connVars,
                           edge, events, busPackets>>

\* The buffer is full, so that handle_read will return without having emptied
\* the socket; or recv says EAGAIN.
RecvStop == /\ pc = "recv"
            /\ have = BufSize \/ (arrived = taken /\ ~closed)
            /\ stopped' = (have = BufSize)
            /\ GoOn("extract")
            /\ UNCHANGED <<clientVars, taken, buf, have, handled, txVars, connVars,
                           edge, events, busPackets>>

RecvEnd == /\ pc = "recv" /\ have < BufSize /\ arrived = taken /\ closed
           /\ Cleanup(LeaveRead(events, FALSE))

-----------------------------------------------------------------------------
(* rx_try_extract_frame, and handle_packet_main *)

\* The packets whose header is at the front of the buffer.
AtFront == {i \in DOMAIN stream : have >= HeaderSize /\ buf[1] = FirstCell(i)}
Malformed == have >= HeaderSize /\ \A i \in AtFront : stream[i] = "BAD"
Complete(i) == /\ i \in AtFront /\ stream[i] # "BAD"
               /\ have >= Size(stream[i])

\* Faulty variants: the header stays in the buffer; what is not in use is
\* cleared.
ShiftedPayload(size) == [j \in 1..BufSize |-> IF j <= have - size + HeaderSize
                                              THEN buf[j + size - HeaderSize]
                                              ELSE buf[j]]

ShiftedClearing(size) == [j \in 1..BufSize |-> IF j <= have - size THEN buf[j + size]
                                                                   ELSE 0]

\* The buffer after memmove.  The payload is read from the same place later on.
Shifted(size) == [j \in 1..BufSize |-> IF j <= have - size THEN buf[j + size]
                                                           ELSE buf[j]]

Intact(i, bytes) == \A k \in (HeaderSize + 1)..Size(stream[i]) :
                      bytes[k] = FirstCell(i) + k - 1

Answer(size, how) == [reply |-> size, how |-> how, state |-> state, player |-> player]

\* What handle_packet_main does with a packet: the size of its answer, how it
\* treats the result of sending it, and what becomes of the connection.
Answers(type) ==
  CASE type = "PING" -> {Answer(1, "returned")}
    [] type = "HELLO" -> {[Answer(1, "returned") EXCEPT !.state = "HANDSHAKE"]}
    [] type \notin {"PING", "HELLO"} /\ state = "INIT" -> {Answer(2, "returned")}
    [] type = "REGISTER" /\ state # "INIT" ->
         {IF player THEN Answer(2, "returned")
          ELSE [Answer(2, "returned") EXCEPT !.state = "CONNECT", !.player = TRUE]}
    [] type = "RECONNECT" /\ state # "INIT" ->
         {Answer(2, "refused"),
          [Answer(2, "ignored") EXCEPT !.state = "CONNECT", !.player = TRUE]}
    [] type \in {"UNREGISTER", "DATA"} /\ state # "INIT" /\ ~player ->
         {Answer(2, "returned")}
    [] type = "UNREGISTER" /\ state # "INIT" /\ player ->
         {[Answer(1, "returned") EXCEPT !.state = "HANDSHAKE", !.player = FALSE]}
    [] type = "DATA" /\ state # "INIT" /\ player ->
         {Answer(0, "ignored"), Answer(2, "ignored")}

HandlePacket ==
  /\ pc = "extract"
  /\ \E i \in DOMAIN stream :
       /\ Complete(i)
       /\ buf' = Shifted(Size(stream[i])) /\ have' = have - Size(stream[i])
       /\ handled' = Append(handled, [packet |-> i, intact |-> Intact(i, buf'),
                                      alone |-> arrived <= LastCell(i) + HeaderSize])
       /\ \E answer \in Answers(stream[i]) :
            /\ state' = answer.state /\ player' = answer.player
            /\ stopped' = \/ stopped \/ answer.how = "refused"
                          \/ /\ answer.how = "returned"
                             /\ queued + answer.reply > HighWatermark
            /\ IF answer.reply = 0
               THEN UNCHANGED <<chunks, queued, accepted, pc, caller>>
               ELSE Enqueue(answer.reply, answer.how, events)
  /\ UNCHANGED <<clientVars, taken, want_epollout, outbound, edge, events, busPackets>>

\* No whole packet is left.  The buffer is never full then: a packet fits it.
ReadDone == /\ pc = "extract" /\ ~Malformed
            /\ \A i \in DOMAIN stream : ~Complete(i)
            /\ GoOn(LeaveRead(events, TRUE))
            /\ UNCHANGED <<clientVars, rxVars, txVars, connVars, edge, events, busPackets>>

BadPacket == pc = "extract" /\ Malformed /\ Cleanup(LeaveRead(events, FALSE))

-----------------------------------------------------------------------------
(* handle_write *)

\* Faulty variant: a chunk sent in part is taken off the queue.
SendDropping ==
  /\ pc = "send" /\ chunks # << >> /\ Room
  /\ LET n == Min({SendBuffer - Len(outbound), Len(Head(chunks))})
     IN  /\ outbound' = outbound \o SubSeq(Head(chunks), 1, n)
         /\ queued' = queued - n
         /\ chunks' = Tail(chunks)
  /\ UNCHANGED <<clientVars, rxVars, want_epollout, accepted, connVars, edge, pc,
                 events, caller, busPackets>>

\* send takes what there is room for; a chunk sent is taken off the queue.
Send ==
  /\ pc = "send" /\ chunks # << >> /\ Room
  /\ LET n == Min({SendBuffer - Len(outbound), Len(Head(chunks))})
         rest == SubSeq(Head(chunks), n + 1, Len(Head(chunks)))
     IN  /\ outbound' = outbound \o SubSeq(Head(chunks), 1, n)
         /\ queued' = queued - n
         /\ chunks' = IF rest = << >> THEN Tail(chunks) ELSE <<rest>> \o Tail(chunks)
  /\ UNCHANGED <<clientVars, rxVars, want_epollout, accepted, connVars, edge, pc,
                 events, caller, busPackets>>

\* Faulty variant: nobody asks for EPOLLOUT.
SendAgainUnarmed == /\ pc = "send" /\ chunks # << >> /\ ~Room
                    /\ GoOn(Return(caller, events, TRUE, TRUE))
                    /\ UNCHANGED <<clientVars, rxVars, txVars, connVars, edge,
                                   events, busPackets>>

\* EAGAIN.
SendAgain == /\ pc = "send" /\ chunks # << >> /\ ~Room
             /\ IF caller = "event" THEN GoOn("wait")
                                    ELSE pc' = "arm" /\ UNCHANGED caller
             /\ UNCHANGED <<clientVars, rxVars, txVars, connVars, edge, events, busPackets>>

\* Back in enqueue_message, which asks for EPOLLOUT.
Arm == /\ pc = "arm"
       /\ IF want_epollout THEN UNCHANGED <<want_epollout, edge>> ELSE ModEvent(TRUE)
       /\ GoOn(Return(caller, events, TRUE, TRUE))
       /\ UNCHANGED <<clientVars, rxVars, chunks, queued, outbound, accepted,
                      connVars, events, busPackets>>

SendDone == /\ pc = "send" /\ chunks = << >>
            /\ IF want_epollout THEN ModEvent(FALSE) ELSE UNCHANGED <<want_epollout, edge>>
            /\ GoOn(Return(caller, events, TRUE, TRUE))
            /\ UNCHANGED <<clientVars, rxVars, chunks, queued, outbound, accepted,
                           connVars, events, busPackets>>

\* EPIPE or ECONNRESET.
SendError == /\ pc = "send" /\ chunks # << >> /\ closed
             /\ Cleanup(Return(caller, events, FALSE, FALSE))

-----------------------------------------------------------------------------
Thread == \/ EpollWait \/ BusPacket \/ Disconnected
          \/ Recv \/ RecvStop \/ RecvEnd
          \/ HandlePacket \/ ReadDone \/ BadPacket
          \/ Send \/ SendAgain \/ Arm \/ SendDone \/ SendError

Next == Arrive \/ ClientClose \/ ClientRead \/ Thread

\* The server's thread runs, and the client reads what it is sent.
Fairness == WF_vars(Thread) /\ WF_vars(ClientRead)

Spec == Init /\ [][Next]_vars /\ Fairness

-----------------------------------------------------------------------------
(* Properties *)

TypeOK ==
  /\ stream \in Streams /\ arrived \in 0..LastCell(Len(stream))
  /\ closed \in BOOLEAN /\ edge \in BOOLEAN /\ stopped \in BOOLEAN
  /\ pc \in {"wait", "cleanup", "recv", "extract", "send", "arm", "gone", "fault"}
  /\ events \subseteq {"IN", "OUT", "HUP"}
  /\ caller \in {"returned", "ignored", "refused", "bus", "event"}
  /\ taken \in 0..arrived /\ have \in 0..BufSize
  /\ buf \in [1..BufSize -> 0..arrived]
  /\ chunks \in Seq(Seq(1..accepted) \ {<< >>})
  /\ queued \in 0..HighWatermark /\ Len(outbound) <= SendBuffer
  /\ want_epollout \in BOOLEAN /\ player \in BOOLEAN
  /\ state \in {"INIT", "HANDSHAKE", "CONNECT"}
  /\ busPackets \in 0..MaxBusPackets

\* However the stream is cut into segments, the packets are handled in the order
\* in which they were sent, none lost or repeated, and the receive buffer holds
\* what follows them.
PacketsInOrder ==
  /\ \A k \in DOMAIN handled : handled[k].packet = k
  /\ taken - have = LastCell(Len(handled))
  /\ \A j \in 1..have : buf[j] = taken - have + j

\* A client that does not send on before it is answered has its payloads read as
\* he sent them.  (With more in the buffer than a header, memmove has put the
\* next packet's bytes where the payload is read.)
PayloadIntact == \A k \in DOMAIN handled : handled[k].alone => handled[k].intact

\* What the client has read, what the kernel holds and what the queue holds is
\* what enqueue_message took, in that order, through partial sends; and the
\* counter that the watermark is compared with is the size of the queue.
RepliesInOrder ==
  Open => /\ received \o outbound \o FlattenSeq(chunks) = [k \in 1..accepted |-> k]
          /\ queued = Len(FlattenSeq(chunks))

\* While the thread waits, a queue with something to send is watched for room,
\* and is told of the room there is.
OutputWatched ==
  pc = "wait" /\ chunks # << >> => want_epollout /\ (Room => edge)

\* While the thread waits, nothing that came is left without a ready event,
\* except after the three early returns of handle_read: the buffer was full, an
\* answer was dropped, a reconnection was refused.
InputWatched ==
  pc = "wait" /\ ~stopped =>
    /\ arrived > taken \/ closed => edge
    /\ \A i \in DOMAIN stream : ~Complete(i)

\* What is queued is sent, to a client that reads, or the connection is freed.
QueueEmptied == chunks # << >> ~> chunks = << >>
=============================================================================
