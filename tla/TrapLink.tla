------------------------------- MODULE TrapLink -------------------------------
(***************************************************************************)
(* The way of application data from one Trap endpoint to its peer: the     *)
(* endpoint's channel and sending timer, the connections it may send over, *)
(* their acknowledgements, and the peer's channel.                         *)
(*                                                                         *)
(* Both ends run the same protocol.  The sending half is what the page     *)
(* does with its own messages, the receiving half what it does with those  *)
(* of the server.  Each connection is used once: a transport that connects *)
(* again is another one, since init() gives it a new state.                *)
(***************************************************************************)
EXTENDS TrapChannel, TrapMessage, FiniteSets

CONSTANTS
    Data,            \* what the application may send
    Conns,           \* the connections
    Kind,            \* [Conns -> {"websocket", "http"}]
    Priority,        \* [Conns -> Int]: getTransportPriority, the least is preferred
    MaxActive,       \* maxActiveTransports: 1 for a client
    MaxSends,        \* bound: data sent on a channel
    MaxMessages,     \* bound: messages those are cut into
    MaxLosses        \* bound: connections that are lost, disabled or fail to send

ASSUME LinkAssumption ==
    /\ Kind \in [Conns -> {"websocket", "http"}]
    /\ Priority \in [Conns -> Int]
    /\ MaxActive \in Nat \ {0}
    /\ MaxMessages \in Nat
    /\ 2 * MaxMessages <= MaxId - MinId

ASSUME DataAssumption == Data \subseteq Seq(0..255)

VARIABLES
    chan,       \* the sender's channel
    recv,       \* the receiver's channel
    sending,    \* sending: the timer of kickSendingThread is set
    avail,      \* availableTransports
    st,         \* the sender's state of a connection
    inTransit,  \* messagesInTransit of a connection
    httpBuf,    \* _buf of an HTTP connection: the messages of the POST under way
    wire,       \* the network: frames, or the bodies of POSTs, being received
    acks,       \* the receiver's _acks of a connection
    ackTask,    \* the receiver's _ackTask: it is set once and never reset
    ackTimer,   \* the timeout that _ackTask stands for has not fired yet
    ackSent,    \* the receiver's _lastAckTimestamp is not 0
    ackWire,    \* the ACK messages on their way back
    losses,     \* counts connections lost, for MaxLosses
    sent,       \* history: the data sent
    assigned,   \* history: the messages queued
    consumed,   \* history: the messages fetched from the receiver's buffer
    delivered,  \* history: the data given to the receiving application
    refused     \* history: the ids at which put has thrown

senderVars == <<chan, sending, avail, st, inTransit, httpBuf>>
ackVars    == <<acks, ackTask, ackTimer, ackSent, ackWire>>
sentVars   == <<sent, assigned>>
recvVars   == <<recv, consumed, delivered, refused>>
vars == <<senderVars, ackVars, sentVars, recvVars, wire, losses>>

PerConn(x) == [k \in Conns |-> x]

Init ==
    /\ chan = NewChannel
    /\ recv = NewReceiver
    /\ sending = FALSE
    /\ avail = <<>>
    /\ st = PerConn("DISCONNECTED")
    /\ inTransit = PerConn(<<>>)
    /\ httpBuf = PerConn(<<>>)
    /\ wire = PerConn(<<>>)
    /\ acks = PerConn(<<>>)
    /\ ackTask = PerConn(FALSE)
    /\ ackTimer = PerConn(FALSE)
    /\ ackSent = PerConn(FALSE)
    /\ ackWire = PerConn(<<>>)
    /\ losses = 0
    /\ sent = <<>>
    /\ assigned = <<>>
    /\ consumed = <<>>
    /\ delivered = <<>>
    /\ refused = {}
-----------------------------------------------------------------------------
(* send and sendMessage of the endpoint, while it is open. *)
Send(d) ==
    /\ Len(sent) < MaxSends
    /\ Len(assigned) + ChunkCount(d) <= MaxMessages
    /\ chan' = ChannelSend(chan, d)
    /\ sent' = Append(sent, d)
    /\ assigned' = assigned \o Chunks(chan, d)
    /\ sending' = TRUE
    /\ UNCHANGED <<avail, st, inTransit, httpBuf, ackVars, recvVars, wire, losses>>

(* addTransportToAvailable: before the first transport that is less        *)
(* preferred.                                                              *)
Inserted(s, k) ==
    LET after == {i \in DOMAIN s : Priority[s[i]] > Priority[k]}
        pos   == IF after = {} THEN Len(s) + 1
                 ELSE CHOOSE i \in after : \A j \in after : i <= j
    IN  InsertAt(s, pos, k)

Without(s, k) == RemoveFirst(s, k)

(* The transport that is one too many is disconnected, and by that removed *)
(* from the list.                                                          *)
BecomeAvailable(k) ==
    LET s    == Inserted(avail, k)
        last == s[Len(s)]
    IN  IF Len(s) > MaxActive
        THEN /\ avail' = Without(s, last)
             /\ st' = [st EXCEPT ![k] = "AVAILABLE", ![last] = "DISCONNECTING"]
        ELSE /\ avail' = s
             /\ st' = [st EXCEPT ![k] = "AVAILABLE"]

(* Variant: the new transport does not set the timer. *)
OpenedQuietly(k) ==
    /\ st[k] = "DISCONNECTED"
    /\ BecomeAvailable(k)
    /\ UNCHANGED <<sending, chan, inTransit, httpBuf, ackVars, sentVars, recvVars, wire, losses>>

(* The transport has been opened. *)
Opened(k) ==
    /\ st[k] = "DISCONNECTED"
    /\ BecomeAvailable(k)
    /\ sending' = TRUE
    /\ UNCHANGED <<chan, inTransit, httpBuf, ackVars, sentVars, recvVars, wire, losses>>
-----------------------------------------------------------------------------
Frames(ms) == [i \in 1..Len(ms) |-> <<ms[i]>>]

(* send of the transport for every message of the batch: a frame each for  *)
(* a WebSocket; an HTTP transport keeps them and flushTransport posts them *)
(* together, which makes it unavailable until the answer.                  *)
Transmit(k, ms) ==
    /\ inTransit' = [inTransit EXCEPT ![k] = @ \o ms]
    /\ IF Kind[k] = "websocket"
       THEN /\ wire' = [wire EXCEPT ![k] = @ \o Frames(ms)]
            /\ UNCHANGED <<st, avail, httpBuf>>
       ELSE IF ms = <<>> THEN UNCHANGED <<wire, st, avail, httpBuf>>
       ELSE /\ httpBuf' = [httpBuf EXCEPT ![k] = ms]
            /\ wire' = [wire EXCEPT ![k] = Append(@, ms)]
            /\ st' = [st EXCEPT ![k] = "UNAVAILABLE"]
            /\ avail' = Without(avail, k)

(* _sendFun: what the window of the channel admits goes to the first       *)
(* available transport.                                                    *)
SendFun ==
    /\ sending
    /\ sending' = FALSE
    /\ IF avail = <<>>
       THEN UNCHANGED <<chan, avail, st, inTransit, httpBuf, wire>>
       ELSE \E n \in 0..Len(chan.outQueue) :
                /\ Takes(chan, n)
                /\ chan' = Popped(chan, n)
                /\ Transmit(avail[1], SubSeq(chan.outQueue, 1, n))
    /\ UNCHANGED <<ackVars, sentVars, recvVars, losses>>

(* _sendFun when the transport throws at a message (for instance one whose *)
(* data cannot be written as text), after n others were sent: the message  *)
(* stays in the queue, the transport is forced into an error, and the loop *)
(* goes on with the next one.  What an HTTP transport had been given by    *)
(* then, its own timer posts all the same.                                 *)
SendFunFails ==
    /\ sending /\ avail # <<>>
    /\ losses < MaxLosses
    /\ losses' = losses + 1
    /\ LET k == avail[1]
       IN  /\ \E n \in 0..(Len(chan.outQueue) - 1) :
                  LET ms == SubSeq(chan.outQueue, 1, n)
                  IN  /\ Popped(chan, n).available
                      /\ chan' = Popped(chan, n)
                      /\ inTransit' = [inTransit EXCEPT ![k] = @ \o ms]
                      /\ IF Kind[k] = "websocket"
                         THEN wire' = [wire EXCEPT ![k] = @ \o Frames(ms)] /\ UNCHANGED httpBuf
                         ELSE IF ms = <<>> THEN UNCHANGED <<wire, httpBuf>>
                         ELSE /\ wire' = [wire EXCEPT ![k] = Append(@, ms)]
                              /\ httpBuf' = [httpBuf EXCEPT ![k] = ms]
           /\ st' = [st EXCEPT ![k] = "ERROR"]
           /\ avail' = Without(avail, k)
    /\ sending' = (Len(avail) > 1)
    /\ UNCHANGED <<ackVars, sentVars, recvVars>>

(* Variant: the answer does not set the timer. *)
PostDoneQuietly(k) ==
    /\ Kind[k] = "http"
    /\ \E i \in DOMAIN wire[k] :
           /\ wire[k][i] = <<>>
           /\ wire' = [wire EXCEPT ![k] = RemoveAt(@, i)]
    /\ chan' = MessagesSent(chan, httpBuf[k])
    /\ httpBuf' = [httpBuf EXCEPT ![k] = <<>>]
    /\ IF st[k] = "UNAVAILABLE" THEN BecomeAvailable(k) ELSE UNCHANGED <<st, avail>>
    /\ UNCHANGED <<sending, inTransit, ackVars, sentVars, recvVars, losses>>

(* The answer to a POST whose body has been received: every message of     *)
(* _buf counts as sent, and the transport is available again.              *)
PostDone(k) ==
    /\ Kind[k] = "http"
    /\ \E i \in DOMAIN wire[k] :
           /\ wire[k][i] = <<>>
           /\ wire' = [wire EXCEPT ![k] = RemoveAt(@, i)]
    /\ chan' = MessagesSent(chan, httpBuf[k])
    /\ httpBuf' = [httpBuf EXCEPT ![k] = <<>>]
    /\ IF st[k] = "UNAVAILABLE"
       THEN BecomeAvailable(k) /\ sending' = TRUE
       ELSE UNCHANGED <<st, avail>> /\ sending' = (sending \/ httpBuf[k] # <<>>)
    /\ UNCHANGED <<inTransit, ackVars, sentVars, recvVars, losses>>

(* A POST that fails: when the last readystatechange comes, hasError is    *)
(* not set yet and the status is not looked at, so its messages count as   *)
(* sent.                                                                   *)
PostFails(k) ==
    /\ Kind[k] = "http"
    /\ losses < MaxLosses
    /\ losses' = losses + 1
    /\ \E i \in DOMAIN wire[k] : wire' = [wire EXCEPT ![k] = RemoveAt(@, i)]
    /\ chan' = MessagesSent(chan, httpBuf[k])
    /\ httpBuf' = [httpBuf EXCEPT ![k] = <<>>]
    /\ IF st[k] = "UNAVAILABLE"
       THEN BecomeAvailable(k) /\ sending' = TRUE
       ELSE UNCHANGED <<st, avail>> /\ sending' = (sending \/ httpBuf[k] # <<>>)
    /\ UNCHANGED <<inTransit, ackVars, sentVars, recvVars>>

(* disableTransport: the transport says CLOSE; an HTTP transport with an   *)
(* unanswered POST sends the messages of that POST again with it.          *)
Disable(k) ==
    /\ st[k] \in {"AVAILABLE", "UNAVAILABLE"}
    /\ losses < MaxLosses
    /\ losses' = losses + 1
    /\ st' = [st EXCEPT ![k] = "DISCONNECTING"]
    /\ avail' = Without(avail, k)
    /\ wire' = IF httpBuf[k] # <<>>
               THEN [wire EXCEPT ![k] = Append(@, httpBuf[k])]
               ELSE wire
    /\ sending' = (sending \/ inTransit[k] # <<>>)
    /\ UNCHANGED <<chan, inTransit, httpBuf, ackVars, sentVars, recvVars>>

(* The connection is lost.  What the peer has not read yet may be lost     *)
(* with it.  ttMessagesFailedSending queues none of the messages again: it *)
(* looks the channel up by a function and adds an undefined message.       *)
Lose(k) ==
    /\ st[k] \in {"AVAILABLE", "UNAVAILABLE", "DISCONNECTING"}
    /\ losses < MaxLosses
    /\ losses' = losses + 1
    /\ st' = [st EXCEPT ![k] = "ERROR"]
    /\ avail' = Without(avail, k)
    /\ \E n \in 0..Len(wire[k]) : wire' = [wire EXCEPT ![k] = SubSeq(@, 1, n)]
    /\ sending' = (sending \/ inTransit[k] # <<>> \/ httpBuf[k] # <<>>)
    /\ acks' = [acks EXCEPT ![k] = <<>>]
    /\ ackWire' = [ackWire EXCEPT ![k] = <<>>]
    /\ ackTimer' = [ackTimer EXCEPT ![k] = FALSE]
    /\ UNCHANGED <<chan, inTransit, httpBuf, ackTask, ackSent, sentVars, recvVars>>
-----------------------------------------------------------------------------
(* receiveMessage of the channel.  put may throw: the exception ends in    *)
(* the transport, and nothing is fetched.                                  *)
Accept(m) ==
    LET b == recv.inBuf
        p == Put(b, m)
        r == Reassemble(recv.fragment, Fetched(p))
    IN  IF IsRefused(b, m.id)
        THEN refused' = refused \union {m.id} /\ UNCHANGED <<recv, consumed, delivered>>
        ELSE IF IsDuplicate(b, m.id)
        THEN UNCHANGED recvVars
        ELSE IF IsCorrupt(p)
        THEN /\ recv' = [recv EXCEPT !.inBuf = p]
             /\ UNCHANGED <<consumed, delivered, refused>>
        ELSE /\ recv' = [inBuf |-> Drained(p), fragment |-> r.fragment]
             /\ consumed' = consumed \o Fetched(p)
             /\ delivered' = delivered \o r.out
             /\ UNCHANGED refused

(* acknowledgeTransitMessage, also for a message that was not accepted.    *)
(* An acknowledgement follows at once, or after a while when the last one  *)
(* is recent; but then only if _ackTask was never set before.              *)
Acknowledge(k, m) ==
    \/ /\ ackWire' = [ackWire EXCEPT ![k] = Append(@, Append(acks[k], m.id))]
       /\ acks' = [acks EXCEPT ![k] = <<>>]
       /\ ackSent' = [ackSent EXCEPT ![k] = TRUE]
       /\ UNCHANGED <<ackTask, ackTimer>>
    \/ /\ ackSent[k]
       /\ acks' = [acks EXCEPT ![k] = Append(@, m.id)]
       /\ ackTask' = [ackTask EXCEPT ![k] = TRUE]
       /\ ackTimer' = [ackTimer EXCEPT ![k] = @ \/ ~ackTask[k]]
       /\ UNCHANGED <<ackWire, ackSent>>

(* receive and receiveMessage of the peer's transport: the next message of *)
(* a frame or body; the bodies of two POSTs are read side by side.         *)
Deliver(k) ==
    \E i \in DOMAIN wire[k] :
        /\ wire[k][i] # <<>>
        /\ Kind[k] = "websocket" => i = 1
        /\ LET rest == Tail(wire[k][i])
           IN  wire' = [wire EXCEPT ![k] =
                            IF rest = <<>> /\ Kind[k] = "websocket"
                            THEN RemoveAt(@, i)
                            ELSE [@ EXCEPT ![i] = rest]]
        /\ Accept(Head(wire[k][i]))
        /\ IF st[k] = "ERROR" THEN UNCHANGED ackVars
           ELSE Acknowledge(k, Head(wire[k][i]))
        /\ UNCHANGED <<senderVars, sentVars, losses>>

(* flushAcks by its timeout; _ackTask keeps its value. *)
FlushAcks(k) ==
    /\ ackTimer[k]
    /\ ackTimer' = [ackTimer EXCEPT ![k] = FALSE]
    /\ ackWire' = [ackWire EXCEPT ![k] = Append(@, acks[k])]
    /\ acks' = [acks EXCEPT ![k] = <<>>]
    /\ ackSent' = [ackSent EXCEPT ![k] = TRUE]
    /\ UNCHANGED <<senderVars, sentVars, recvVars, ackTask, wire, losses>>

(* onAck: the messages it names leave messagesInTransit, and their channel *)
(* is told that they were sent.                                            *)
AckArrives(k) ==
    /\ ackWire[k] # <<>>
    /\ LET named(m) == \E i \in DOMAIN Head(ackWire[k]) : Head(ackWire[k])[i] = m.id
           ms == SelectSeq(inTransit[k], named)
       IN  /\ inTransit' = [inTransit EXCEPT ![k] =
                                SelectSeq(@, LAMBDA m : ~named(m))]
           /\ chan' = MessagesSent(chan, ms)
           /\ sending' = (sending \/ ms # <<>>)
    /\ ackWire' = [ackWire EXCEPT ![k] = Tail(@)]
    /\ UNCHANGED <<avail, st, httpBuf, acks, ackTask, ackTimer, ackSent,
                   sentVars, recvVars, wire, losses>>
-----------------------------------------------------------------------------
(* What goes on by itself: timers fire, answers and frames arrive. *)
Progress ==
    \/ SendFun
    \/ \E k \in Conns : Deliver(k) \/ PostDone(k) \/ FlushAcks(k) \/ AckArrives(k)

Next ==
    \/ Progress
    \/ \E d \in Data : Send(d)
    \/ SendFunFails
    \/ \E k \in Conns : Opened(k) \/ PostFails(k) \/ Disable(k) \/ Lose(k)

Spec == Init /\ [][Next]_vars

(* Something goes on while there is anything to do; nobody has to send, to *)
(* open or to lose anything.  Every step uses up a message, an answer or a *)
(* timer, so the order of the steps needs no fairness.                     *)
Fairness == WF_vars(Progress)

FairSpec == Spec /\ Fairness
-----------------------------------------------------------------------------
Message == [id: MinId..MaxId, op: {"MESSAGE", "FRAGMENT_START", "FRAGMENT_END"},
            data: Seq(UNION {Range(d) : d \in Data})]

(* The types of the variables; a connection is in the list of available    *)
(* transports exactly while it is available, and once.                     *)
TypeOK ==
    /\ chan.messageId = Len(assigned) + 1
    /\ chan.bytesInFlight \in Int /\ chan.available \in BOOLEAN
    /\ sending \in BOOLEAN
    /\ \A m \in Range(assigned) : m \in Message
    /\ \A k \in Conns : k \in Range(avail) <=> st[k] = "AVAILABLE"
    /\ IsInjective(avail) /\ Len(avail) <= MaxActive
    /\ recv.inBuf.size \in Nat \ {0}
    /\ losses \in 0..MaxLosses

(* The reordering buffer: whatever connections carry the messages, in what *)
(* order, how often and with what losses, the receiver takes every message *)
(* once and in the order in which they were queued.                        *)
ConsumedInOrder == IsPrefix(consumed, assigned)

(* The receiving application: every step of the link is a step of a        *)
(* stream, so no data is repeated, reordered, cut or made up by chunking,  *)
(* by several connections, or by a POST that is sent twice.                *)
Stream == INSTANCE TrapStream WITH received <- delivered
IsStream == Stream!Spec

(* The buffer never holds a message that it cannot fetch any more, and two *)
(* messages never share a slot.                                            *)
BufferHoldsFuture ==
    LET b == recv.inBuf
    IN  \A i \in 0..(b.size - 1) :
            b.slot[i] # NoMsg =>
                /\ b.slot[i].id % b.size = i
                /\ b.slot[i].id \in b.read..(b.read + b.size - 1)
                /\ b.slot[i] = assigned[b.slot[i].id]

(* The sending timer is never forgotten: while there is an available       *)
(* transport and a message that the window admits, it is set.              *)
NoForgottenTimer == avail # <<>> /\ chan.available /\ chan.outQueue # <<>> => sending

WindowIsShut == chan.outQueue # <<>> /\ ~chan.available

(* Liveness: data that was sent is delivered, unless a connection failed,  *)
(* none is open, the receiver's buffer cannot take a message that is so    *)
(* far ahead, or the window is shut.                                       *)
Arrives ==
    \A n \in 1..MaxSends :
        Len(sent) = n ~> \/ Len(delivered) >= n
                         \/ losses > 0 \/ WindowIsShut \/ refused # {}
                         \/ \A k \in Conns : st[k] # "AVAILABLE"

(* What a frame or body is as bytes or text.                               *)
Written(ms, binary) == FlattenSeq([i \in DOMAIN ms |-> Serialize(ms[i], binary)])

(* The codec: in either format, and wherever the blobs are cut on the way, *)
(* the peer reads from a frame or body the messages that were written into *)
(* it and leaves nothing over; and an ACK names the ids it was made of.    *)
FramesAreRead ==
    \A binary \in BOOLEAN, k \in Conns :
        /\ \A i \in DOMAIN wire[k] :
              \A blob \in {Blob(Written(wire[k][i], binary), binary)} :
                \A cut \in 0..Len(blob) :
                  \A first \in {Receive(<<>>, SubSeq(blob, 1, cut))} :
                    \A second \in {Receive(first.bos, SubSeq(blob, cut + 1, Len(blob)))} :
                       /\ first.messages \o second.messages = wire[k][i]
                       /\ second.bos = <<>>
        /\ \A i \in DOMAIN ackWire[k] :
              LET ack == [id |-> 0, op |-> "ACK", data |-> AckData(ackWire[k][i], binary)]
                  read == Receive(<<>>, Blob(Serialize(ack, binary), binary)).messages
              IN  AckIds(read[1].data, binary) = ackWire[k][i]
=============================================================================
