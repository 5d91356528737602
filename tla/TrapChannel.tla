----------------------------- MODULE TrapChannel -----------------------------
(***************************************************************************)
(* A channel of a Trap endpoint (Trap.Channel of trap-full.js): message    *)
(* ids, chunks, the window of bytes in flight, and the receiving side that *)
(* puts messages back in order and fragments back together.                *)
(*                                                                         *)
(* Data is a sequence of units.  A message on the wire is a record of its  *)
(* id, operation and data; the page uses one channel only, number 0.       *)
(***************************************************************************)
EXTENDS TrapMessageBuffer

CONSTANTS
    ChunkSize,    \* data units that one message carries at most
    HeaderSize,   \* what a message's header adds to its length
    MaxInFlight   \* maxInFlightBytes

ASSUME ChannelAssumption ==
    /\ ChunkSize \in Nat \ {0}
    /\ HeaderSize \in Nat
    /\ MaxInFlight \in Nat \ {0}

NoFragment == [begun |-> FALSE, data |-> <<>>]

NewChannel == [messageId |-> 1, outQueue |-> <<>>, bytesInFlight |-> 0,
               available |-> FALSE]

NewReceiver == [inBuf |-> EmptyBuffer, fragment |-> NoFragment]

(* assignMessageID: the k-th id from counter n on.  After the last id the  *)
(* counter is set to 1, and not past the 1 that was given away: two        *)
(* messages in a row get id 1.                                             *)
NthId(n, k) ==
    LET i == n + k - 1
    IN  IF i <= MaxId THEN i ELSE IF i = MaxId + 1 THEN 1 ELSE i - MaxId - 1

NextCounter(n, k) == IF n + k <= MaxId + 1 THEN n + k ELSE n + k - MaxId - 1

ChunkCount(data) ==
    IF Len(data) <= ChunkSize THEN 1 ELSE (Len(data) + ChunkSize - 1) \div ChunkSize

ChunkEnd(data, k) == IF k * ChunkSize <= Len(data) THEN k * ChunkSize ELSE Len(data)

ChunkOp(k, n) ==
    CASE n = 1         -> "MESSAGE"
      [] n > 1 /\ k = 1 -> "FRAGMENT_START"
      [] n > 1 /\ k = n -> "FRAGMENT_END"
      [] OTHER         -> "MESSAGE"

(* send: the messages that one send puts at the end of the queue. *)
Chunks(chan, data) ==
    LET n == ChunkCount(data)
    IN  [k \in 1..n |->
            [id |-> NthId(chan.messageId, k), op |-> ChunkOp(k, n),
             data |-> SubSeq(data, (k - 1) * ChunkSize + 1, ChunkEnd(data, k))]]

(* The window takes another message. *)
IsOpen(bytes) == bytes < MaxInFlight

ChannelSend(chan, data) ==
    [chan EXCEPT
        !.messageId = NextCounter(@, ChunkCount(data)),
        !.outQueue  = @ \o Chunks(chan, data),
        !.available = @ \/ IsOpen(chan.bytesInFlight)]

Length(m) == HeaderSize + Len(m.data)

(* The length of the first n messages of a sequence. *)
Bytes(q, n) ==
    LET sum[i \in 0..Len(q)] == IF i = 0 THEN 0 ELSE sum[i - 1] + Length(q[i])
    IN  sum[n]

(* Repeated peek and pop take n messages: up to the one that fills the     *)
(* window, or all of them; none while the channel is not available.        *)
Takes(chan, n) ==
    LET full(i) == ~IsOpen(chan.bytesInFlight + Bytes(chan.outQueue, i))
    IN  /\ n = 0 <=> ~chan.available \/ chan.outQueue = <<>>
        /\ \A i \in 1..(n - 1) : ~full(i)
        /\ n > 0 => n = Len(chan.outQueue) \/ full(n)

Popped(chan, n) ==
    LET q == SubSeq(chan.outQueue, n + 1, Len(chan.outQueue))
        f == chan.bytesInFlight + Bytes(chan.outQueue, n)
    IN  IF n = 0 THEN chan
        ELSE [chan EXCEPT !.outQueue = q, !.bytesInFlight = f,
                          !.available = q # <<>> /\ IsOpen(f)]

(* messageSent, for every message of a sequence. *)
MessagesSent(chan, ms) ==
    LET f == chan.bytesInFlight - Bytes(ms, Len(ms))
    IN  [chan EXCEPT
            !.bytesInFlight = f,
            !.available = @ \/ (ms # <<>> /\ IsOpen(f) /\ chan.outQueue # <<>>)]

(* receiveMessage hands the fetched messages d on, one by one: the state   *)
(* of the fragment, and the data given to the endpoint.  While a fragment  *)
(* is open, an operation that does not belong to it is dropped.            *)
Taken(s, m) ==
    CASE s.fragment.begun /\ m.op = "FRAGMENT_END" ->
            [fragment |-> NoFragment, out |-> Append(s.out, s.fragment.data \o m.data)]
      [] s.fragment.begun /\ m.op = "MESSAGE" ->
            [s EXCEPT !.fragment = [begun |-> TRUE, data |-> @.data \o m.data]]
      [] ~s.fragment.begun /\ m.op = "FRAGMENT_START" ->
            [s EXCEPT !.fragment = [begun |-> TRUE, data |-> m.data]]
      [] ~s.fragment.begun /\ m.op = "MESSAGE" ->
            [s EXCEPT !.out = Append(@, m.data)]
      [] OTHER -> s

Reassemble(fragment, d) ==
    LET run[i \in 0..Len(d)] ==
            IF i = 0 THEN [fragment |-> fragment, out |-> <<>>]
            ELSE Taken(run[i - 1], d[i])
    IN  run[Len(d)]
=============================================================================
