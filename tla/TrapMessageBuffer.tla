-------------------------- MODULE TrapMessageBuffer --------------------------
(***************************************************************************)
(* The reordering buffer of a Trap channel (Trap.MessageBuffer of          *)
(* trap-full.js): a growing circular array into which messages are put in  *)
(* any order and from which they are fetched by increasing message id.     *)
(* A buffer is a record: slot is the array, read and write the two         *)
(* counters.  A message is any record with a field id.                     *)
(***************************************************************************)
EXTENDS Integers, Sequences

CONSTANTS
    BufGrowth,    \* bufSize: the first size, and what the array grows by (50)
    MaxBufSize,   \* how far ahead of the read counter a message may be (1000)
    MinId, MaxId, \* the message ids in use (1 and 0x8000000)
    Uneven,       \* the distances d for which the floating point value of
                  \* (d / BufGrowth + 1) * BufGrowth is not an integer
    NoMsg         \* an empty slot

ASSUME BufferAssumption ==
    /\ BufGrowth \in Nat \ {0}
    /\ MaxBufSize \in Nat
    /\ MinId = 1
    /\ MaxId \in Nat
    /\ MinId <= MaxId

IdRange == MaxId - MinId + 1

EmptyBuffer == [slot |-> [i \in 0..(BufGrowth - 1) |-> NoMsg],
                size |-> BufGrowth, read |-> MinId, write |-> MinId]

(* The id by which put works: past the end of the id space when the id is  *)
(* so far behind the read counter that the ids must have wrapped.          *)
EffectiveId(b, id) ==
    IF id < b.read /\ 2 * (b.read - id) > MaxId - MinId THEN id + IdRange ELSE id

(* Variant: a message that was read already is put again. *)
IsDuplicateNever(b, id) == FALSE

(* put returns without a change. *)
IsDuplicate(b, id) == EffectiveId(b, id) < b.read \/ EffectiveId(b, id) < b.write

MustGrow(b, id) == EffectiveId(b, id) >= b.read + b.size

(* put throws before it has changed anything: the id is out of range, too  *)
(* far ahead, or the array would be given a length that is not an integer. *)
IsRefused(b, id) ==
    \/ id > MaxId
    \/ id < MinId
    \/ EffectiveId(b, id) > b.read + MaxBufSize
    \/ /\ ~IsDuplicate(b, id)
       /\ MustGrow(b, id)
       /\ EffectiveId(b, id) - b.read \in Uneven

(* The messages of an array moved into an array of n slots, each to the    *)
(* slot its own id names; of two with one slot the later one stays.        *)
Rehash(slot, size, n) ==
    LET InSlot(k) == {i \in 0..(size - 1) : slot[i] # NoMsg /\ slot[i].id % n = k}
    IN  [k \in 0..(n - 1) |->
            IF InSlot(k) = {} THEN NoMsg
            ELSE slot[CHOOSE i \in InSlot(k) : \A j \in InSlot(k) : j <= i]]

(* The array is made large enough for id. *)
Grown(b, id) ==
    IF MustGrow(b, id)
    THEN LET n == EffectiveId(b, id) - b.read + BufGrowth
         IN  [b EXCEPT !.slot = Rehash(b.slot, b.size, n), !.size = n]
    ELSE b

Expected(w) == IF w > MaxId THEN w - IdRange ELSE w

(* The loop that moves the write counter stops at w: an empty slot, a full *)
(* array, or a message that is not the expected one.                       *)
Stops(slot, size, read, w) ==
    \/ slot[w % size] = NoMsg
    \/ w >= read + size
    \/ slot[w % size].id # Expected(w)

WriteEnd(slot, size, read, write) ==
    CHOOSE w \in (write + 1)..(read + size) :
        /\ Stops(slot, size, read, w)
        /\ \A v \in (write + 1)..(w - 1) : ~Stops(slot, size, read, v)

(* Variant: the message goes to the next free slot, whatever its id. *)
PutAtWrite(b, m) ==
    LET g == Grown(b, m.id)
    IN  [g EXCEPT !.slot = [@ EXCEPT ![g.write % g.size] = m], !.write = @ + 1]

(* put of a message that is neither refused nor a duplicate. *)
Put(b, m) ==
    LET g    == Grown(b, m.id)
        id   == EffectiveId(b, m.id)
        slot == [g.slot EXCEPT ![id % g.size] = m]
    IN  [g EXCEPT !.slot = slot,
                  !.write = IF id = g.write
                            THEN WriteEnd(slot, g.size, g.read, g.write)
                            ELSE g.write]

(* put found another message than the expected one, and throws. *)
IsCorrupt(b) ==
    /\ b.write < b.read + b.size
    /\ b.slot[b.write % b.size] # NoMsg
    /\ b.slot[b.write % b.size].id # Expected(b.write)

(* What repeated calls of fetch return: every message from the read to the *)
(* write counter.                                                          *)
Fetched(b) == [k \in 1..(b.write - b.read) |-> b.slot[(b.read + k - 1) % b.size]]

(* The buffer after those calls; past the last id both counters start anew *)
(* and the messages move to the slots of their own ids.                    *)
Drained(b) ==
    LET Read(i) == \E w \in b.read..(b.write - 1) : w % b.size = i
        slot    == [i \in 0..(b.size - 1) |-> IF Read(i) THEN NoMsg ELSE b.slot[i]]
    IN  IF b.write > MaxId
        THEN [slot |-> Rehash(slot, b.size, b.size), size |-> b.size,
              read |-> b.write - IdRange, write |-> b.write - IdRange]
        ELSE [b EXCEPT !.slot = slot, !.read = b.write]
=============================================================================
