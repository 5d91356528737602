---------------------------- MODULE TrapLinkProofs ----------------------------
(***************************************************************************)
(* Proofs about TrapLink, for all data, connections, chunk sizes, windows  *)
(* and buffer sizes: the sending timer is never forgotten, the reordering  *)
(* buffer hands every message on once and in order, and the link           *)
(* implements the stream that Trap promises to the application.            *)
(***************************************************************************)
EXTENDS TrapLink, SequenceTheorems, WellFoundedInduction, TLAPS


-----------------------------------------------------------------------------
(* Numbers. *)

(* A set of places that is not empty has a first one. *)
LEMMA FirstExists ==
    ASSUME NEW S \in SUBSET Nat, S # {}
    PROVE  \E i \in S : \A j \in S : i <= j
<1> DEFINE R == OpToRel(<, Nat)
<1>1. IsWellFoundedOn(R, Nat)
  BY NatLessThanWellFounded
<1>2. PICK i \in S : \A j \in S : ~ (<<j, i>> \in R)
  <2> HIDE DEF R
  <2> QED
    BY <1>1, WFMin
<1>3. \A j \in S : ~ (j < i)
  BY <1>2 DEF OpToRel
<1> QED
  BY <1>3

(* A set of places below a bound that is not empty has a last one. *)
LEMMA LastExists ==
    ASSUME NEW n \in Nat, NEW S \in SUBSET (0..n), S # {}
    PROVE  \E i \in S : \A j \in S : j <= i
<1> DEFINE above == {i \in Nat : \A j \in S : j <= i}
<1>1. above \in SUBSET Nat /\ n \in above
  OBVIOUS
<1>2. PICK i \in above : \A j \in above : i <= j
  <2> HIDE DEF above
  <2> QED
    BY <1>1, FirstExists
<1>3. i \in Nat /\ \A j \in S : j <= i
  BY <1>2
<1>4. CASE i \in S
  BY <1>3, <1>4
<1>5. CASE i \notin S
  <2>1. \A j \in S : j \in Nat /\ j < i
    BY <1>3, <1>5
  <2>2. i >= 1
    <3>1. PICK j \in S : TRUE
      OBVIOUS
    <3>2. j \in Nat /\ j < i
      BY <2>1, <3>1
    <3> QED
      BY <1>3, <3>2
  <2>3. i - 1 \in above
    BY <1>3, <2>1, <2>2
  <2> QED
    BY <1>2, <1>3, <2>3
<1> QED
  BY <1>4, <1>5

(* Of the numbers of an interval no longer than n, at most one has a given
   remainder by n. *)
LEMMA SameRemainder ==
    ASSUME NEW n \in Nat \ {0}, NEW a \in Int, NEW b \in Int, a % n = b % n,
           a - b < n, b - a < n
    PROVE  a = b
<1> DEFINE p == a \div n
           q == b \div n
<1>1. p \in Int /\ q \in Int /\ a = n * p + (a % n) /\ b = n * q + (b % n)
  OBVIOUS
<1>2. a % n \in Int
  OBVIOUS
<1> HIDE DEF p, q
<1>3. a - b = n * p - n * q
  <2>1. n * p \in Int /\ n * q \in Int
    BY <1>1
  <2> QED
    BY <1>1, <1>2, <2>1
<1>4. n * p - n * q = n * (p - q)
  BY <1>1
<1>5. p - q >= 1 => n * (p - q) >= n
  BY <1>1
<1>6. p - q <= -1 => n * (p - q) <= -n
  BY <1>1
<1>7. p - q = 0
  BY <1>1, <1>3, <1>4, <1>5, <1>6
<1> QED
  BY <1>3, <1>4, <1>7

-----------------------------------------------------------------------------
(* The buffer and a sequence a. *)

\* Each message has its place in the sequence as id, and no id wraps.
Numbered(a) ==
    /\ Len(a) \in Nat /\ 2 * Len(a) <= MaxId - MinId
    /\ \A i \in 1..Len(a) : a[i].id = i

\* What the buffer holds in a slot is the message of a that belongs there, one
\* that has not been fetched.
Holds(b, a) ==
    /\ DOMAIN b = DOMAIN EmptyBuffer
    /\ b.size \in Nat \ {0} /\ b.read \in 1..(Len(a) + 1)
    /\ DOMAIN b.slot = 0..(b.size - 1)
    /\ \A i \in 0..(b.size - 1) : b.slot[i] # NoMsg =>
          /\ b.slot[i].id % b.size = i
          /\ b.slot[i].id \in b.read..(b.read + b.size - 1)
          /\ b.slot[i].id \in 1..Len(a)
          /\ b.slot[i] = a[b.slot[i].id]

\* The slot of a number that is ahead of the read counter holds the message of
\* that number, if any.
LEMMA SlotOfAhead ==
    ASSUME NEW a, Numbered(a), NEW b, Holds(b, a), NEW w \in b.read..(b.read + b.size - 1),
           b.slot[w % b.size] # NoMsg
    PROVE  /\ b.slot[w % b.size] = a[w] /\ b.slot[w % b.size].id = w
           /\ w \in 1..Len(a)
<1> DEFINE i == w % b.size
<1>1. /\ b.size \in Nat \ {0} /\ b.read \in Int /\ w \in Int
  BY DEF Holds, Numbered
<1>2. i \in 0..(b.size - 1)
  BY <1>1
<1>3. /\ b.slot[i].id % b.size = w % b.size
      /\ b.slot[i].id \in b.read..(b.read + b.size - 1)
      /\ b.slot[i].id \in 1..Len(a)
      /\ b.slot[i] = a[b.slot[i].id]
  BY <1>2 DEF Holds
<1> DEFINE n == b.size
           x == b.slot[i].id
<1>4. x = w
  <2>1. /\ n \in Nat \ {0} /\ x \in Int /\ w \in Int /\ x % n = w % n
        /\ x \in b.read..(b.read + n - 1) /\ w \in b.read..(b.read + n - 1)
    BY <1>1, <1>3
  <2> HIDE DEF n, x
  <2>2. x - w < n /\ w - x < n
    BY <1>1, <2>1
  <2> QED
    BY <2>1, <2>2, SameRemainder
<1> QED
  BY <1>3, <1>4

\* No id of the sequence is taken for one that has wrapped.
LEMMA NoneWraps ==
    ASSUME NEW a, Numbered(a), NEW b, Holds(b, a), NEW id \in 1..Len(a)
    PROVE  EffectiveId(b, id) = id
<1>1. b.read \in 1..(Len(a) + 1) /\ Len(a) \in Nat
  BY DEF Holds, Numbered
<1>2. id < b.read => 2 * (b.read - id) <= 2 * Len(a)
  BY <1>1
<1>3. 2 * Len(a) <= MaxId - MinId /\ MaxId \in Int /\ MinId \in Int
  BY BufferAssumption DEF Numbered
<1> QED
  BY <1>1, <1>2, <1>3 DEF EffectiveId

\* A message that is moved to another array lands in the slot that its id names.
LEMMA RehashMoves ==
    ASSUME NEW slot, NEW size \in Nat, NEW n \in Nat \ {0}, NEW k \in 0..(n - 1),
           Rehash(slot, size, n)[k] # NoMsg
    PROVE  \E i \in 0..(size - 1) : /\ slot[i] # NoMsg /\ slot[i].id % n = k
                                    /\ Rehash(slot, size, n)[k] = slot[i]
<1> DEFINE In == {i \in 0..(size - 1) : slot[i] # NoMsg /\ slot[i].id % n = k}
<1>1. Rehash(slot, size, n)[k] =
          IF In = {} THEN NoMsg ELSE slot[CHOOSE i \in In : \A j \in In : j <= i]
  BY DEF Rehash
<1>2. In # {} /\ In \in SUBSET (0..size)
  BY <1>1
<1> DEFINE last == CHOOSE i \in In : \A j \in In : j <= i
<1>3. last \in In
  <2> HIDE DEF In
  <2>1. \E i \in In : \A j \in In : j <= i
    BY <1>2, LastExists
  <2> QED
    BY <2>1
<1>4. Rehash(slot, size, n)[k] = slot[last]
  BY <1>1, <1>2
<1> HIDE DEF last
<1> QED
  BY <1>3, <1>4

(* The array that has been made larger holds what the old one held, as far as it
   holds anything, and it has a slot for the new id. *)
LEMMA GrownHolds ==
    ASSUME NEW a, Numbered(a), NEW b, Holds(b, a), NEW id \in 1..Len(a), id >= b.read
    PROVE  /\ Holds(Grown(b, id), a)
           /\ Grown(b, id).read = b.read /\ Grown(b, id).write = b.write
           /\ id < b.read + Grown(b, id).size
<1>1. EffectiveId(b, id) = id
  BY NoneWraps
<1>2. b.read \in Nat /\ b.size \in Nat \ {0} /\ id \in Nat /\ BufGrowth \in Nat \ {0}
  BY BufferAssumption DEF Holds, Numbered
<1>3. CASE ~MustGrow(b, id)
  BY <1>1, <1>2, <1>3 DEF Grown, MustGrow
<1>4. CASE MustGrow(b, id)
  <2> DEFINE n == id - b.read + BufGrowth
             g == Grown(b, id)
  <2>1. id >= b.read + b.size
    BY <1>1, <1>4 DEF MustGrow
  <2>2. n \in Nat \ {0} /\ n >= b.size /\ id < b.read + n
    BY <1>2, <2>1
  <2>3. g = [b EXCEPT !.slot = Rehash(b.slot, b.size, n), !.size = n]
    BY <1>1, <1>4 DEF Grown
  <2> HIDE DEF n
  <2>4. /\ DOMAIN g = DOMAIN EmptyBuffer /\ g.slot = Rehash(b.slot, b.size, n) /\ g.size = n
        /\ g.read = b.read /\ g.write = b.write
    BY <2>3 DEF Holds, EmptyBuffer
  <2> HIDE DEF g
  <2>5. DOMAIN g.slot = 0..(n - 1)
    BY <2>4 DEF Rehash
  <2>6. ASSUME NEW k \in 0..(n - 1), g.slot[k] # NoMsg
        PROVE  /\ g.slot[k].id % n = k
               /\ g.slot[k].id \in b.read..(b.read + n - 1)
               /\ g.slot[k].id \in 1..Len(a)
               /\ g.slot[k] = a[g.slot[k].id]
    <3>1. PICK i \in 0..(b.size - 1) : /\ b.slot[i] # NoMsg /\ b.slot[i].id % n = k
                                       /\ g.slot[k] = b.slot[i]
      <4>1. b.size \in Nat /\ n \in Nat \ {0} /\ Rehash(b.slot, b.size, n)[k] # NoMsg
        BY <1>2, <2>2, <2>4, <2>6
      <4>2. \E i \in 0..(b.size - 1) : /\ b.slot[i] # NoMsg /\ b.slot[i].id % n = k
                                       /\ Rehash(b.slot, b.size, n)[k] = b.slot[i]
        <5> DEFINE slot == b.slot
                   size == b.size
        <5>1. size \in Nat /\ Rehash(slot, size, n)[k] # NoMsg
          BY <4>1
        <5> HIDE DEF slot, size
        <5>2. \E i \in 0..(size - 1) : /\ slot[i] # NoMsg /\ slot[i].id % n = k
                                       /\ Rehash(slot, size, n)[k] = slot[i]
          BY <4>1, <5>1, RehashMoves, SMTT(20)
        <5> QED
          BY <5>2 DEF slot, size
      <4> QED
        BY <2>4, <4>2
    <3>2. /\ b.slot[i].id \in b.read..(b.read + b.size - 1)
          /\ b.slot[i].id \in 1..Len(a)
          /\ b.slot[i] = a[b.slot[i].id]
      BY <3>1 DEF Holds
    <3> DEFINE x == b.slot[i].id
    <3>3. x \in b.read..(b.read + n - 1)
      <4>1. x \in b.read..(b.read + b.size - 1)
        BY <3>2
      <4> HIDE DEF x
      <4> QED
        BY <1>2, <2>2, <4>1
    <3> QED
      BY <3>1, <3>2, <3>3
  <2>7. Holds(g, a)
    BY <2>2, <2>4, <2>5, <2>6 DEF Holds
  <2> QED
    BY <2>2, <2>4, <2>7 DEF g
<1> QED
  BY <1>3, <1>4

-----------------------------------------------------------------------------
(* Putting a message in, and fetching. *)

\* A message of the sequence that has not been fetched is put in.
Accepts(b, a, m) ==
    /\ Numbered(a) /\ Holds(b, a) /\ b.write = b.read
    /\ m.id \in 1..Len(a) /\ m = a[m.id] /\ ~IsDuplicate(b, m.id)

\* The message in its slot of an array that is large enough.
WithMessage(g, r, m) ==
    LET slot == [g.slot EXCEPT ![m.id % g.size] = m]
    IN  [g EXCEPT !.slot = slot,
                  !.write = IF m.id = r THEN WriteEnd(slot, g.size, r, r) ELSE r]

LEMMA PutFacts ==
    ASSUME NEW a, NEW b, NEW m, Accepts(b, a, m)
    PROVE  LET g == Grown(b, m.id)
               p == Put(b, m)
           IN  /\ m.id >= b.read /\ EffectiveId(b, m.id) = m.id
               /\ Holds(g, a) /\ g.read = b.read /\ g.write = b.read
               /\ m.id \in b.read..(b.read + g.size - 1)
               /\ p = WithMessage(g, b.read, m)
<1> DEFINE id == m.id
           g == Grown(b, id)
<1>1. Numbered(a) /\ Holds(b, a) /\ b.write = b.read /\ id \in 1..Len(a)
  BY DEF Accepts
<1>2. EffectiveId(b, id) = id
  BY <1>1, NoneWraps
<1>3. id >= b.read
  BY <1>1, <1>2 DEF Accepts, IsDuplicate, Holds, Numbered
<1>4. /\ Holds(g, a) /\ g.read = b.read /\ g.write = b.write /\ id < b.read + g.size
  BY <1>1, <1>3, GrownHolds
<1>5. id \in b.read..(b.read + g.size - 1)
  BY <1>1, <1>3, <1>4 DEF Holds, Numbered
<1>6. Put(b, m) = WithMessage(g, b.read, m)
  BY <1>1, <1>2, <1>4 DEF Put, WithMessage
<1> QED
  BY <1>1, <1>2, <1>3, <1>4, <1>5, <1>6

\* The array with the message in its slot holds messages of the sequence.
LEMMA PutHolds ==
    ASSUME NEW a, NEW b, NEW m, Accepts(b, a, m)
    PROVE  /\ Holds(Put(b, m), a) /\ Put(b, m).read = b.read
           /\ Put(b, m).slot[m.id % Put(b, m).size] = m
           /\ m.id \in b.read..(b.read + Put(b, m).size - 1)
           /\ Put(b, m).write = IF m.id = b.read
                                THEN WriteEnd(Put(b, m).slot, Put(b, m).size, b.read, b.read)
                                ELSE b.read
<1> DEFINE id == m.id
           g == Grown(b, id)
           p == Put(b, m)
           n == g.size
<1>1. /\ Holds(g, a) /\ g.read = b.read
      /\ id \in b.read..(b.read + n - 1) /\ id \in 1..Len(a) /\ m = a[id]
      /\ p = [g EXCEPT !.slot = [g.slot EXCEPT ![id % n] = m],
                       !.write = IF id = b.read
                                 THEN WriteEnd([g.slot EXCEPT ![id % n] = m], n, b.read, b.read)
                                 ELSE b.read]
  <2>1. id \in 1..Len(a) /\ m = a[id]
    BY DEF Accepts
  <2>2. /\ Holds(g, a) /\ g.read = b.read
        /\ id \in b.read..(b.read + n - 1)
        /\ p = WithMessage(g, b.read, m)
    BY PutFacts
  <2> QED
    BY <2>1, <2>2 DEF WithMessage
<1> HIDE DEF p, g
<1>2. /\ DOMAIN p = DOMAIN EmptyBuffer /\ p.slot = [g.slot EXCEPT ![id % n] = m]
      /\ p.size = n /\ p.read = b.read
      /\ p.write = IF id = b.read THEN WriteEnd(p.slot, n, b.read, b.read) ELSE b.read
  BY <1>1 DEF Holds, EmptyBuffer
<1>3. n \in Nat \ {0} /\ b.read \in 1..(Len(a) + 1) /\ DOMAIN g.slot = 0..(n - 1)
  BY <1>1 DEF Holds
<1> HIDE DEF n
<1>4. id % n \in 0..(n - 1)
  BY <1>1, <1>3
<1>5. /\ DOMAIN p.slot = 0..(n - 1) /\ p.slot[id % n] = m
      /\ \A i \in 0..(n - 1) : i # id % n => p.slot[i] = g.slot[i]
  BY <1>2, <1>3, <1>4
<1>6. ASSUME NEW i \in 0..(n - 1), p.slot[i] # NoMsg
      PROVE  /\ p.slot[i].id % n = i
             /\ p.slot[i].id \in b.read..(b.read + n - 1)
             /\ p.slot[i].id \in 1..Len(a)
             /\ p.slot[i] = a[p.slot[i].id]
  <2>1. CASE i = id % n
    BY <1>1, <1>5, <2>1
  <2>2. CASE i # id % n
    BY <1>1, <1>5, <1>6, <2>2 DEF Holds, n
  <2> QED
    BY <2>1, <2>2
<1>7. Holds(p, a)
  BY <1>2, <1>3, <1>5, <1>6 DEF Holds
<1> QED
  BY <1>1, <1>2, <1>5, <1>7 DEF p, n

\* The write counter stops at the first number whose message is not there; there
\* is one, since a full array ends the search.
LEMMA WriteEndFacts ==
    ASSUME NEW slot, NEW size \in Nat \ {0}, NEW read \in Nat
    PROVE  LET w == WriteEnd(slot, size, read, read)
           IN  /\ w \in (read + 1)..(read + size)
               /\ \A v \in (read + 1)..(w - 1) : ~Stops(slot, size, read, v)
<1> DEFINE S == {w \in (read + 1)..(read + size) : Stops(slot, size, read, w)}
<1>1. S \in SUBSET Nat
  OBVIOUS
<1>2. read + size \in S
  BY DEF Stops
<1>3. PICK w \in S : \A v \in S : w <= v
  <2> HIDE DEF S
  <2> QED
    BY <1>1, <1>2, FirstExists
<1>4. \A v \in (read + 1)..(w - 1) : ~Stops(slot, size, read, v)
  BY <1>3
<1> QED
  BY <1>3, <1>4 DEF WriteEnd

(* After a message was put in, the numbers from the read to the write counter
   all have their message, and put has not found the array corrupt. *)
LEMMA PutIsReadable ==
    ASSUME NEW a, NEW b, NEW m, Accepts(b, a, m)
    PROVE  LET p == Put(b, m)
           IN  /\ p.write \in b.read..(b.read + p.size)
               /\ \A w \in b.read..(p.write - 1) : w \in 1..Len(a) /\ p.slot[w % p.size] = a[w]
               /\ ~IsCorrupt(p)
<1> DEFINE p == Put(b, m)
           n == p.size
           r == b.read
<1>1. /\ Holds(p, a) /\ p.read = r /\ p.slot[m.id % n] = m
      /\ m.id \in r..(r + n - 1)
      /\ p.write = IF m.id = r THEN WriteEnd(p.slot, n, r, r) ELSE r
  BY PutHolds
<1>2. /\ Numbered(a) /\ m.id \in 1..Len(a) /\ m = a[m.id]
  BY DEF Accepts
<1> HIDE DEF p
<1>3. n \in Nat \ {0} /\ r \in Nat \ {0}
  BY <1>1, <1>2 DEF Holds, Numbered
<1>4. p.write \in r..(r + n)
  <2>1. CASE m.id = r
    <3> HIDE DEF n, r
    <3>1. WriteEnd(p.slot, n, r, r) \in (r + 1)..(r + n)
      BY <1>3, WriteEndFacts
    <3> QED
      BY <1>1, <1>3, <2>1, <3>1
  <2>2. CASE m.id # r
    BY <1>1, <1>3, <2>2
  <2> QED
    BY <2>1, <2>2
<1>5. ASSUME NEW w \in r..(p.write - 1)
      PROVE  w \in 1..Len(a) /\ p.slot[w % n] = a[w]
  <2>1. m.id = r /\ p.write = WriteEnd(p.slot, n, r, r)
    BY <1>1, <1>3
  <2>2. CASE w = r
    BY <1>1, <1>2, <2>1, <2>2
  <2>3. CASE w # r
    <3>1. w \in (r + 1)..(p.write - 1)
      BY <1>3, <1>4, <2>3
    <3>2. ~Stops(p.slot, n, r, w)
      BY <1>3, <2>1, <3>1, WriteEndFacts
    <3>3. p.slot[w % n] # NoMsg
      BY <3>2 DEF Stops
    <3>4. w \in r..(r + n - 1)
      BY <1>3, <1>4, <3>1
    <3> QED
      BY <1>1, <1>2, <3>3, <3>4, SlotOfAhead
  <2> QED
    BY <2>2, <2>3
<1>6. ~IsCorrupt(p)
  <2>1. SUFFICES ASSUME p.write < r + n, p.slot[p.write % n] # NoMsg
                 PROVE  p.slot[p.write % n].id = Expected(p.write)
    BY <1>1 DEF IsCorrupt
  <2>2. p.write \in r..(r + n - 1)
    BY <1>3, <1>4, <2>1
  <2>3. p.slot[p.write % n].id = p.write /\ p.write \in 1..Len(a)
    BY <1>1, <1>2, <2>1, <2>2, SlotOfAhead
  <2>4. Len(a) <= MaxId /\ Len(a) \in Nat
    BY <1>2, BufferAssumption DEF Numbered
  <2> QED
    BY <2>3, <2>4, BufferAssumption DEF Expected
<1> QED
  BY <1>4, <1>5, <1>6 DEF p

\* What the calls of fetch return is the part of the sequence that they pass, and
\* the buffer that they leave holds what comes later.
THEOREM FetchedInOrder ==
    ASSUME NEW a, NEW b, NEW m, Accepts(b, a, m)
    PROVE  LET p == Put(b, m)
               d == Fetched(p)
           IN  /\ p.write \in b.read..(Len(a) + 1)
               /\ Len(d) = p.write - b.read /\ DOMAIN d = 1..(p.write - b.read)
               /\ \A k \in 1..(p.write - b.read) : d[k] = a[b.read + k - 1]
               /\ Holds(Drained(p), a)
               /\ Drained(p).read = p.write /\ Drained(p).write = p.write
<1> DEFINE p == Put(b, m)
           d == Fetched(p)
           n == p.size
           r == b.read
           e == p.write
<1>1. Holds(p, a) /\ p.read = r
  BY PutHolds
<1>2. e \in r..(r + n) /\ \A w \in r..(e - 1) : w \in 1..Len(a) /\ p.slot[w % n] = a[w]
  BY PutIsReadable
<1>3. Numbered(a)
  BY DEF Accepts
<1> HIDE DEF p
<1>4. n \in Nat \ {0} /\ r \in 1..(Len(a) + 1) /\ Len(a) \in Nat
  BY <1>1, <1>3 DEF Holds, Numbered
<1>5. d = [k \in 1..(e - r) |-> p.slot[(r + k - 1) % n]]
  BY <1>1 DEF Fetched
<1> HIDE DEF d, n, r
<1> HIDE DEF e
<1>6. e \in r..(Len(a) + 1)
  <2>1. CASE e = r
    BY <1>4, <2>1
  <2>2. CASE e # r
    <3>1. e - 1 \in r..(e - 1)
      BY <1>2, <1>4, <2>2
    <3>2. e - 1 \in 1..Len(a)
      BY <1>2, <3>1
    <3> QED
      BY <1>2, <1>4, <3>2
  <2> QED
    BY <2>1, <2>2
<1>7. e - r \in Nat /\ DOMAIN d = 1..(e - r) /\ Len(d) = e - r
  <2>1. e - r \in Nat
    BY <1>4, <1>6
  <2>2. DOMAIN d = 1..(e - r)
    BY <1>5
  <2> DEFINE l == e - r
  <2> HIDE DEF l
  <2>3. Len([k \in 1..l |-> p.slot[(r + k - 1) % n]]) = l
    BY <2>1 DEF l
  <2> QED
    BY <1>5, <2>1, <2>2, <2>3 DEF l
<1>8. ASSUME NEW k \in 1..(e - r)
      PROVE  d[k] = a[r + k - 1]
  <2>1. r + k - 1 \in r..(e - 1)
    BY <1>4, <1>6
  <2> QED
    BY <1>2, <1>5, <2>1
<1> DEFINE slot == [i \in 0..(n - 1) |-> IF \E w \in r..(e - 1) : w % n = i THEN NoMsg
                                       ELSE p.slot[i]]
           q == Drained(p)
<1>9. e <= MaxId
  BY <1>3, <1>4, <1>6, BufferAssumption DEF Numbered
<1>10. q = [p EXCEPT !.slot = slot, !.read = e]
  <2>1. ~(p.write > MaxId)
    BY <1>2, <1>4, <1>6, <1>9, BufferAssumption DEF e
  <2> QED
    BY <1>1, <2>1 DEF Drained, e, n
<1> HIDE DEF slot, q
<1>11. /\ DOMAIN q = DOMAIN EmptyBuffer /\ q.slot = slot /\ q.size = n
       /\ q.read = e /\ q.write = e
  BY <1>1, <1>10 DEF Holds, EmptyBuffer, n, e
<1>12. ASSUME NEW i \in 0..(n - 1), slot[i] # NoMsg
       PROVE  /\ slot[i].id % n = i
              /\ slot[i].id \in e..(e + n - 1)
              /\ slot[i].id \in 1..Len(a)
              /\ slot[i] = a[slot[i].id]
  <2>1. slot[i] = p.slot[i] /\ ~(\E w \in r..(e - 1) : w % n = i)
    BY <1>12 DEF slot
  <2>2. /\ p.slot[i].id % n = i
        /\ p.slot[i].id \in r..(r + n - 1)
        /\ p.slot[i].id \in 1..Len(a)
        /\ p.slot[i] = a[p.slot[i].id]
    BY <1>1, <1>12, <2>1 DEF Holds, n
  <2> DEFINE x == p.slot[i].id
  <2>3. x \in r..(r + n - 1) /\ ~(x \in r..(e - 1))
    BY <2>1, <2>2
  <2>4. x \in e..(e + n - 1)
    <3> HIDE DEF x
    <3> QED
      BY <1>4, <1>6, <2>3
  <2> QED
    BY <2>1, <2>2, <2>4
<1>13. Holds(q, a)
  <2>1. DOMAIN q.slot = 0..(n - 1) /\ e \in 1..(Len(a) + 1)
    BY <1>4, <1>6, <1>11 DEF slot
  <2> QED
    BY <1>4, <1>11, <1>12, <2>1 DEF Holds
<1> QED
  BY <1>6, <1>7, <1>8, <1>11, <1>13 DEF p, d, r, e, q

-----------------------------------------------------------------------------
(* The list of the available transports. *)

(* Taking an element out of a list takes out the first place that has it. *)
LEMMA WithoutTakesFirst ==
    ASSUME NEW S, NEW s \in Seq(S), NEW k
    PROVE  \/ Without(s, k) = s /\ \A i \in 1..Len(s) : s[i] # k
           \/ \E i \in 1..Len(s) : /\ s[i] = k /\ \A j \in 1..(i - 1) : s[j] # k
                                   /\ Without(s, k) = RemoveAt(s, i)
<1> DEFINE I == {i \in 1..Len(s) : s[i] = k}
<1>1. CASE I = {}
  BY <1>1 DEF Without, RemoveFirst
<1>2. CASE I # {}
  <2>1. I \in SUBSET Nat
    OBVIOUS
  <2>2. Min(I) \in I /\ \A j \in I : Min(I) <= j
    <3> HIDE DEF I
    <3>1. \E i \in I : \A j \in I : i <= j
      BY <1>2, <2>1, FirstExists
    <3> QED
      BY <3>1 DEF Min
  <2>3. Without(s, k) = RemoveAt(s, Min(I))
    BY <1>2 DEF Without, RemoveFirst, SelectInSeq
  <2>4. \A j \in 1..(Min(I) - 1) : s[j] # k
    BY <2>2
  <2> QED
    BY <2>2, <2>3, <2>4
<1> QED
  BY <1>1, <1>2

(* A list with a place taken out. *)
LEMMA RemoveAtOfSeq ==
    ASSUME NEW S, NEW s \in Seq(S), NEW i \in 1..Len(s)
    PROVE  /\ RemoveAt(s, i) \in Seq(S)
           /\ Len(RemoveAt(s, i)) = Len(s) - 1
           /\ \A j \in 1..(Len(s) - 1) :
                 RemoveAt(s, i)[j] = IF j < i THEN s[j] ELSE s[j + 1]
<1>1. /\ SubSeq(s, 1, i - 1) \in Seq(S) /\ Len(SubSeq(s, 1, i - 1)) = i - 1
      /\ \A j \in 1..(i - 1) : SubSeq(s, 1, i - 1)[j] = s[j]
  BY SubSeqProperties
<1>2. /\ SubSeq(s, i + 1, Len(s)) \in Seq(S) /\ Len(SubSeq(s, i + 1, Len(s))) = Len(s) - i
      /\ \A j \in 1..(Len(s) - i) : SubSeq(s, i + 1, Len(s))[j] = s[i + j]
  BY SubSeqProperties
<1> DEFINE a == SubSeq(s, 1, i - 1)
           b == SubSeq(s, i + 1, Len(s))
<1>3. RemoveAt(s, i) = a \o b
  BY DEF RemoveAt
<1> HIDE DEF a, b
<1>4. /\ a \o b \in Seq(S) /\ Len(a \o b) = Len(a) + Len(b)
      /\ \A j \in 1..(Len(a) + Len(b)) :
            (a \o b)[j] = IF j <= Len(a) THEN a[j] ELSE b[j - Len(a)]
  BY <1>1, <1>2, ConcatProperties DEF a, b
<1>5. Len(a) = i - 1 /\ Len(b) = Len(s) - i
  BY <1>1, <1>2 DEF a, b
<1>6. ASSUME NEW j \in 1..(Len(s) - 1)
      PROVE  RemoveAt(s, i)[j] = IF j < i THEN s[j] ELSE s[j + 1]
  <2>1. CASE j < i
    BY <1>1, <1>3, <1>4, <1>5, <2>1 DEF a
  <2>2. CASE j >= i
    <3>1. RemoveAt(s, i)[j] = b[j - (i - 1)]
      BY <1>3, <1>4, <1>5, <2>2, SMTT(20)
    <3>2. b[j - (i - 1)] = s[i + (j - (i - 1))]
      BY <1>2, <2>2 DEF b
    <3> QED
      BY <2>2, <3>1, <3>2
  <2> QED
    BY <2>1, <2>2
<1>7. Len(a) + Len(b) = Len(s) - 1
  BY <1>5
<1>8. RemoveAt(s, i) \in Seq(S) /\ Len(RemoveAt(s, i)) = Len(s) - 1
  BY <1>3, <1>4, <1>7
<1> QED
  BY <1>6, <1>8

(* A transport goes into the list at a place of it, or at its end. *)
LEMMA InsertedOfSeq ==
    ASSUME NEW s \in Seq(Conns), NEW k \in Conns
    PROVE  /\ Inserted(s, k) \in Seq(Conns) /\ Len(Inserted(s, k)) = Len(s) + 1
           /\ \E p \in 1..(Len(s) + 1) : \A i \in 1..(Len(s) + 1) :
                 Inserted(s, k)[i] = IF i < p THEN s[i] ELSE IF i = p THEN k ELSE s[i - 1]
<1> DEFINE after == {i \in DOMAIN s : Priority[s[i]] > Priority[k]}
           pos == IF after = {} THEN Len(s) + 1
                  ELSE CHOOSE i \in after : \A j \in after : i <= j
<1>1. pos \in 1..(Len(s) + 1)
  <2>1. CASE after = {}
    BY <2>1
  <2>2. CASE after # {}
    <3>1. after \in SUBSET Nat /\ after \subseteq 1..Len(s)
      OBVIOUS
    <3>2. pos \in after
      <4> HIDE DEF after
      <4>1. \E i \in after : \A j \in after : i <= j
        BY <2>2, <3>1, FirstExists
      <4> QED
        BY <2>2, <4>1
    <3> QED
      BY <3>1, <3>2
  <2> QED
    BY <2>1, <2>2
<1>2. Inserted(s, k) = InsertAt(s, pos, k)
  BY DEF Inserted
<1> HIDE DEF after, pos
<1> DEFINE a == SubSeq(s, 1, pos - 1)
           b == SubSeq(s, pos, Len(s))
<1>3. /\ a \in Seq(Conns) /\ Len(a) = pos - 1 /\ \A j \in 1..(pos - 1) : a[j] = s[j]
  BY <1>1, SubSeqProperties
<1>4. /\ b \in Seq(Conns) /\ Len(b) = Len(s) - pos + 1
      /\ \A j \in 1..(Len(s) - pos + 1) : b[j] = s[pos + j - 1]
  BY <1>1, SubSeqProperties
<1> DEFINE c == a \o <<k>>
<1>5. Inserted(s, k) = c \o b
  BY <1>2 DEF InsertAt
<1> HIDE DEF a, b
<1>6. /\ c \in Seq(Conns) /\ Len(c) = pos
      /\ \A j \in 1..pos : c[j] = IF j < pos THEN s[j] ELSE k
  BY <1>1, <1>3
<1> HIDE DEF c
<1>7. /\ c \o b \in Seq(Conns) /\ Len(c \o b) = Len(s) + 1
      /\ \A j \in 1..(Len(s) + 1) : (c \o b)[j] = IF j <= pos THEN c[j] ELSE b[j - pos]
  <2>1. /\ c \o b \in Seq(Conns) /\ Len(c \o b) = Len(c) + Len(b)
        /\ \A j \in 1..(Len(c) + Len(b)) :
              (c \o b)[j] = IF j <= Len(c) THEN c[j] ELSE b[j - Len(c)]
    BY <1>4, <1>6, ConcatProperties
  <2>2. Len(c) = pos /\ Len(c) + Len(b) = Len(s) + 1
    BY <1>1, <1>4, <1>6
  <2> QED
    BY <2>1, <2>2
<1>8. ASSUME NEW i \in 1..(Len(s) + 1)
      PROVE  Inserted(s, k)[i] = IF i < pos THEN s[i] ELSE IF i = pos THEN k ELSE s[i - 1]
  <2>1. CASE i <= pos
    BY <1>1, <1>5, <1>6, <1>7, <2>1
  <2>2. CASE i > pos
    <3>1. Inserted(s, k)[i] = b[i - pos]
      BY <1>1, <1>5, <1>7, <2>2
    <3>2. b[i - pos] = s[pos + (i - pos) - 1]
      BY <1>1, <1>4, <2>2
    <3> QED
      BY <1>1, <2>2, <3>1, <3>2
  <2> QED
    BY <1>1, <2>1, <2>2
<1> QED
  BY <1>1, <1>5, <1>7, <1>8


\* The states of a connection, and a list that has exactly the available ones,
\* each of them once.
States == {"DISCONNECTED", "AVAILABLE", "UNAVAILABLE", "DISCONNECTING", "ERROR"}

Lists(s, f) ==
    /\ s \in Seq(Conns) /\ f \in [Conns -> States]
    /\ \A i \in 1..Len(s) : f[s[i]] = "AVAILABLE"
    /\ \A k \in Conns : f[k] = "AVAILABLE" => \E i \in 1..Len(s) : s[i] = k
    /\ \A i, j \in 1..Len(s) : s[i] = s[j] => i = j

LEMMA ListWithout ==
    ASSUME NEW s, NEW f, Lists(s, f), NEW k \in Conns, NEW v \in States, v # "AVAILABLE"
    PROVE  /\ Lists(Without(s, k), [f EXCEPT ![k] = v])
           /\ Len(Without(s, k)) = IF f[k] = "AVAILABLE" THEN Len(s) - 1 ELSE Len(s)
<1> USE DEF Lists
<1>1. CASE Without(s, k) = s /\ \A i \in 1..Len(s) : s[i] # k
  BY <1>1
<1>2. ASSUME NEW i \in 1..Len(s), s[i] = k, Without(s, k) = RemoveAt(s, i)
      PROVE  /\ Lists(Without(s, k), [f EXCEPT ![k] = v])
             /\ f[k] = "AVAILABLE" /\ Len(Without(s, k)) = Len(s) - 1
  <2> DEFINE r == RemoveAt(s, i)
  <2>1. /\ r \in Seq(Conns) /\ Len(r) = Len(s) - 1
        /\ \A j \in 1..(Len(s) - 1) : r[j] = IF j < i THEN s[j] ELSE s[j + 1]
    BY RemoveAtOfSeq
  <2> HIDE DEF r
  <2>2. \A j \in 1..Len(r) : r[j] \in Conns /\ r[j] # k /\ f[r[j]] = "AVAILABLE"
    BY <1>2, <2>1
  <2>3. ASSUME NEW c \in Conns, c # k, f[c] = "AVAILABLE"
        PROVE  \E j \in 1..Len(r) : r[j] = c
    <3>1. PICK j \in 1..Len(s) : s[j] = c
      BY <2>3
    <3>2. CASE j < i
      BY <2>1, <3>1, <3>2
    <3>3. CASE j > i
      <4>1. j - 1 \in 1..Len(r) /\ r[j - 1] = s[j]
        BY <2>1, <3>3
      <4> QED
        BY <3>1, <4>1
    <3> QED
      BY <1>2, <2>3, <3>1, <3>2, <3>3
  <2>4. ASSUME NEW j \in 1..Len(r), NEW l \in 1..Len(r), r[j] = r[l]
        PROVE  j = l
    BY <2>1, <2>4, SMTT(20)
  <2> QED
    BY <1>2, <2>1, <2>2, <2>3, <2>4 DEF r
<1> QED
  BY <1>1, <1>2, WithoutTakesFirst

LEMMA ListInserted ==
    ASSUME NEW s, NEW f, Lists(s, f), NEW k \in Conns, f[k] # "AVAILABLE"
    PROVE  /\ Lists(Inserted(s, k), [f EXCEPT ![k] = "AVAILABLE"])
           /\ Len(Inserted(s, k)) = Len(s) + 1
<1> USE DEF Lists
<1> DEFINE t == Inserted(s, k)
<1>1. t \in Seq(Conns) /\ Len(t) = Len(s) + 1
  BY InsertedOfSeq
<1>2. PICK p \in 1..(Len(s) + 1) : \A i \in 1..(Len(s) + 1) :
               t[i] = IF i < p THEN s[i] ELSE IF i = p THEN k ELSE s[i - 1]
  BY InsertedOfSeq
<1> HIDE DEF t
<1>3. \A i \in 1..Len(s) : s[i] # k
  OBVIOUS
<1>4. ASSUME NEW i \in 1..Len(t)
      PROVE  [f EXCEPT ![k] = "AVAILABLE"][t[i]] = "AVAILABLE"
  <2>1. t[i] = k \/ \E j \in 1..Len(s) : t[i] = s[j]
    BY <1>1, <1>2
  <2> QED
    BY <2>1
<1>5. ASSUME NEW c \in Conns, c # k, f[c] = "AVAILABLE"
      PROVE  \E i \in 1..Len(t) : t[i] = c
  <2>1. PICK j \in 1..Len(s) : s[j] = c
    BY <1>5
  <2>2. CASE j < p
    BY <1>1, <1>2, <2>1, <2>2
  <2>3. CASE j >= p
    <3>1. j + 1 \in 1..Len(t) /\ t[j + 1] = s[j]
      BY <1>1, <1>2, <2>3
    <3> QED
      BY <2>1, <3>1
  <2> QED
    BY <2>2, <2>3
<1>6. t[p] = k /\ p \in 1..Len(t)
  BY <1>1, <1>2
<1>7. ASSUME NEW i \in 1..Len(t), NEW j \in 1..Len(t), t[i] = t[j]
      PROVE  i = j
  <2>1. \A n \in 1..Len(t) : n # p =>
            \E m \in 1..Len(s) : /\ t[n] = s[m] /\ t[n] # k
                                /\ m = IF n < p THEN n ELSE n - 1
    <3>1. SUFFICES ASSUME NEW n \in 1..Len(t), n # p
                   PROVE  \E m \in 1..Len(s) : /\ t[n] = s[m] /\ t[n] # k
                                              /\ m = IF n < p THEN n ELSE n - 1
      OBVIOUS
    <3> DEFINE m == IF n < p THEN n ELSE n - 1
    <3>2. m \in 1..Len(s)
      BY <1>1, <3>1
    <3>3. t[n] = s[m]
      BY <1>1, <1>2, <3>1
    <3> QED
      BY <1>3, <3>2, <3>3
  <2>2. CASE i = p \/ j = p
    BY <1>6, <1>7, <2>1, <2>2
  <2>3. CASE i # p /\ j # p
    BY <1>1, <1>7, <2>1, <2>3
  <2> QED
    BY <2>2, <2>3
<1> DEFINE g == [f EXCEPT ![k] = "AVAILABLE"]
<1>8. g \in [Conns -> States] /\ g[k] = "AVAILABLE" /\ \A c \in Conns \ {k} : g[c] = f[c]
  BY DEF States
<1>9. \A i \in 1..Len(t) : g[t[i]] = "AVAILABLE"
  BY <1>4
<1> HIDE DEF g
<1>10. \A c \in Conns : g[c] = "AVAILABLE" => \E i \in 1..Len(t) : t[i] = c
  BY <1>5, <1>6, <1>8
<1>11. Lists(t, g)
  BY <1>1, <1>7, <1>8, <1>9, <1>10
<1> QED
  BY <1>1, <1>11 DEF t, g

ListInv == Lists(avail, st) /\ Len(avail) <= MaxActive

(* A transport becomes available: the one that is too many goes. *)
LEMMA BecomeAvailableKeeps ==
    ASSUME ListInv, NEW k \in Conns, st[k] # "AVAILABLE", BecomeAvailable(k)
    PROVE  ListInv'
<1> DEFINE s == Inserted(avail, k)
           f == [st EXCEPT ![k] = "AVAILABLE"]
           last == s[Len(s)]
<1>0. Len(avail) \in Nat
  BY DEF ListInv, Lists
<1>1. Lists(s, f) /\ Len(s) = Len(avail) + 1 /\ Len(avail) \in Nat
  BY <1>0, ListInserted DEF ListInv
<1>2. CASE Len(s) <= MaxActive
  BY <1>1, <1>2, LinkAssumption DEF BecomeAvailable, ListInv
<1>3. CASE Len(s) > MaxActive
  <2>1. last \in Conns /\ f[last] = "AVAILABLE"
    BY <1>1 DEF Lists
  <2>2. avail' = Without(s, last) /\ st' = [f EXCEPT ![last] = "DISCONNECTING"]
    BY <1>3 DEF BecomeAvailable
  <2> HIDE DEF s, f, last
  <2>3. "DISCONNECTING" \in States /\ "DISCONNECTING" # "AVAILABLE"
    BY DEF States
  <2>4. Lists(avail', st') /\ Len(avail') = Len(s) - 1
    BY <1>1, <2>1, <2>2, <2>3, ListWithout
  <2> QED
    BY <1>1, <2>4 DEF ListInv
<1> QED
  BY <1>1, <1>2, <1>3, LinkAssumption

(* A transport is no more available, whether it was or not. *)
LEMMA LeavesKeeps ==
    ASSUME ListInv, NEW k \in Conns, NEW v \in States, v # "AVAILABLE",
           avail' = Without(avail, k), st' = [st EXCEPT ![k] = v]
    PROVE  ListInv'
<1>0. Len(avail) \in Nat
  BY DEF ListInv, Lists
<1>1. Lists(avail', st') /\ Len(avail') <= Len(avail)
  <2>1. Lists(avail, st)
    BY DEF ListInv
  <2>2. /\ Lists(Without(avail, k), [st EXCEPT ![k] = v])
        /\ Len(Without(avail, k)) = IF st[k] = "AVAILABLE" THEN Len(avail) - 1 ELSE Len(avail)
    BY <2>1, ListWithout
  <2>3. Len(Without(avail, k)) <= Len(avail)
    BY <1>0, <2>2
  <2> QED
    BY <2>2, <2>3
<1>2. Len(avail') \in Nat /\ Len(avail) \in Nat
  BY <1>0, <1>1 DEF Lists
<1> QED
  BY <1>1, <1>2, LinkAssumption DEF ListInv

LEMMA StepListInv == ListInv /\ [Next]_vars => ListInv'
<1> SUFFICES ASSUME ListInv, [Next]_vars
             PROVE  ListInv'
  OBVIOUS
<1>0. /\ "UNAVAILABLE" \in States /\ "ERROR" \in States /\ "DISCONNECTING" \in States
      /\ "UNAVAILABLE" # "AVAILABLE" /\ "ERROR" # "AVAILABLE" /\ "DISCONNECTING" # "AVAILABLE"
  BY DEF States
<1>1. CASE UNCHANGED <<avail, st>>
  BY <1>1 DEF ListInv, Lists
<1>2. CASE SendFun
  <2>1. CASE avail = <<>>
    BY <1>1, <1>2, <2>1 DEF SendFun
  <2>2. CASE avail # <<>>
    <3>1. avail[1] \in Conns
      BY <2>2 DEF ListInv, Lists
    <3>2. \/ UNCHANGED <<avail, st>>
          \/ avail' = Without(avail, avail[1]) /\ st' = [st EXCEPT ![avail[1]] = "UNAVAILABLE"]
      BY <1>2, <2>2 DEF SendFun, Transmit
    <3> QED
      BY <1>0, <1>1, <3>1, <3>2, LeavesKeeps
  <2> QED
    BY <2>1, <2>2
<1>3. CASE SendFunFails
  <2>1. avail[1] \in Conns
    BY <1>3 DEF SendFunFails, ListInv, Lists
  <2>2. avail' = Without(avail, avail[1]) /\ st' = [st EXCEPT ![avail[1]] = "ERROR"]
    BY <1>3 DEF SendFunFails
  <2> QED
    BY <1>0, <2>1, <2>2, LeavesKeeps
<1>4. ASSUME NEW k \in Conns, Opened(k)
      PROVE  ListInv'
  BY <1>4, BecomeAvailableKeeps DEF Opened
<1>5. ASSUME NEW k \in Conns, PostDone(k) \/ PostFails(k)
      PROVE  ListInv'
  <2>1. (st[k] = "UNAVAILABLE" /\ BecomeAvailable(k)) \/ UNCHANGED <<avail, st>>
    BY <1>5 DEF PostDone, PostFails
  <2> QED
    BY <1>1, <2>1, BecomeAvailableKeeps
<1>6. ASSUME NEW k \in Conns, Disable(k)
      PROVE  ListInv'
  BY <1>0, <1>6, LeavesKeeps DEF Disable
<1>7. ASSUME NEW k \in Conns, Lose(k)
      PROVE  ListInv'
  BY <1>0, <1>7, LeavesKeeps DEF Lose
<1>8. ASSUME NEW k \in Conns, Deliver(k) \/ FlushAcks(k) \/ AckArrives(k)
      PROVE  ListInv'
  BY <1>1, <1>8 DEF Deliver, FlushAcks, AckArrives, senderVars
<1>9. ASSUME NEW d \in Data, Send(d)
      PROVE  ListInv'
  BY <1>1, <1>9 DEF Send
<1>10. CASE UNCHANGED vars
  BY <1>1, <1>10 DEF vars, senderVars
<1> QED
  BY <1>2, <1>3, <1>4, <1>5, <1>6, <1>7, <1>8, <1>9, <1>10 DEF Next, Progress

LEMMA InitListInv == Init => ListInv
<1> SUFFICES ASSUME Init PROVE ListInv
  OBVIOUS
<1>1. avail = <<>> /\ st = [k \in Conns |-> "DISCONNECTED"]
  BY DEF Init, PerConn
<1>2. avail \in Seq(Conns) /\ Len(avail) = 0
  BY <1>1
<1>3. st \in [Conns -> States] /\ \A k \in Conns : st[k] # "AVAILABLE"
  BY <1>1 DEF States
<1> QED
  BY <1>2, <1>3, LinkAssumption DEF ListInv, Lists

(* The transports _sendFun may use are exactly the available ones, each of them
   listed once, and never more than the endpoint may keep (ttStateChanged,
   addTransportToAvailable). *)
THEOREM AvailableAreListed == Spec => []ListInv
BY InitListInv, StepListInv, PTL DEF Spec

-----------------------------------------------------------------------------
(* The window of the channel. *)

\* SendFun takes what the window admits: afterwards the window is full, or the
\* channel has nothing more.
LEMMA TakesAll ==
    ASSUME NEW c, NEW S, c.outQueue \in Seq(S), DOMAIN c = DOMAIN NewChannel,
           NEW n \in 0..Len(c.outQueue), Takes(c, n)
    PROVE  ~Popped(c, n).available \/ Popped(c, n).outQueue = <<>>
<1> DEFINE q == SubSeq(c.outQueue, n + 1, Len(c.outQueue))
           f == c.bytesInFlight + Bytes(c.outQueue, n)
<1>1. CASE n = 0
  BY <1>1 DEF Takes, Popped
<1>2. CASE n # 0
  <2>1. Popped(c, n).available = (q # <<>> /\ IsOpen(f))
    BY <1>2 DEF Popped, NewChannel
  <2>2. n = Len(c.outQueue) \/ ~IsOpen(f)
    BY <1>2 DEF Takes
  <2>3. n = Len(c.outQueue) => q = <<>>
    BY SubSeqEmpty
  <2> QED
    BY <2>1, <2>2, <2>3, Zenon
<1> QED
  BY <1>1, <1>2

-----------------------------------------------------------------------------
(* What is queued, and what is on its way. *)

\* A sequence of elements of another set.
LEMMA SeqOfOthers ==
    ASSUME NEW S, NEW T, NEW s \in Seq(S), \A i \in 1..Len(s) : s[i] \in T
    PROVE  s \in Seq(T)
<1>1. s \in [1..Len(s) -> T] /\ Len(s) \in Nat
  OBVIOUS
<1> QED
  BY <1>1, SeqDef

Ops == {"MESSAGE", "FRAGMENT_START", "FRAGMENT_END"}
Msg == [id : Nat, op : Ops, data : Seq(0..255)]
Given == {assigned[i] : i \in 1..Len(assigned)}

AssignedInv ==
    /\ assigned \in Seq(Msg) /\ Len(assigned) <= MaxMessages
    /\ \A i \in 1..Len(assigned) : assigned[i].id = i

WayInv ==
    /\ DOMAIN chan = DOMAIN NewChannel
    /\ chan.messageId = Len(assigned) + 1
    /\ chan.outQueue \in Seq(Given)
    /\ httpBuf \in [Conns -> Seq(Given)]
    /\ wire \in [Conns -> Seq(Seq(Given))]

\* The chunks of n units: all but the last are full.
LEMMA ChunkCountFacts ==
    ASSUME NEW d \in Seq(0..255)
    PROVE  /\ ChunkCount(d) \in Nat \ {0}
           /\ ChunkCount(d) = 1 => Len(d) <= ChunkSize
           /\ ChunkCount(d) > 1 => /\ (ChunkCount(d) - 1) * ChunkSize < Len(d)
                                   /\ Len(d) <= ChunkCount(d) * ChunkSize
<1> USE ChannelAssumption
<1>1. CASE Len(d) <= ChunkSize
  BY <1>1 DEF ChunkCount
<1>2. CASE Len(d) > ChunkSize
  <2> DEFINE n == Len(d)
             c == ChunkSize
             q == (n + c - 1) \div c
             r == (n + c - 1) % c
  <2>1. n \in Nat /\ c \in Nat \ {0} /\ n > c
    BY <1>2
  <2>2. ChunkCount(d) = q
    BY <1>2 DEF ChunkCount
  <2> HIDE DEF n, c
  <2>3. n + c - 1 = c * q + r /\ r \in 0..(c - 1) /\ q \in Int
    BY <2>1
  <2> HIDE DEF q, r
  <2>4. q >= 2
    <3>1. q <= 1 => c * q <= c
      BY <2>1, <2>3
    <3> QED
      BY <2>1, <2>3, <3>1
  <2>5. (q - 1) * c = c * q - c /\ q * c = c * q
    BY <2>1, <2>3
  <2>6. (q - 1) * c < n /\ n <= q * c
    BY <2>1, <2>3, <2>5
  <2> QED
    BY <2>2, <2>3, <2>4, <2>6 DEF n, c
<1> QED
  BY <1>1, <1>2

\* The messages that one send queues: their ids go on from the last.
LEMMA ChunksFacts ==
    ASSUME NEW d \in Data, NEW c, NEW l \in Nat, c.messageId = l + 1,
           l + ChunkCount(d) <= MaxMessages
    PROVE  /\ Chunks(c, d) \in Seq(Msg) /\ Len(Chunks(c, d)) = ChunkCount(d)
           /\ \A k \in 1..ChunkCount(d) :
                 Chunks(c, d)[k] = [id |-> l + k, op |-> ChunkOp(k, ChunkCount(d)),
                                    data |-> SubSeq(d, (k - 1) * ChunkSize + 1, ChunkEnd(d, k))]
           /\ NextCounter(c.messageId, ChunkCount(d)) = l + ChunkCount(d) + 1
<1> DEFINE n == ChunkCount(d)
<1>1. d \in Seq(0..255) /\ n \in Nat \ {0}
  BY DataAssumption, ChunkCountFacts
<1> HIDE DEF n
<1>2. ASSUME NEW k \in 1..n
      PROVE  /\ NthId(c.messageId, k) = l + k
             /\ ChunkOp(k, n) \in Ops
             /\ SubSeq(d, (k - 1) * ChunkSize + 1, ChunkEnd(d, k)) \in Seq(0..255)
  <2>1. NthId(c.messageId, k) = l + k
    BY <1>1, LinkAssumption, BufferAssumption DEF NthId, n
  <2>2. ChunkOp(k, n) \in Ops
    BY <1>1 DEF ChunkOp, Ops
  <2>3. (k - 1) * ChunkSize \in Nat /\ ChunkEnd(d, k) \in Int /\ ChunkEnd(d, k) <= Len(d)
    BY <1>1, ChannelAssumption DEF ChunkEnd
  <2> DEFINE m == (k - 1) * ChunkSize
             e == ChunkEnd(d, k)
  <2> HIDE DEF m, e
  <2>4. \A i \in (m + 1)..e : d[i] \in 0..255
    <3>1. m \in Nat /\ e \in Int /\ e <= Len(d)
      BY <2>3 DEF m, e
    <3>2. \A i \in (m + 1)..e : i \in 1..Len(d)
      BY <1>1, <3>1
    <3> QED
      BY <1>1, <3>2, ElementOfSeq
  <2>5. SubSeq(d, m + 1, e) \in Seq(0..255)
    BY <2>3, <2>4, SubSeqProperties DEF m, e
  <2> QED
    BY <2>1, <2>2, <2>5 DEF m, e
<1>3. Chunks(c, d) = [k \in 1..n |-> [id |-> NthId(c.messageId, k), op |-> ChunkOp(k, n),
                         data |-> SubSeq(d, (k - 1) * ChunkSize + 1, ChunkEnd(d, k))]]
  BY DEF Chunks, n
<1>4. NextCounter(c.messageId, n) = l + n + 1
  BY <1>1, LinkAssumption, BufferAssumption DEF NextCounter, n
<1>5. \A k \in 1..n : Chunks(c, d)[k] \in Msg
  BY <1>2, <1>3 DEF Msg
<1>6. Chunks(c, d) \in Seq(Msg) /\ Len(Chunks(c, d)) = n
  BY <1>1, <1>3, <1>5
<1>7. \A k \in 1..n :
          Chunks(c, d)[k] = [id |-> l + k, op |-> ChunkOp(k, n),
                             data |-> SubSeq(d, (k - 1) * ChunkSize + 1, ChunkEnd(d, k))]
  BY <1>2, <1>3
<1> QED
  BY <1>4, <1>6, <1>7 DEF n

\* What is on its way stays one of the messages queued when more are queued.
LEMMA GivenGrows ==
    ASSUME AssignedInv, NEW more \in Seq(Msg), assigned' = assigned \o more
    PROVE  Given \subseteq Given'
<1>1. /\ Len(assigned') = Len(assigned) + Len(more)
      /\ \A i \in 1..Len(assigned) : assigned'[i] = assigned[i]
  BY ConcatProperties DEF AssignedInv
<1>2. Len(assigned) \in Nat /\ Len(more) \in Nat
  BY DEF AssignedInv
<1> QED
  BY <1>1, <1>2 DEF Given

LEMMA SendKeeps ==
    ASSUME AssignedInv, WayInv, NEW d \in Data, Send(d)
    PROVE  AssignedInv' /\ WayInv'
<1> DEFINE l == Len(assigned)
           more == Chunks(chan, d)
           n == ChunkCount(d)
<1>1. l \in Nat /\ chan.messageId = l + 1 /\ l + n <= MaxMessages
  BY DEF AssignedInv, WayInv, Send
<1>2. /\ more \in Seq(Msg) /\ Len(more) = n /\ \A k \in 1..n : more[k].id = l + k
      /\ NextCounter(chan.messageId, n) = l + n + 1
  <2> DEFINE m == Len(assigned)
  <2>1. m \in Nat /\ chan.messageId = m + 1 /\ m + ChunkCount(d) <= MaxMessages
    BY <1>1
  <2> HIDE DEF m
  <2>2. /\ Chunks(chan, d) \in Seq(Msg) /\ Len(Chunks(chan, d)) = ChunkCount(d)
        /\ \A k \in 1..ChunkCount(d) :
              Chunks(chan, d)[k] = [id |-> m + k, op |-> ChunkOp(k, ChunkCount(d)),
                                 data |-> SubSeq(d, (k - 1) * ChunkSize + 1, ChunkEnd(d, k))]
        /\ NextCounter(chan.messageId, ChunkCount(d)) = m + ChunkCount(d) + 1
    BY <2>1, ChunksFacts
  <2> QED
    BY <2>2 DEF m
<1>3. /\ assigned' = assigned \o more /\ chan' = ChannelSend(chan, d)
      /\ UNCHANGED <<httpBuf, wire>>
  BY DEF Send
<1>4. n \in Nat
  BY DataAssumption, ChunkCountFacts
<1> HIDE DEF more, n
<1>5. /\ assigned' \in Seq(Msg) /\ Len(assigned') = l + n
      /\ \A i \in 1..(l + n) : assigned'[i] = IF i <= l THEN assigned[i] ELSE more[i - l]
  BY <1>2, <1>3, ConcatProperties DEF AssignedInv
<1>6. AssignedInv'
  <2>1. ASSUME NEW i \in 1..(l + n)
        PROVE  assigned'[i].id = i
    <3>1. CASE i <= l
      BY <1>1, <1>5, <3>1 DEF AssignedInv
    <3>2. CASE i > l
      <4>1. i - l \in 1..n
        BY <1>1, <1>4, <3>2
      <4> QED
        BY <1>1, <1>2, <1>5, <3>2, <4>1
    <3> QED
      BY <1>1, <3>1, <3>2
  <2> QED
    BY <1>1, <1>5, <2>1 DEF AssignedInv
<1>7. Given \subseteq Given'
  BY <1>2, <1>3, GivenGrows
<1>8. more \in Seq(Given')
  <2>1. ASSUME NEW k \in 1..n
        PROVE  more[k] \in Given'
    <3>1. l + k \in 1..Len(assigned') /\ assigned'[l + k] = more[k]
      BY <1>1, <1>4, <1>5
    <3> QED
      BY <3>1 DEF Given
  <2> QED
    BY <1>2, <2>1, SeqOfOthers
<1>9. chan.outQueue \in Seq(Given') /\ httpBuf \in [Conns -> Seq(Given')]
      /\ wire \in [Conns -> Seq(Seq(Given'))]
  <2>1. Seq(Given) \subseteq Seq(Given')
    BY <1>7, SeqMonotonic
  <2>2. Seq(Seq(Given)) \subseteq Seq(Seq(Given'))
    BY <2>1, SeqMonotonic
  <2> QED
    BY <2>1, <2>2 DEF WayInv
<1>10. DOMAIN chan' = DOMAIN NewChannel /\ chan'.messageId = l + n + 1
       /\ chan'.outQueue = chan.outQueue \o more
  BY <1>2, <1>3 DEF WayInv, ChannelSend, NewChannel, more, n
<1>11. chan'.outQueue \in Seq(Given')
  BY <1>8, <1>9, <1>10, ConcatProperties
<1> QED
  BY <1>3, <1>5, <1>6, <1>9, <1>10, <1>11 DEF WayInv

\* What a transport does with the messages of a batch.
Handed(k, ms) ==
    /\ \/ wire' = [wire EXCEPT ![k] = @ \o Frames(ms)]
       \/ wire' = [wire EXCEPT ![k] = Append(@, ms)]
       \/ wire' = wire
    /\ httpBuf' = httpBuf \/ httpBuf' = [httpBuf EXCEPT ![k] = ms]

LEMMA SendFunKeeps ==
    ASSUME WayInv, ListInv, SendFun \/ SendFunFails
    PROVE  WayInv'
<1> USE DEF WayInv
<1>0. UNCHANGED assigned
  BY DEF SendFun, SendFunFails, sentVars
<1>1. Given' = Given
  BY <1>0 DEF Given
<1>2. CASE avail = <<>>
  BY <1>0, <1>1, <1>2 DEF SendFun, SendFunFails
<1>3. ASSUME avail # <<>>, NEW n \in 0..Len(chan.outQueue), chan' = Popped(chan, n),
             Handed(avail[1], SubSeq(chan.outQueue, 1, n))
      PROVE  WayInv'
  <2> DEFINE k == avail[1]
             ms == SubSeq(chan.outQueue, 1, n)
             q == SubSeq(chan.outQueue, n + 1, Len(chan.outQueue))
  <2>1. k \in Conns
    BY <1>3 DEF ListInv, Lists
  <2>2. ms \in Seq(Given) /\ q \in Seq(Given)
    BY SubSeqProperties
  <2>3. /\ DOMAIN chan' = DOMAIN NewChannel /\ chan'.messageId = chan.messageId
        /\ chan'.outQueue \in {q, chan.outQueue}
    BY <1>3 DEF Popped, NewChannel
  <2>4. Frames(ms) \in Seq(Seq(Given))
    <3>1. Frames(ms) = [i \in 1..Len(ms) |-> <<ms[i]>>]
      BY DEF Frames
    <3>2. \A i \in 1..Len(ms) : <<ms[i]>> \in Seq(Given)
      BY <2>2
    <3>3. Len(ms) \in Nat
      BY <2>2
    <3> HIDE DEF ms
    <3> QED
      BY <3>1, <3>2, <3>3
  <2> HIDE DEF ms, q, k
  <2>5. /\ \/ wire' = [wire EXCEPT ![k] = @ \o Frames(ms)]
           \/ wire' = [wire EXCEPT ![k] = Append(@, ms)]
           \/ wire' = wire
        /\ httpBuf' = httpBuf \/ httpBuf' = [httpBuf EXCEPT ![k] = ms]
    BY <1>3 DEF Handed, ms, k
  <2>6. httpBuf' \in [Conns -> Seq(Given)]
    BY <2>1, <2>2, <2>5
  <2>7. wire[k] \in Seq(Seq(Given))
    BY <2>1
  <2>8. wire[k] \o Frames(ms) \in Seq(Seq(Given))
    BY <2>4, <2>7, ConcatProperties
  <2>9. Append(wire[k], ms) \in Seq(Seq(Given))
    BY <2>2, <2>7
  <2>10. wire' \in [Conns -> Seq(Seq(Given))]
    BY <2>1, <2>5, <2>8, <2>9
  <2> QED
    BY <1>0, <1>1, <2>2, <2>3, <2>6, <2>10
<1>4. CASE SendFun
  BY <1>2, <1>3, <1>4 DEF SendFun, Transmit, Handed
<1>5. CASE SendFunFails
  <2>1. PICK n \in 0..(Len(chan.outQueue) - 1) :
            chan' = Popped(chan, n) /\ Handed(avail[1], SubSeq(chan.outQueue, 1, n))
    BY <1>5 DEF SendFunFails, Handed
  <2>2. n \in 0..Len(chan.outQueue)
    OBVIOUS
  <2> QED
    BY <1>2, <1>3, <2>1, <2>2
<1> QED
  BY <1>4, <1>5

\* That messages were sent changes only the window.
LEMMA MessagesSentKeeps ==
    ASSUME WayInv, NEW ms, chan' = MessagesSent(chan, ms)
    PROVE  /\ DOMAIN chan' = DOMAIN NewChannel /\ chan'.messageId = chan.messageId
           /\ chan'.outQueue = chan.outQueue
BY DEF WayInv, MessagesSent, NewChannel

\* The other steps change what is on its way on one connection at most.
LEMMA OneWireKeeps ==
    ASSUME WayInv, assigned' = assigned, NEW k \in Conns, NEW w \in Seq(Seq(Given)),
           wire' = [wire EXCEPT ![k] = w],
           httpBuf' = httpBuf \/ httpBuf' = [httpBuf EXCEPT ![k] = <<>>],
           chan' = chan \/ \E ms : chan' = MessagesSent(chan, ms)
    PROVE  WayInv'
<1>1. Given' = Given
  BY DEF Given
<1>2. wire' \in [Conns -> Seq(Seq(Given))]
  BY DEF WayInv
<1>3. httpBuf' \in [Conns -> Seq(Given)]
  <2>1. <<>> \in Seq(Given)
    OBVIOUS
  <2> QED
    BY <2>1 DEF WayInv
<1>4. /\ DOMAIN chan' = DOMAIN NewChannel /\ chan'.messageId = chan.messageId
      /\ chan'.outQueue = chan.outQueue
  BY MessagesSentKeeps DEF WayInv
<1> QED
  BY <1>1, <1>2, <1>3, <1>4 DEF WayInv

LEMMA SameWireKeeps ==
    ASSUME WayInv, UNCHANGED <<assigned, wire, httpBuf>>,
           chan' = chan \/ \E ms : chan' = MessagesSent(chan, ms)
    PROVE  WayInv'
<1>1. Given' = Given
  BY DEF Given
<1>2. /\ DOMAIN chan' = DOMAIN NewChannel /\ chan'.messageId = chan.messageId
      /\ chan'.outQueue = chan.outQueue
  BY MessagesSentKeeps DEF WayInv
<1> QED
  BY <1>1, <1>2 DEF WayInv

LEMMA ConnKeeps ==
    ASSUME WayInv, NEW k \in Conns,
           PostDone(k) \/ PostFails(k) \/ Disable(k) \/ Lose(k) \/ Deliver(k)
    PROVE  WayInv'
<1>0. wire[k] \in Seq(Seq(Given)) /\ httpBuf[k] \in Seq(Given) /\ assigned' = assigned
  BY DEF WayInv, PostDone, PostFails, Disable, Lose, Deliver, sentVars
<1>1. CASE PostDone(k) \/ PostFails(k)
  <2>1. PICK i \in DOMAIN wire[k] : wire' = [wire EXCEPT ![k] = RemoveAt(@, i)]
    BY <1>1 DEF PostDone, PostFails
  <2>2. RemoveAt(wire[k], i) \in Seq(Seq(Given))
    BY <1>0, <2>1, RemoveAtOfSeq
  <2>3. httpBuf' = [httpBuf EXCEPT ![k] = <<>>] /\ chan' = MessagesSent(chan, httpBuf[k])
    BY <1>1 DEF PostDone, PostFails
  <2> QED
    BY <1>0, <2>1, <2>2, <2>3, OneWireKeeps
<1>2. CASE Disable(k)
  <2>1. UNCHANGED <<httpBuf, chan>>
    BY <1>2 DEF Disable
  <2>2. wire' = wire \/ wire' = [wire EXCEPT ![k] = Append(@, httpBuf[k])]
    BY <1>2 DEF Disable
  <2>3. Append(wire[k], httpBuf[k]) \in Seq(Seq(Given))
    BY <1>0
  <2> QED
    BY <1>0, <2>1, <2>2, <2>3, OneWireKeeps, SameWireKeeps
<1>3. CASE Lose(k)
  <2>1. UNCHANGED <<httpBuf, chan>>
    BY <1>3 DEF Lose
  <2>2. PICK n \in 0..Len(wire[k]) : wire' = [wire EXCEPT ![k] = SubSeq(@, 1, n)]
    BY <1>3 DEF Lose
  <2>3. SubSeq(wire[k], 1, n) \in Seq(Seq(Given))
    <3>1. \A i \in 1..n : wire[k][i] \in Seq(Given)
      BY <1>0, <2>2
    <3> QED
      BY <2>2, <3>1, SubSeqProperties
  <2> QED
    BY <1>0, <2>1, <2>2, <2>3, OneWireKeeps
<1>4. CASE Deliver(k)
  <2>1. UNCHANGED <<httpBuf, chan>>
    BY <1>4 DEF Deliver, senderVars
  <2>2. PICK i \in DOMAIN wire[k] :
            /\ wire[k][i] # <<>>
            /\ \/ wire' = [wire EXCEPT ![k] = RemoveAt(@, i)]
               \/ wire' = [wire EXCEPT ![k] = [@ EXCEPT ![i] = Tail(wire[k][i])]]
    BY <1>4 DEF Deliver
  <2>3. RemoveAt(wire[k], i) \in Seq(Seq(Given))
    <3>1. i \in 1..Len(wire[k])
      BY <1>0, <2>2
    <3> QED
      BY <1>0, <3>1, RemoveAtOfSeq
  <2>4. [wire[k] EXCEPT ![i] = Tail(wire[k][i])] \in Seq(Seq(Given))
    <3>1. i \in 1..Len(wire[k]) /\ wire[k][i] \in Seq(Given)
      BY <1>0, <2>2
    <3>2. Tail(wire[k][i]) \in Seq(Given)
      BY <2>2, <3>1
    <3> QED
      BY <1>0, <3>1, <3>2, ExceptSeq
  <2> QED
    BY <1>0, <2>1, <2>2, <2>3, <2>4, OneWireKeeps
<1> QED
  BY <1>1, <1>2, <1>3, <1>4

(* Whatever is queued, being posted or on the wire is a message that was queued,
   with the id that its place in the queue gave it. *)
LEMMA StepWayInv ==
    ASSUME AssignedInv, WayInv, ListInv, [Next]_vars
    PROVE  AssignedInv' /\ WayInv'
<1>1. ASSUME NEW d \in Data, Send(d)
      PROVE  AssignedInv' /\ WayInv'
  BY <1>1, SendKeeps
<1>2. ASSUME assigned' = assigned
      PROVE  AssignedInv'
  BY <1>2 DEF AssignedInv
<1>3. CASE SendFun \/ SendFunFails
  BY <1>2, <1>3, SendFunKeeps DEF SendFun, SendFunFails, sentVars
<1>4. ASSUME NEW k \in Conns, PostDone(k) \/ PostFails(k) \/ Disable(k) \/ Lose(k) \/ Deliver(k)
      PROVE  AssignedInv' /\ WayInv'
  BY <1>2, <1>4, ConnKeeps DEF PostDone, PostFails, Disable, Lose, Deliver, sentVars
<1>5. ASSUME NEW k \in Conns, Opened(k) \/ FlushAcks(k) \/ AckArrives(k)
      PROVE  AssignedInv' /\ WayInv'
  <2>1. UNCHANGED <<assigned, wire, httpBuf>>
    BY <1>5 DEF Opened, FlushAcks, AckArrives, senderVars, sentVars
  <2>2. chan' = chan \/ \E ms : chan' = MessagesSent(chan, ms)
    BY <1>5 DEF Opened, FlushAcks, AckArrives, senderVars
  <2> QED
    BY <1>2, <2>1, <2>2, SameWireKeeps
<1>6. CASE UNCHANGED vars
  BY <1>2, <1>6, SameWireKeeps DEF vars, senderVars, sentVars
<1> QED
  BY <1>1, <1>3, <1>4, <1>5, <1>6 DEF Next, Progress

LinkInv == ListInv /\ AssignedInv /\ WayInv

LEMMA InitLinkInv == Init => LinkInv
<1> SUFFICES ASSUME Init PROVE LinkInv
  OBVIOUS
<1>2. ListInv
  BY InitListInv
<1>3. assigned = <<>> /\ assigned \in Seq(Msg) /\ Len(assigned) = 0
  BY DEF Init
<1>4. AssignedInv
  BY <1>3, LinkAssumption DEF AssignedInv
<1>5. WayInv
  <2>1. chan = NewChannel /\ httpBuf = [k \in Conns |-> <<>>] /\ wire = [k \in Conns |-> <<>>]
    BY DEF Init, PerConn
  <2>2. <<>> \in Seq(Given) /\ <<>> \in Seq(Seq(Given))
    OBVIOUS
  <2>3. httpBuf \in [Conns -> Seq(Given)] /\ wire \in [Conns -> Seq(Seq(Given))]
    BY <2>1, <2>2
  <2> QED
    BY <1>3, <2>1, <2>2, <2>3 DEF WayInv, NewChannel
<1> QED
  BY <1>2, <1>4, <1>5 DEF LinkInv

LEMMA StepLinkInv == LinkInv /\ [Next]_vars => LinkInv'
BY StepListInv, StepWayInv DEF LinkInv

LEMMA AlwaysLinkInv == Spec => []LinkInv
BY InitLinkInv, StepLinkInv, PTL DEF Spec

-----------------------------------------------------------------------------
(* The sending timer. *)

LEMMA StepTimer ==
    ASSUME LinkInv, NoForgottenTimer, [Next]_vars
    PROVE  NoForgottenTimer'
<1> USE DEF NoForgottenTimer
<1>0. Lists(avail, st) /\ avail \in Seq(Conns) /\ DOMAIN chan = DOMAIN NewChannel
  BY DEF LinkInv, ListInv, Lists, WayInv
<1>1. CASE sending' = TRUE
  BY <1>1
<1>2. ASSUME UNCHANGED <<avail, chan, sending>>
      PROVE  NoForgottenTimer'
  BY <1>2
<1>3. CASE SendFun
  <2>1. CASE avail = <<>>
    BY <1>3, <2>1 DEF SendFun
  <2>2. ASSUME NEW n \in 0..Len(chan.outQueue), Takes(chan, n), chan' = Popped(chan, n)
        PROVE  NoForgottenTimer'
    <3>1. chan.outQueue \in Seq(Given)
      BY DEF LinkInv, WayInv
    <3>2. ~Popped(chan, n).available \/ Popped(chan, n).outQueue = <<>>
      BY <1>0, <2>2, <3>1, TakesAll
    <3> QED
      BY <2>2, <3>2
  <2> QED
    BY <1>3, <2>1, <2>2 DEF SendFun
\* A list from which one has gone.
<1>4. ASSUME NEW k \in Conns, NEW v \in States, v # "AVAILABLE",
             avail' = Without(avail, k), avail' # <<>>
      PROVE  Len(avail) > (IF st[k] = "AVAILABLE" THEN 1 ELSE 0)
  <2> DEFINE a == Without(avail, k)
  <2>1. /\ Lists(Without(avail, k), [st EXCEPT ![k] = v])
        /\ Len(Without(avail, k)) = IF st[k] = "AVAILABLE" THEN Len(avail) - 1 ELSE Len(avail)
    BY <1>0, <1>4, ListWithout
  <2>2. a \in Seq(Conns) /\ a # <<>>
    BY <1>4, <2>1 DEF Lists
  <2>3. Len(a) \in Nat /\ Len(a) > 0
    <3> HIDE DEF a
    <3> QED
      BY <2>2
  <2>4. Len(avail) \in Nat
    BY <1>0
  <2> QED
    BY <2>1, <2>3, <2>4
<1>5. "ERROR" \in States /\ "ERROR" # "AVAILABLE" /\ "DISCONNECTING" \in States
      /\ "DISCONNECTING" # "AVAILABLE"
  BY DEF States
<1>6. CASE SendFunFails
  <2>1. /\ avail # <<>> /\ avail' = Without(avail, avail[1]) /\ sending' = (Len(avail) > 1)
    BY <1>6 DEF SendFunFails
  <2>2. avail[1] \in Conns /\ st[avail[1]] = "AVAILABLE"
    BY <1>0, <2>1 DEF Lists
  <2>3. avail' # <<>> => Len(avail) > 1
    BY <1>4, <1>5, <2>1, <2>2
  <2> QED
    BY <2>1, <2>3
<1>7. ASSUME NEW k \in Conns, Disable(k) \/ Lose(k)
      PROVE  NoForgottenTimer'
  <2>1. avail' = Without(avail, k) /\ chan' = chan /\ (sending => sending')
    BY <1>7 DEF Disable, Lose
  <2>2. avail' # <<>> => Len(avail) > 0
    BY <1>0, <1>4, <1>5, <2>1
  <2>3. Len(avail) > 0 => avail # <<>>
    OBVIOUS
  <2> QED
    BY <2>1, <2>2, <2>3
\* The window may have opened.
<1>8. ASSUME NEW ms, chan' = MessagesSent(chan, ms), avail' = avail,
             sending' = (sending \/ ms # <<>>)
      PROVE  NoForgottenTimer'
  <2>1. chan'.outQueue = chan.outQueue
    BY <1>0, <1>8 DEF MessagesSent, NewChannel
  <2>2. chan'.available => chan.available \/ ms # <<>>
    BY <1>0, <1>8 DEF MessagesSent, NewChannel
  <2> QED
    BY <1>8, <2>1, <2>2
<1>9. ASSUME NEW k \in Conns, PostDone(k) \/ PostFails(k)
      PROVE  NoForgottenTimer'
  <2>1. /\ chan' = MessagesSent(chan, httpBuf[k])
        /\ \/ sending' = TRUE
           \/ avail' = avail /\ sending' = (sending \/ httpBuf[k] # <<>>)
    BY <1>9 DEF PostDone, PostFails
  <2> QED
    BY <1>1, <1>8, <2>1
<1>10. ASSUME NEW k \in Conns, AckArrives(k)
       PROVE  NoForgottenTimer'
  BY <1>8, <1>10 DEF AckArrives
<1>11. ASSUME NEW k \in Conns, Deliver(k) \/ FlushAcks(k)
       PROVE  NoForgottenTimer'
  BY <1>2, <1>11 DEF Deliver, FlushAcks, senderVars
<1>12. ASSUME NEW k \in Conns, Opened(k)
       PROVE  NoForgottenTimer'
  BY <1>1, <1>12 DEF Opened
<1>13. ASSUME NEW d \in Data, Send(d)
       PROVE  NoForgottenTimer'
  BY <1>1, <1>13 DEF Send
<1>14. CASE UNCHANGED vars
  BY <1>2, <1>14 DEF vars, senderVars
<1> QED
  BY <1>3, <1>6, <1>7, <1>9, <1>10, <1>11, <1>12, <1>13, <1>14 DEF Next, Progress

(* Whenever a transport is available and the channel has a message that its
   window admits, the timer of kickSendingThread is set: no sequence of
   openings, failures, answers and acknowledgements leaves the queue waiting for
   the next send. *)
THEOREM TimerIsNeverForgotten == Spec => []NoForgottenTimer
<1>1. Init => NoForgottenTimer
  BY DEF Init, NoForgottenTimer
<1>2. LinkInv /\ NoForgottenTimer /\ [Next]_vars => NoForgottenTimer'
  BY StepTimer
<1> QED
  BY <1>1, <1>2, AlwaysLinkInv, PTL DEF Spec

-----------------------------------------------------------------------------
(* The receiver's buffer. *)

RecvInv ==
    /\ DOMAIN recv = {"inBuf", "fragment"}
    /\ Holds(recv.inBuf, assigned) /\ recv.inBuf.write = recv.inBuf.read

LEMMA AreNumbered == LinkInv => Numbered(assigned)
<1> SUFFICES ASSUME LinkInv PROVE Numbered(assigned)
  OBVIOUS
<1>1. /\ Len(assigned) \in Nat /\ Len(assigned) <= MaxMessages
      /\ \A i \in 1..Len(assigned) : assigned[i].id = i
  BY DEF LinkInv, AssignedInv
<1> QED
  BY <1>1, LinkAssumption, BufferAssumption DEF Numbered

\* A message that the receiver takes is put in, and what can be fetched is.
Received(m) ==
    LET p == Put(recv.inBuf, m)
        r == Reassemble(recv.fragment, Fetched(p))
    IN  /\ recv' = [inBuf |-> Drained(p), fragment |-> r.fragment]
        /\ delivered' = delivered \o r.out

LEMMA AcceptFacts ==
    ASSUME LinkInv, RecvInv, NEW m \in Given, Accept(m)
    PROVE  \/ UNCHANGED <<recv, delivered>>
           \/ Accepts(recv.inBuf, assigned, m) /\ Received(m)
<1>1. m.id \in 1..Len(assigned) /\ m = assigned[m.id]
  BY DEF LinkInv, AssignedInv, Given
<1>2. ASSUME ~IsDuplicate(recv.inBuf, m.id)
      PROVE  Accepts(recv.inBuf, assigned, m) /\ ~IsCorrupt(Put(recv.inBuf, m))
  <2>1. Accepts(recv.inBuf, assigned, m)
    BY <1>1, <1>2, AreNumbered DEF Accepts, RecvInv
  <2> DEFINE b == recv.inBuf
  <2>2. Accepts(b, assigned, m)
    BY <2>1
  <2> HIDE DEF b
  <2>3. ~IsCorrupt(Put(b, m))
    BY <2>2, PutIsReadable
  <2> QED
    BY <2>1, <2>3 DEF b
<1>3. CASE IsRefused(recv.inBuf, m.id) \/ IsDuplicate(recv.inBuf, m.id)
  BY <1>3 DEF Accept, recvVars
<1>4. CASE ~IsRefused(recv.inBuf, m.id) /\ ~IsDuplicate(recv.inBuf, m.id)
  BY <1>2, <1>4 DEF Accept, Received
<1> QED
  BY <1>3, <1>4

LEMMA DeliverFacts ==
    ASSUME LinkInv, RecvInv, NEW k \in Conns, Deliver(k)
    PROVE  \/ UNCHANGED <<recv, delivered>>
           \/ \E m : Accepts(recv.inBuf, assigned, m) /\ Received(m)
<1>1. PICK i \in DOMAIN wire[k] : wire[k][i] # <<>> /\ Accept(Head(wire[k][i]))
  BY DEF Deliver
<1>2. wire[k] \in Seq(Seq(Given))
  BY DEF LinkInv, WayInv
<1>3. wire[k][i] \in Seq(Given)
  BY <1>1, <1>2
<1>4. Head(wire[k][i]) \in Given
  BY <1>1, <1>3
<1> QED
  BY <1>1, <1>4, AcceptFacts

\* What every step is, for the receiver: more is queued, or a message is taken,
\* or nothing changes.
LEMMA ReceiverSteps ==
    ASSUME LinkInv, RecvInv, [Next]_vars
    PROVE  \/ \E d \in Data : Send(d) /\ UNCHANGED <<recv, delivered>>
           \/ UNCHANGED <<sent, assigned, recv, delivered>>
           \/ /\ UNCHANGED <<sent, assigned>>
              /\ \E m : Accepts(recv.inBuf, assigned, m) /\ Received(m)
<1>1. ASSUME NEW d \in Data, Send(d)
      PROVE  UNCHANGED <<recv, delivered>>
  BY <1>1 DEF Send, recvVars
<1>2. ASSUME NEW k \in Conns, Deliver(k)
      PROVE  \/ UNCHANGED <<sent, assigned, recv, delivered>>
             \/ /\ UNCHANGED <<sent, assigned>>
                /\ \E m : Accepts(recv.inBuf, assigned, m) /\ Received(m)
  <2>1. UNCHANGED <<sent, assigned>>
    BY <1>2 DEF Deliver, sentVars
  <2> QED
    BY <1>2, <2>1, DeliverFacts
<1>3. ASSUME NEW k \in Conns,
             \/ PostDone(k) \/ PostFails(k) \/ Disable(k) \/ Lose(k)
             \/ Opened(k) \/ FlushAcks(k) \/ AckArrives(k)
      PROVE  UNCHANGED <<sent, assigned, recv, delivered>>
  BY <1>3 DEF PostDone, PostFails, Disable, Lose, Opened, FlushAcks, AckArrives, sentVars, recvVars
<1>4. CASE SendFun \/ SendFunFails \/ UNCHANGED vars
  BY <1>4 DEF SendFun, SendFunFails, vars, sentVars, recvVars
<1> QED
  BY <1>1, <1>2, <1>3, <1>4 DEF Next, Progress

\* More in the queue does not change what a buffer holds.
LEMMA HoldsMore ==
    ASSUME NEW a, NEW c, NEW b, Holds(b, a), Len(a) \in Nat, Len(c) \in Nat, Len(a) <= Len(c),
           \A i \in 1..Len(a) : c[i] = a[i]
    PROVE  Holds(b, c)
<1>1. 1..Len(a) \subseteq 1..Len(c) /\ 1..(Len(a) + 1) \subseteq 1..(Len(c) + 1)
  OBVIOUS
<1> QED
  BY <1>1 DEF Holds

LEMMA InitRecvInv == Init => RecvInv
<1> SUFFICES ASSUME Init PROVE RecvInv
  OBVIOUS
<1>1. recv = NewReceiver /\ assigned = <<>>
  BY DEF Init
<1>2. recv.inBuf = EmptyBuffer /\ DOMAIN recv = {"inBuf", "fragment"}
  BY <1>1 DEF NewReceiver
<1>3. Holds(EmptyBuffer, assigned) /\ EmptyBuffer.write = EmptyBuffer.read
  BY <1>1, BufferAssumption DEF Holds, EmptyBuffer
<1> QED
  BY <1>2, <1>3 DEF RecvInv

LEMMA StepRecvInv ==
    ASSUME LinkInv, RecvInv, [Next]_vars
    PROVE  RecvInv'
<1>1. ASSUME NEW d \in Data, Send(d), UNCHANGED recv
      PROVE  RecvInv'
  <2>1. AssignedInv'
    BY StepLinkInv DEF LinkInv
  <2>2. Len(assigned) \in Nat /\ Len(assigned') \in Nat
    BY <2>1 DEF LinkInv, AssignedInv
  <2>3. Len(assigned) <= Len(assigned') /\ \A i \in 1..Len(assigned) : assigned'[i] = assigned[i]
    <3>1. /\ assigned' = assigned \o Chunks(chan, d)
          /\ chan.messageId = Len(assigned) + 1 /\ Len(assigned) + ChunkCount(d) <= MaxMessages
      BY <1>1 DEF Send, LinkInv, WayInv
    <3> DEFINE l == Len(assigned)
    <3>2. l \in Nat /\ chan.messageId = l + 1 /\ l + ChunkCount(d) <= MaxMessages
      BY <2>2, <3>1
    <3> HIDE DEF l
    <3>3. Chunks(chan, d) \in Seq(Msg)
      BY <3>2, ChunksFacts
    <3>4. assigned \in Seq(Msg)
      BY DEF LinkInv, AssignedInv
    <3>5. Len(Chunks(chan, d)) \in Nat
      BY <3>3
    <3> QED
      BY <2>2, <3>1, <3>3, <3>4, <3>5, ConcatProperties
  <2> DEFINE c == assigned'
  <2> HIDE DEF c
  <2>4. Holds(recv.inBuf, c)
    BY <2>2, <2>3, HoldsMore DEF RecvInv, c
  <2> QED
    BY <1>1, <2>4 DEF RecvInv, c
<1>2. ASSUME UNCHANGED <<assigned, recv>>
      PROVE  RecvInv'
  BY <1>2 DEF RecvInv
<1>3. ASSUME assigned' = assigned, NEW m, Accepts(recv.inBuf, assigned, m), Received(m)
      PROVE  RecvInv'
  <2> DEFINE b == recv.inBuf
             q == Drained(Put(b, m))
  <2>1. Accepts(b, assigned, m)
    BY <1>3
  <2>2. recv'.inBuf = q /\ DOMAIN recv' = {"inBuf", "fragment"}
    BY <1>3 DEF Received
  <2> HIDE DEF b
  <2>3. Holds(q, assigned) /\ q.write = q.read
    BY <2>1, FetchedInOrder
  <2> HIDE DEF q
  <2> QED
    BY <1>3, <2>2, <2>3 DEF RecvInv
<1> QED
  BY <1>1, <1>2, <1>3, ReceiverSteps

(* Whatever is lost, repeated or overtaken on the way, the reordering buffer
   never holds a message that was fetched, and each slot has the message whose
   place it is: so none is skipped or given twice. *)
THEOREM BufferIsAhead == Spec => []BufferHoldsFuture
<1>1. LinkInv /\ RecvInv /\ [Next]_vars => RecvInv'
  BY StepRecvInv
<1>2. RecvInv => BufferHoldsFuture
  BY DEF RecvInv, Holds, BufferHoldsFuture
<1> QED
  BY <1>1, <1>2, InitRecvInv, AlwaysLinkInv, PTL DEF Spec

-----------------------------------------------------------------------------
(* Fragments. *)

\* Pieces of a sequence that follow each other make a piece.
LEMMA PiecesJoin ==
    ASSUME NEW S, NEW d \in Seq(S), NEW m \in Nat, NEW n \in Nat, m <= n, n <= Len(d)
    PROVE  SubSeq(d, 1, m) \o SubSeq(d, m + 1, n) = SubSeq(d, 1, n)
<1> DEFINE a == SubSeq(d, 1, m)
           b == SubSeq(d, m + 1, n)
           c == SubSeq(d, 1, n)
<1>1. a \in Seq(S) /\ Len(a) = m /\ \A i \in 1..m : a[i] = d[i]
  BY SubSeqProperties
<1>2. b \in Seq(S) /\ Len(b) = n - m /\ \A i \in 1..(n - m) : b[i] = d[m + i]
  <2>1. /\ b \in Seq(S)
        /\ Len(b) = IF m + 1 <= n THEN n - (m + 1) + 1 ELSE 0
        /\ \A i \in 1..(n - (m + 1) + 1) : b[i] = d[m + 1 + i - 1]
    BY SubSeqProperties
  <2> HIDE DEF b
  <2> QED
    BY <2>1
<1>3. c \in Seq(S) /\ Len(c) = n /\ \A i \in 1..n : c[i] = d[i]
  BY SubSeqProperties
<1> HIDE DEF a, b, c
<1>4. /\ a \o b \in Seq(S) /\ Len(a \o b) = Len(a) + Len(b)
      /\ \A i \in 1..(Len(a) + Len(b)) :
            (a \o b)[i] = IF i <= Len(a) THEN a[i] ELSE b[i - Len(a)]
  BY <1>1, <1>2, ConcatProperties, ZenonT(30)
<1>5. Len(a \o b) = n /\ \A i \in 1..n : (a \o b)[i] = IF i <= m THEN a[i] ELSE b[i - m]
  BY <1>1, <1>2, <1>4, SMTT(20)
<1>6. ASSUME NEW i \in 1..n
      PROVE  (a \o b)[i] = c[i]
  <2>1. CASE i <= m
    BY <1>1, <1>3, <1>5, <2>1
  <2>2. CASE i > m
    <3>1. i - m \in 1..(n - m)
      BY <2>2
    <3>2. b[i - m] = d[m + (i - m)]
      BY <1>2, <3>1
    <3> QED
      BY <1>3, <1>5, <2>2, <3>2
  <2>3. i <= m \/ i > m
    OBVIOUS
  <2> QED
    BY <2>1, <2>2, <2>3, Zenon
<1>7. a \o b = c
  <2> DEFINE ab == a \o b
  <2>1. ab \in Seq(S) /\ Len(ab) = n /\ \A i \in 1..n : ab[i] = c[i]
    BY <1>4, <1>5, <1>6
  <2> HIDE DEF ab
  <2>2. ab = c
    BY <1>3, <2>1, SeqEqual
  <2> QED
    BY <2>2 DEF ab
<1> QED
  BY <1>7 DEF a, b, c

LEMMA WholePiece ==
    ASSUME NEW S, NEW d \in Seq(S)
    PROVE  SubSeq(d, 1, Len(d)) = d
<1> DEFINE c == SubSeq(d, 1, Len(d))
<1>1. c \in Seq(S) /\ Len(c) = Len(d) /\ \A i \in 1..Len(d) : c[i] = d[i]
  BY SubSeqProperties
<1> HIDE DEF c
<1>2. c = d
  BY <1>1, SeqEqual
<1> QED
  BY <1>2 DEF c

\* The chunks of the i-th of the data sent are in the queue, from its start on.
PartAt(start, i) ==
    /\ start[i + 1] = start[i] + ChunkCount(sent[i])
    /\ \A k \in 1..ChunkCount(sent[i]) :
          /\ assigned[start[i] + k - 1].op = ChunkOp(k, ChunkCount(sent[i]))
          /\ assigned[start[i] + k - 1].data =
                SubSeq(sent[i], (k - 1) * ChunkSize + 1, ChunkEnd(sent[i], k))

\* start has the place in the queue at which each of the data sent begins.
CutAt(start) ==
    /\ sent \in Seq(Seq(0..255))
    /\ start \in [1..(Len(sent) + 1) -> Nat]
    /\ start[1] = 1 /\ start[Len(sent) + 1] = Len(assigned) + 1
    /\ \A i \in 1..Len(sent) : PartAt(start, i)

Fragments == [begun : BOOLEAN, data : Seq(0..255)]

\* s is what the receiver has made of the messages before r, after the first base
\* data had been delivered: the next of the data sent, and of the one after them
\* as much as has been read.
Behind(start, base, s, r) ==
    LET D == base + Len(s.out)
    IN  /\ s \in [fragment : Fragments, out : Seq(Seq(0..255))]
        /\ D <= Len(sent)
        /\ \A i \in 1..Len(s.out) : s.out[i] = sent[base + i]
        /\ IF s.fragment.begun
           THEN /\ D < Len(sent) /\ start[D + 1] < r /\ r < start[D + 2]
                /\ s.fragment.data = SubSeq(sent[D + 1], 1, (r - start[D + 1]) * ChunkSize)
           ELSE s.fragment = NoFragment /\ r = start[D + 1]

\* What the k-th of n chunks is.
LEMMA ChunkFacts ==
    ASSUME NEW d \in Seq(0..255), NEW k \in 1..ChunkCount(d)
    PROVE  /\ k = 1 /\ ChunkCount(d) = 1 =>
                 /\ ChunkOp(k, ChunkCount(d)) = "MESSAGE"
                 /\ SubSeq(d, (k - 1) * ChunkSize + 1, ChunkEnd(d, k)) = d
           /\ k = 1 /\ ChunkCount(d) > 1 =>
                 /\ ChunkOp(k, ChunkCount(d)) = "FRAGMENT_START"
                 /\ SubSeq(d, (k - 1) * ChunkSize + 1, ChunkEnd(d, k))
                       = SubSeq(d, 1, k * ChunkSize)
           /\ k > 1 /\ k < ChunkCount(d) =>
                 /\ ChunkOp(k, ChunkCount(d)) = "MESSAGE"
                 /\ SubSeq(d, 1, (k - 1) * ChunkSize)
                       \o SubSeq(d, (k - 1) * ChunkSize + 1, ChunkEnd(d, k))
                       = SubSeq(d, 1, k * ChunkSize)
           /\ k > 1 /\ k = ChunkCount(d) =>
                 /\ ChunkOp(k, ChunkCount(d)) = "FRAGMENT_END"
                 /\ SubSeq(d, 1, (k - 1) * ChunkSize)
                       \o SubSeq(d, (k - 1) * ChunkSize + 1, ChunkEnd(d, k)) = d
<1> DEFINE n == ChunkCount(d)
           c == ChunkSize
           l == Len(d)
           e == ChunkEnd(d, k)
<1>1. /\ n \in Nat \ {0} /\ c \in Nat \ {0} /\ l \in Nat /\ k \in 1..n
      /\ n = 1 => l <= c
      /\ n > 1 => (n - 1) * c < l /\ l <= n * c
  BY ChunkCountFacts, ChannelAssumption
<1>2. e = IF k * c <= l THEN k * c ELSE l
  BY DEF ChunkEnd
<1>3. ChunkOp(k, n) = IF n = 1 THEN "MESSAGE" ELSE IF k = 1 THEN "FRAGMENT_START"
                      ELSE IF k = n THEN "FRAGMENT_END" ELSE "MESSAGE"
  BY <1>1 DEF ChunkOp
<1> HIDE DEF n, c, l, e
<1>4. (k - 1) * c = k * c - c /\ (n - 1) * c = n * c - c /\ k * c \in Nat /\ n * c \in Nat
  BY <1>1
<1>5. k < n => k * c < l
  <2>1. SUFFICES ASSUME k < n PROVE k * c <= (n - 1) * c
    BY <1>1, <1>4
  <2>2. (n - 1 - k) * c \in Nat
    BY <1>1, <2>1
  <2>3. (n - 1 - k) * c = (n - 1) * c - k * c
    BY <1>1
  <2> QED
    BY <1>1, <1>4, <2>2, <2>3
<1>6. k < n => e = k * c
  BY <1>2, <1>4, <1>5
<1>7. k = n => e = l
  <2>1. CASE n = 1
    BY <1>1, <1>2, <1>4, <2>1
  <2>2. CASE n > 1
    BY <1>1, <1>2, <1>4, <2>2
  <2> QED
    BY <1>1, <2>1, <2>2
<1>8. k > 1 => (k - 1) * c \in Nat /\ (k - 1) * c <= e /\ e <= l
  <2>1. SUFFICES ASSUME k > 1 PROVE (k - 1) * c \in Nat /\ (k - 1) * c <= e /\ e <= l
    OBVIOUS
  <2>2. CASE k < n
    BY <1>1, <1>4, <1>5, <1>6, <2>2
  <2>3. CASE k = n
    BY <1>1, <1>4, <1>7, <2>1, <2>3
  <2> QED
    BY <1>1, <2>2, <2>3
<1>9. k > 1 => SubSeq(d, 1, (k - 1) * c) \o SubSeq(d, (k - 1) * c + 1, e) = SubSeq(d, 1, e)
  <2>1. SUFFICES ASSUME k > 1
                 PROVE SubSeq(d, 1, (k - 1) * c) \o SubSeq(d, (k - 1) * c + 1, e) = SubSeq(d, 1, e)
    OBVIOUS
  <2> DEFINE m == (k - 1) * c
  <2>2. m \in Nat /\ m <= e /\ e <= l /\ e \in Nat
    BY <1>1, <1>2, <1>4, <1>8, <2>1
  <2> HIDE DEF m
  <2>3. SubSeq(d, 1, m) \o SubSeq(d, m + 1, e) = SubSeq(d, 1, e)
    BY <2>2, PiecesJoin DEF l
  <2> QED
    BY <2>3 DEF m
<1>10. SubSeq(d, 1, l) = d
  BY WholePiece DEF l
<1> DEFINE piece == SubSeq(d, (k - 1) * c + 1, e)
<1>11. k = 1 => piece = SubSeq(d, 1, e)
  <2>1. k = 1 => (k - 1) * c + 1 = 1
    BY <1>1
  <2> QED
    BY <2>1, Zenon
<1>12. k > 1 => SubSeq(d, 1, (k - 1) * c) \o piece = SubSeq(d, 1, e)
  BY <1>9
<1> HIDE DEF piece
<1>13. k = 1 /\ n = 1 => ChunkOp(k, n) = "MESSAGE" /\ piece = d
  BY <1>3, <1>7, <1>10, <1>11
<1>14. k = 1 /\ n > 1 => ChunkOp(k, n) = "FRAGMENT_START" /\ piece = SubSeq(d, 1, k * c)
  BY <1>1, <1>3, <1>6, <1>11
<1>15. k > 1 /\ k < n => /\ ChunkOp(k, n) = "MESSAGE"
                        /\ SubSeq(d, 1, (k - 1) * c) \o piece = SubSeq(d, 1, k * c)
  BY <1>1, <1>3, <1>6, <1>12
<1>16. k > 1 /\ k = n => /\ ChunkOp(k, n) = "FRAGMENT_END"
                        /\ SubSeq(d, 1, (k - 1) * c) \o piece = d
  BY <1>1, <1>3, <1>7, <1>10, <1>12
<1> QED
  BY <1>13, <1>14, <1>15, <1>16 DEF n, c, e, piece

\* The next message: the next of the data is whole, or begins, or goes on.
LEMMA OneMessage ==
    ASSUME NEW start, CutAt(start), assigned \in Seq(Msg), NEW base \in Nat,
           NEW r \in 1..Len(assigned), NEW s, Behind(start, base, s, r)
    PROVE  Behind(start, base, Taken(s, assigned[r]), r + 1)
<1> DEFINE D == base + Len(s.out)
           m == assigned[r]
           d == sent[D + 1]
           n == ChunkCount(d)
           k == r - start[D + 1] + 1
           t == Taken(s, m)
<1>0. SUFFICES Behind(start, base, t, r + 1)
  OBVIOUS
<1>1. /\ s \in [fragment : Fragments, out : Seq(Seq(0..255))] /\ D \in Nat /\ D <= Len(sent)
      /\ \A i \in 1..Len(s.out) : s.out[i] = sent[base + i]
  BY DEF Behind
<1>2. /\ IF s.fragment.begun
         THEN /\ D < Len(sent) /\ start[D + 1] < r /\ r < start[D + 2]
              /\ s.fragment.data = SubSeq(d, 1, (r - start[D + 1]) * ChunkSize)
         ELSE s.fragment = NoFragment /\ r = start[D + 1]
  BY DEF Behind
<1>3. /\ sent \in Seq(Seq(0..255)) /\ Len(sent) \in Nat /\ Len(assigned) \in Nat
      /\ start \in [1..(Len(sent) + 1) -> Nat] /\ start[Len(sent) + 1] = Len(assigned) + 1
  BY DEF CutAt
<1>4. D < Len(sent)
  <2>1. D = Len(sent) /\ ~s.fragment.begun => r = Len(assigned) + 1
    BY <1>2, <1>3
  <2> QED
    BY <1>1, <1>2, <1>3, <2>1
<1>5. D + 1 \in 1..Len(sent) /\ d \in Seq(0..255)
  <2>1. D + 1 \in 1..Len(sent)
    BY <1>1, <1>3, <1>4
  <2> QED
    BY <1>3, <2>1
<1>6. /\ start[D + 1] \in Nat /\ start[D + 2] \in Nat /\ start[D + 2] = start[D + 1] + n
      /\ \A j \in 1..n : /\ assigned[start[D + 1] + j - 1].op = ChunkOp(j, n)
                        /\ assigned[start[D + 1] + j - 1].data =
                              SubSeq(d, (j - 1) * ChunkSize + 1, ChunkEnd(d, j))
  <2>1. D + 1 \in 1..(Len(sent) + 1) /\ D + 2 \in 1..(Len(sent) + 1) /\ (D + 1) + 1 = D + 2
    BY <1>3, <1>5
  <2> DEFINE e == D + 1
  <2>2. e \in 1..Len(sent) /\ e + 1 = D + 2
    BY <1>5, <2>1
  <2> HIDE DEF e
  <2>3. /\ start[e + 1] = start[e] + ChunkCount(sent[e])
        /\ \A j \in 1..ChunkCount(sent[e]) :
              /\ assigned[start[e] + j - 1].op = ChunkOp(j, ChunkCount(sent[e]))
              /\ assigned[start[e] + j - 1].data =
                      SubSeq(sent[e], (j - 1) * ChunkSize + 1, ChunkEnd(sent[e], j))
    BY <2>2 DEF CutAt, PartAt
  <2>4. start[e] \in Nat /\ start[e + 1] \in Nat
    BY <1>3, <2>1, <2>2 DEF e
  <2> QED
    BY <2>2, <2>3, <2>4 DEF e
<1>7. n \in Nat \ {0}
  BY <1>5, ChunkCountFacts
<1> DEFINE first == start[D + 1]
           next == start[D + 2]
           piece == SubSeq(d, (k - 1) * ChunkSize + 1, ChunkEnd(d, k))
<1>20. /\ IF s.fragment.begun THEN first < r /\ r < next ELSE r = first
       /\ first \in Nat /\ next \in Nat /\ next = first + n /\ k = r - first + 1 /\ r \in Nat
  BY <1>2, <1>6
<1> HIDE DEF first, next, n, k
<1>8. /\ k \in 1..n /\ r = first + k - 1 /\ k - 1 = r - first
      /\ s.fragment.begun <=> k > 1
  <2>1. r = first + k - 1 /\ k - 1 = r - first
    BY <1>20
  <2>2. CASE s.fragment.begun
    <3>1. k \in 1..n /\ k > 1
      BY <1>7, <1>20, <2>2
    <3> QED
      BY <2>1, <2>2, <3>1, Zenon
  <2>3. CASE ~s.fragment.begun
    <3>1. k \in 1..n /\ ~(k > 1)
      BY <1>7, <1>20, <2>3
    <3> QED
      BY <2>1, <2>3, <3>1, Zenon
  <2> QED
    BY <2>2, <2>3, Zenon
<1>9. m.op = ChunkOp(k, n) /\ m.data = piece
  BY <1>6, <1>8 DEF first, n
<1>10. m.data \in Seq(0..255)
  <2>1. m \in Msg
    OBVIOUS
  <2> HIDE DEF m
  <2> QED
    BY <2>1 DEF Msg
<1>11. s.fragment.begun \in BOOLEAN /\ s.fragment.data \in Seq(0..255) /\ s.out \in Seq(Seq(0..255))
       /\ s = [fragment |-> s.fragment, out |-> s.out]
       /\ s.fragment = [begun |-> s.fragment.begun, data |-> s.fragment.data]
  BY <1>1 DEF Fragments
<1>12. k > 1 => s.fragment.data = SubSeq(d, 1, (k - 1) * ChunkSize)
  BY <1>2, <1>8 DEF first
<1> HIDE DEF m, d
<1>21. /\ k = 1 /\ n = 1 => ChunkOp(k, n) = "MESSAGE" /\ piece = d
       /\ k = 1 /\ n > 1 => ChunkOp(k, n) = "FRAGMENT_START" /\ piece = SubSeq(d, 1, k * ChunkSize)
       /\ k > 1 /\ k < n => /\ ChunkOp(k, n) = "MESSAGE"
                            /\ SubSeq(d, 1, (k - 1) * ChunkSize) \o piece = SubSeq(d, 1, k * ChunkSize)
       /\ k > 1 /\ k = n => /\ ChunkOp(k, n) = "FRAGMENT_END"
                            /\ SubSeq(d, 1, (k - 1) * ChunkSize) \o piece = d
  BY <1>5, <1>8, ChunkFacts DEF n
<1> HIDE DEF piece
\* The data is complete.
<1>13. ASSUME t = [fragment |-> NoFragment, out |-> Append(s.out, d)], k = n
       PROVE  Behind(start, base, t, r + 1)
  <2> DEFINE o == Append(s.out, d)
  <2>1. /\ o \in Seq(Seq(0..255)) /\ Len(o) = Len(s.out) + 1
        /\ \A i \in 1..Len(s.out) : o[i] = s.out[i]
        /\ o[Len(s.out) + 1] = d /\ Len(s.out) \in Nat
    BY <1>5, <1>11
  <2>2. NoFragment \in Fragments /\ ~NoFragment.begun
    BY DEF NoFragment, Fragments
  <2> HIDE DEF o, t
  <2>3. t.fragment = NoFragment /\ t.out = o /\ t \in [fragment : Fragments, out : Seq(Seq(0..255))]
    BY <1>13, <2>1, <2>2 DEF o
  <2>4. base + Len(t.out) = D + 1 /\ D + 1 <= Len(sent)
    <3>1. Len(t.out) = Len(s.out) + 1 /\ Len(s.out) \in Nat
      BY <2>1, <2>3
    <3> QED
      BY <1>1, <1>3, <1>4, <3>1
  <2>5. \A i \in 1..Len(t.out) : t.out[i] = sent[base + i]
    <3>1. \A i \in 1..Len(s.out) : o[i] = sent[base + i]
      BY <1>1, <2>1
    <3>2. o[Len(s.out) + 1] = sent[base + (Len(s.out) + 1)]
      <4>1. D + 1 = base + (Len(s.out) + 1)
        BY <1>1, <1>11
      <4> QED
        BY <2>1, <4>1 DEF d
    <3>3. Len(s.out) \in Nat
      BY <1>11
    <3> DEFINE l == Len(s.out)
    <3>4. \A i \in 1..(l + 1) : i \in 1..l \/ i = l + 1
      BY <3>3
    <3> HIDE DEF l
    <3>5. \A i \in 1..(l + 1) : o[i] = sent[base + i]
      BY <3>1, <3>2, <3>4, Zenon DEF l
    <3> QED
      BY <2>1, <2>3, <3>5 DEF l
  <2>6. r + 1 = start[(D + 1) + 1]
    <3>1. (D + 1) + 1 = D + 2
      BY <1>1
    <3>2. r + 1 = next
      BY <1>7, <1>8, <1>13, <1>20
    <3> QED
      BY <3>1, <3>2 DEF next
  <2> DEFINE E == base + Len(t.out)
  <2>7. E <= Len(sent) /\ r + 1 = start[E + 1]
    BY <2>4, <2>6
  <2> HIDE DEF D
  <2> QED
    BY <2>2, <2>3, <2>5, <2>7 DEF Behind
\* There is more to come of it.
<1>14. ASSUME t = [s EXCEPT !.fragment = [begun |-> TRUE, data |-> SubSeq(d, 1, k * ChunkSize)]],
              k < n
       PROVE  Behind(start, base, t, r + 1)
  <2> DEFINE f == [begun |-> TRUE, data |-> SubSeq(d, 1, k * ChunkSize)]
  <2>1. SubSeq(d, 1, k * ChunkSize) \in Seq(0..255)
    <3>1. m.data \in Seq(0..255) /\ s.fragment.data \in Seq(0..255)
      BY <1>10, <1>11
    <3>2. n > 1 /\ k \in 1..n
      BY <1>7, <1>8, <1>14
    <3>3. k = 1 => SubSeq(d, 1, k * ChunkSize) = m.data
      BY <1>9, <1>21, <3>2
    <3>4. k > 1 => SubSeq(d, 1, k * ChunkSize) = s.fragment.data \o m.data
      BY <1>9, <1>12, <1>14, <1>21
    <3>5. s.fragment.data \o m.data \in Seq(0..255)
      BY <3>1, ConcatProperties
    <3>6. k = 1 \/ k > 1
      BY <3>2
    <3> QED
      BY <3>1, <3>3, <3>4, <3>5, <3>6, Zenon
  <2>2. f \in Fragments /\ f.begun
    BY <2>1 DEF Fragments
  <2>3. t.fragment = f /\ t.out = s.out /\ t \in [fragment : Fragments, out : Seq(Seq(0..255))]
    BY <1>11, <1>14, <2>2, ZenonT(30)
  <2>4. first < r + 1 /\ r + 1 < next /\ (r + 1) - first = k
    BY <1>7, <1>8, <1>14, <1>20
  <2>5. t.fragment.data = SubSeq(d, 1, ((r + 1) - first) * ChunkSize)
    <3>1. f.data = SubSeq(d, 1, k * ChunkSize)
      OBVIOUS
    <3> QED
      BY <2>3, <2>4, <3>1, Zenon
  <2> HIDE DEF f, t
  <2> QED
    BY <1>1, <1>4, <2>2, <2>3, <2>4, <2>5 DEF Behind, d, first, next
<1>16. CASE k = 1 /\ n = 1
  <2>1. m.op = "MESSAGE" /\ m.data = d
    BY <1>9, <1>21, <1>16
  <2>2. t = [s EXCEPT !.out = Append(s.out, d)]
    BY <1>8, <1>16, <2>1 DEF Taken
  <2>3. s.fragment = NoFragment
    BY <1>2, <1>8, <1>16
  <2>4. t = [fragment |-> NoFragment, out |-> Append(s.out, d)]
    BY <1>11, <2>2, <2>3
  <2> QED
    BY <1>13, <1>16, <2>4
<1>17. CASE k = 1 /\ n > 1
  <2>1. m.op = "FRAGMENT_START" /\ m.data = SubSeq(d, 1, k * ChunkSize)
    BY <1>9, <1>21, <1>17
  <2>2. t = [s EXCEPT !.fragment = [begun |-> TRUE, data |-> m.data]]
    BY <1>8, <1>17, <2>1 DEF Taken
  <2> QED
    BY <1>14, <1>17, <2>1, <2>2
<1>18. CASE k > 1 /\ k < n
  <2>1. m.op = "MESSAGE" /\ s.fragment.data \o m.data = SubSeq(d, 1, k * ChunkSize)
    BY <1>9, <1>12, <1>21, <1>18
  <2>2. t = [s EXCEPT !.fragment = [begun |-> TRUE, data |-> s.fragment.data \o m.data]]
    BY <1>8, <1>18, <2>1 DEF Taken
  <2> QED
    BY <1>14, <1>18, <2>1, <2>2
<1>19. CASE k > 1 /\ k = n
  <2>1. m.op = "FRAGMENT_END" /\ s.fragment.data \o m.data = d
    BY <1>9, <1>12, <1>21, <1>19
  <2>2. t = [fragment |-> NoFragment, out |-> Append(s.out, d)]
    BY <1>8, <1>19, <2>1 DEF Taken
  <2> QED
    BY <1>13, <1>19, <2>2
<1> QED
  <2>1. (k = 1 /\ n = 1) \/ (k = 1 /\ n > 1) \/ (k > 1 /\ k < n) \/ (k > 1 /\ k = n)
    BY <1>7, <1>8
  <2> QED
    BY <1>16, <1>17, <1>18, <1>19, <2>1

\* The states of a fragment while the messages of d are handed on, one by one.
Runs(f, s, d, n) == f = [i \in 0..n |-> IF i = 0 THEN s ELSE Taken(f[i - 1], d[i])]

LEMMA RunExists ==
    ASSUME NEW s, NEW d, NEW n \in Nat
    PROVE  \E f : Runs(f, s, d, n)
<1> DEFINE S == {i \in Nat : ~ \E f : Runs(f, s, d, i)}
<1>1. CASE S = {}
  BY <1>1
<1>2. CASE S # {}
  <2>1. PICK i \in S : \A j \in S : i <= j
    <3>1. S \in SUBSET Nat
      OBVIOUS
    <3> HIDE DEF S
    <3> QED
      BY <1>2, <3>1, FirstExists
  <2>2. CASE i = 0
    <3> DEFINE f == [j \in 0..0 |-> s]
    <3>1. f = [j \in 0..0 |-> IF j = 0 THEN s ELSE Taken(f[j - 1], d[j])]
      OBVIOUS
    <3> HIDE DEF f
    <3>2. Runs(f, s, d, i)
      BY <2>2, <3>1 DEF Runs
    <3> QED
      BY <2>1, <3>2
  <2>3. CASE i > 0
    <3>1. i - 1 \in Nat /\ i - 1 \notin S
      BY <2>1, <2>3
    <3>2. PICK f : Runs(f, s, d, i - 1)
      BY <3>1
    <3>3. f = [j \in 0..(i - 1) |-> IF j = 0 THEN s ELSE Taken(f[j - 1], d[j])]
      BY <3>2 DEF Runs
    <3> DEFINE g == [j \in 0..i |-> IF j = i THEN Taken(f[i - 1], d[i]) ELSE f[j]]
    <3>4. ASSUME NEW j \in 0..i
          PROVE  g[j] = IF j = 0 THEN s ELSE Taken(g[j - 1], d[j])
      <4>1. CASE j = 0
        BY <2>3, <3>3, <4>1
      <4>2. CASE j # 0 /\ j < i
        <5>1. j \in 0..(i - 1) /\ j - 1 \in 0..i /\ j # i /\ j - 1 # i
          BY <4>2
        <5>2. g[j] = f[j] /\ g[j - 1] = f[j - 1]
          BY <5>1
        <5>3. f[j] = Taken(f[j - 1], d[j])
          BY <3>3, <4>2, <5>1
        <5> HIDE DEF g
        <5> QED
          BY <4>2, <5>2, <5>3
      <4>3. CASE j # 0 /\ j = i
        <5>1. j - 1 \in 0..i /\ j - 1 # i
          BY <4>3
        <5>2. g[j] = Taken(f[i - 1], d[i]) /\ g[j - 1] = f[j - 1]
          BY <4>3, <5>1
        <5> HIDE DEF g
        <5> QED
          BY <4>3, <5>2
      <4>4. j < i \/ j = i
        BY <2>1
      <4> QED
        BY <4>1, <4>2, <4>3, <4>4, Zenon
    <3>5. g = [j \in 0..i |-> g[j]]
      OBVIOUS
    <3> HIDE DEF g
    <3>6. g = [j \in 0..i |-> IF j = 0 THEN s ELSE Taken(g[j - 1], d[j])]
      BY <3>4, <3>5, Zenon
    <3> QED
      BY <2>1, <3>6 DEF Runs
  <2> QED
    BY <2>1, <2>2, <2>3
<1> QED
  BY <1>1, <1>2

LEMMA ReassembleRuns ==
    ASSUME NEW fragment, NEW d, Len(d) \in Nat
    PROVE  \E f : /\ Runs(f, [fragment |-> fragment, out |-> <<>>], d, Len(d))
                 /\ Reassemble(fragment, d) = f[Len(d)]
<1> DEFINE s == [fragment |-> fragment, out |-> <<>>]
           run == CHOOSE run : run = [i \in 0..Len(d) |->
                                        IF i = 0 THEN s ELSE Taken(run[i - 1], d[i])]
<1>1. \E f : f = [i \in 0..Len(d) |-> IF i = 0 THEN s ELSE Taken(f[i - 1], d[i])]
  <2> HIDE DEF s
  <2>1. \E f : Runs(f, s, d, Len(d))
    BY RunExists
  <2> QED
    BY <2>1, Zenon DEF Runs
<1>2. run = [i \in 0..Len(d) |-> IF i = 0 THEN s ELSE Taken(run[i - 1], d[i])]
  BY <1>1, Zenon
<1>3. Reassemble(fragment, d) = run[Len(d)]
  BY Zenon DEF Reassemble
<1> QED
  BY <1>2, <1>3 DEF Runs

\* The next messages, as many as can be fetched at once.
LEMMA ManyMessages ==
    ASSUME NEW start, CutAt(start), assigned \in Seq(Msg), NEW base \in Nat, NEW r \in Nat \ {0},
           NEW d, Len(d) \in Nat, r + Len(d) <= Len(assigned) + 1,
           \A k \in 1..Len(d) : d[k] = assigned[r + k - 1],
           NEW fragment, Behind(start, base, [fragment |-> fragment, out |-> <<>>], r)
    PROVE  Behind(start, base, Reassemble(fragment, d), r + Len(d))
<1> DEFINE s == [fragment |-> fragment, out |-> <<>>]
           n == Len(d)
<1>1. PICK f : Runs(f, s, d, n) /\ Reassemble(fragment, d) = f[n]
  BY ReassembleRuns
<1>2. f = [i \in 0..n |-> IF i = 0 THEN s ELSE Taken(f[i - 1], d[i])]
  BY <1>1 DEF Runs
<1> DEFINE S == {i \in 0..n : ~ Behind(start, base, f[i], r + i)}
<1> HIDE DEF s, n
<1>3. n \in Nat /\ Len(assigned) \in Nat
  BY DEF n
<1>4. ASSUME S # {}
      PROVE  FALSE
  <2>1. S \in SUBSET Nat /\ S \subseteq 0..n
    BY <1>3
  <2>2. PICK i \in S : \A j \in S : i <= j
    <3> HIDE DEF S
    <3> QED
      BY <1>4, <2>1, FirstExists
  <2>3. CASE i = 0
    <3>1. f[i] = s /\ r + i = r
      BY <1>2, <1>3, <2>3
    <3> QED
      BY <2>2, <3>1 DEF s
  <2>4. CASE i # 0
    <3>1. i \in 1..n /\ i - 1 \in 0..n /\ i - 1 \notin S
      BY <1>3, <2>1, <2>2, <2>4
    <3>2. Behind(start, base, f[i - 1], r + (i - 1))
      BY <3>1
    <3>3. f[i] = Taken(f[i - 1], d[i]) /\ d[i] = assigned[r + (i - 1)]
      <4>1. f[i] = Taken(f[i - 1], d[i])
        BY <1>2, <2>4, <3>1
      <4>2. d[i] = assigned[r + i - 1] /\ r + i - 1 = r + (i - 1)
        BY <3>1 DEF n
      <4> QED
        BY <4>1, <4>2
    <3> DEFINE q == r + (i - 1)
    <3>4. q \in 1..Len(assigned) /\ q + 1 = r + i
      BY <1>3, <3>1 DEF n
    <3> HIDE DEF q
    <3>5. Behind(start, base, Taken(f[i - 1], assigned[q]), q + 1)
      BY <3>2, <3>4, OneMessage DEF q
    <3> QED
      BY <2>2, <3>3, <3>4, <3>5 DEF q
  <2> QED
    BY <2>3, <2>4
<1>5. Behind(start, base, f[n], r + n)
  BY <1>3, <1>4
<1> QED
  BY <1>1, <1>5 DEF n

-----------------------------------------------------------------------------
(* The stream that the application sees. *)

StreamAt(start) ==
    /\ CutAt(start) /\ delivered \in Seq(Seq(0..255))
    /\ Behind(start, 0, [fragment |-> recv.fragment, out |-> delivered], recv.inBuf.read)

StreamInv == \E start : StreamAt(start)

LEMMA InitStreamInv == Init => StreamInv
<1> SUFFICES ASSUME Init PROVE StreamInv
  OBVIOUS
<1> DEFINE start == [i \in 1..1 |-> 1]
<1>1. /\ sent = <<>> /\ assigned = <<>> /\ delivered = <<>> /\ recv = NewReceiver
  BY DEF Init
<1>2. /\ recv.fragment = NoFragment /\ recv.inBuf.read = 1
  BY <1>1, BufferAssumption DEF NewReceiver, EmptyBuffer
<1>3. sent \in Seq(Seq(0..255)) /\ Len(sent) = 0 /\ Len(assigned) = 0
      /\ delivered \in Seq(Seq(0..255)) /\ Len(delivered) = 0
  BY <1>1
<1>4. start \in [1..(Len(sent) + 1) -> Nat] /\ start[1] = 1
  BY <1>3
<1> HIDE DEF start
<1>5. CutAt(start)
  BY <1>3, <1>4 DEF CutAt
<1>6. NoFragment \in Fragments /\ ~NoFragment.begun
  BY DEF NoFragment, Fragments
<1> DEFINE s == [fragment |-> recv.fragment, out |-> delivered]
<1>7. s.fragment = NoFragment /\ s.out = delivered /\ s \in [fragment : Fragments, out : Seq(Seq(0..255))]
  BY <1>2, <1>3, <1>6
<1> HIDE DEF s
<1>8. 0 + Len(s.out) = 0 /\ 0 + 1 = 1 /\ 1..Len(s.out) = {}
  BY <1>3, <1>7
<1>9. Behind(start, 0, s, recv.inBuf.read)
  BY <1>2, <1>3, <1>4, <1>6, <1>7, <1>8 DEF Behind
<1> QED
  BY <1>3, <1>5, <1>9 DEF StreamInv, StreamAt, s

\* Data that is sent begins after the last chunk of the data before.
LEMMA CutGrows ==
    ASSUME LinkInv, NEW start, CutAt(start), NEW d \in Data, Send(d),
           NEW s, NEW r \in Nat, Behind(start, 0, s, r)
    PROVE  \E longer : CutAt(longer)' /\ Behind(longer, 0, s, r)'
<1> DEFINE l == Len(sent)
           a == Len(assigned)
           n == ChunkCount(d)
           more == Chunks(chan, d)
           new == [i \in 1..(l + 2) |-> IF i <= l + 1 THEN start[i] ELSE a + 1 + n]
<1>1. /\ sent \in Seq(Seq(0..255)) /\ l \in Nat /\ a \in Nat
      /\ start \in [1..(l + 1) -> Nat] /\ start[1] = 1 /\ start[l + 1] = a + 1
  BY DEF CutAt, LinkInv, AssignedInv
<1>2. /\ sent' = Append(sent, d) /\ assigned' = assigned \o more
      /\ chan.messageId = a + 1 /\ a + n <= MaxMessages
  BY DEF Send, LinkInv, WayInv
<1>3. d \in Seq(0..255) /\ n \in Nat \ {0}
  BY DataAssumption, ChunkCountFacts
<1>4. /\ more \in Seq(Msg) /\ Len(more) = n
      /\ \A k \in 1..n : /\ more[k].op = ChunkOp(k, n)
                        /\ more[k].data = SubSeq(d, (k - 1) * ChunkSize + 1, ChunkEnd(d, k))
  <2> HIDE DEF a
  <2>1. /\ more \in Seq(Msg) /\ Len(more) = n
        /\ \A k \in 1..n : more[k] = [id |-> a + k, op |-> ChunkOp(k, n),
                              data |-> SubSeq(d, (k - 1) * ChunkSize + 1, ChunkEnd(d, k))]
    BY <1>1, <1>2, ChunksFacts
  <2> HIDE DEF more
  <2> QED
    BY <2>1
<1>5. assigned \in Seq(Msg)
  BY DEF LinkInv, AssignedInv
<1> HIDE DEF more
<1>6. /\ Len(assigned') = a + n
      /\ \A i \in 1..a : assigned'[i] = assigned[i]
      /\ \A k \in 1..n : assigned'[a + k] = more[k]
  <2>1. /\ Len(assigned') = Len(assigned) + Len(more)
        /\ \A i \in 1..(Len(assigned) + Len(more)) :
              assigned'[i] = IF i <= Len(assigned) THEN assigned[i] ELSE more[i - Len(assigned)]
    BY <1>2, <1>4, <1>5, ConcatProperties
  <2>2. \A i \in 1..(a + n) : assigned'[i] = IF i <= a THEN assigned[i] ELSE more[i - a]
    BY <1>4, <2>1
  <2>3. Len(assigned') = a + n
    BY <1>4, <2>1
  <2> HIDE DEF a, n
  <2>4. ASSUME NEW k \in 1..n
        PROVE  assigned'[a + k] = more[k]
    <3>1. a + k \in 1..(a + n) /\ ~(a + k <= a) /\ (a + k) - a = k
      BY <1>1, <1>3
    <3> QED
      BY <2>2, <3>1
  <2>5. ASSUME NEW i \in 1..a
        PROVE  assigned'[i] = assigned[i]
    <3>1. i \in 1..(a + n) /\ i <= a
      BY <1>1, <1>3
    <3> QED
      BY <2>2, <3>1
  <2> QED
    BY <2>3, <2>4, <2>5
<1>7. /\ sent' \in Seq(Seq(0..255)) /\ Len(sent') = l + 1
      /\ \A i \in 1..l : sent'[i] = sent[i]
      /\ sent'[l + 1] = d
  BY <1>1, <1>2, <1>3
<1>8. PICK longer : /\ longer \in [1..((l + 1) + 1) -> Nat]
                    /\ \A i \in 1..(l + 1) : longer[i] = start[i]
                    /\ longer[(l + 1) + 1] = a + 1 + n
  <2>1. /\ new \in [1..((l + 1) + 1) -> Nat]
        /\ \A i \in 1..(l + 1) : new[i] = start[i]
        /\ new[(l + 1) + 1] = a + 1 + n
    <3> HIDE DEF l, a, n
    <3> QED
      BY <1>1, <1>3
  <2> HIDE DEF new
  <2> QED
    BY <2>1
<1>9. \A i \in 1..l : /\ start[i + 1] = start[i] + ChunkCount(sent[i])
                     /\ start[i] \in Nat /\ start[i] >= 1 /\ start[i + 1] <= a + 1
  <2>1. \A i \in 1..l : /\ start[i + 1] = start[i] + ChunkCount(sent[i])
                       /\ ChunkCount(sent[i]) \in Nat
    BY <1>1, ChunkCountFacts DEF CutAt, PartAt
  \* A place before the first, or after the last, would be the least such, or the
  \* greatest.
  <2> HIDE DEF l, a
  <2>2. \A i \in 1..(l + 1) : start[i] >= 1
    <3> DEFINE S == {i \in 1..(l + 1) : ~(start[i] >= 1)}
    <3>1. ASSUME S # {} PROVE FALSE
      <4>1. S \in SUBSET Nat
        OBVIOUS
      <4>2. PICK i \in S : \A j \in S : i <= j
        <5> HIDE DEF S
        <5> QED
          BY <3>1, <4>1, FirstExists
      <4>3. i # 1 /\ i \in 1..(l + 1) /\ ~(start[i] >= 1)
        BY <1>1, <4>2
      <4>4. i - 1 \in 1..l /\ i - 1 \in 1..(l + 1) /\ (i - 1) + 1 = i
        BY <1>1, <4>3
      <4>5. start[i - 1] >= 1
        BY <4>2, <4>4
      <4>6. start[i - 1] \in Nat /\ start[i] \in Nat
        BY <1>1, <4>3, <4>4
      <4>7. start[i] = start[i - 1] + ChunkCount(sent[i - 1]) /\ ChunkCount(sent[i - 1]) \in Nat
        BY <2>1, <4>4
      <4> QED
        BY <4>3, <4>5, <4>6, <4>7
    <3> QED
      BY <3>1
  <2>3. \A i \in 1..(l + 1) : start[i] <= a + 1
    <3> DEFINE S == {i \in 1..(l + 1) : ~(start[i] <= a + 1)}
    <3>1. ASSUME S # {} PROVE FALSE
      <4>1. S \in SUBSET (0..(l + 1)) /\ l + 1 \in Nat
        BY <1>1
      <4>2. PICK i \in S : \A j \in S : j <= i
        <5> HIDE DEF S
        <5> DEFINE w == l + 1
        <5>1. w \in Nat /\ S \in SUBSET (0..w)
          BY <4>1
        <5> HIDE DEF w
        <5> QED
          BY <3>1, <5>1, LastExists
      <4>3. i # l + 1 /\ i \in 1..(l + 1) /\ ~(start[i] <= a + 1)
        BY <1>1, <4>2
      <4>4. i \in 1..l /\ i + 1 \in 1..(l + 1)
        BY <1>1, <4>3
      <4>5. start[i + 1] <= a + 1
        BY <4>2, <4>4
      <4>6. start[i] \in Nat /\ start[i + 1] \in Nat
        BY <1>1, <4>3, <4>4
      <4>7. start[i + 1] = start[i] + ChunkCount(sent[i]) /\ ChunkCount(sent[i]) \in Nat
        BY <2>1, <4>4
      <4> QED
        BY <1>1, <4>3, <4>5, <4>6, <4>7
    <3> QED
      BY <3>1
  <2>4. \A i \in 1..l : i \in 1..(l + 1) /\ i + 1 \in 1..(l + 1)
    BY <1>1
  <2> QED
    BY <1>1, <2>1, <2>2, <2>3, <2>4
<1>10. ASSUME NEW i \in 1..(l + 1)
       PROVE  PartAt(longer, i)'
  <2>1. CASE i = l + 1
    <3>1. longer[i] = a + 1 /\ longer[i + 1] = a + 1 + n /\ sent'[i] = d
      BY <1>1, <1>7, <1>8, <2>1
    <3>2. ASSUME NEW k \in 1..n
          PROVE  assigned'[(a + 1) + k - 1] = more[k]
      <4>1. (a + 1) + k - 1 = a + k
        BY <1>1
      <4> QED
        BY <1>6, <4>1
    <3> QED
      BY <1>4, <3>1, <3>2 DEF PartAt
  <2>2. CASE i # l + 1
    <3>1. i \in 1..l /\ i + 1 \in 1..(l + 1)
      BY <1>1, <2>2
    <3>2. longer[i] = start[i] /\ longer[i + 1] = start[i + 1] /\ sent'[i] = sent[i]
      BY <1>7, <1>8, <3>1
    <3>3. ASSUME NEW k \in 1..ChunkCount(sent[i])
          PROVE  assigned'[start[i] + k - 1] = assigned[start[i] + k - 1]
      <4>1. /\ start[i + 1] = start[i] + ChunkCount(sent[i])
            /\ start[i] \in Nat /\ start[i] >= 1 /\ start[i + 1] <= a + 1
        BY <1>9, <3>1
      <4>2. ChunkCount(sent[i]) \in Nat
        BY <1>1, <3>1, ChunkCountFacts
      <4>3. start[i] + k - 1 \in 1..a
        BY <1>1, <4>1, <4>2
      <4> QED
        BY <1>6, <4>3
    <3> QED
      BY <3>1, <3>2, <3>3, SMTT(60) DEF CutAt, PartAt
  <2> QED
    BY <2>1, <2>2
<1>11. CutAt(longer)'
  <2>1. 1 \in 1..(l + 1)
    BY <1>1
  <2>2. longer[1] = 1 /\ longer[Len(sent') + 1] = Len(assigned') + 1
    BY <1>1, <1>3, <1>6, <1>7, <1>8, <2>1
  <2>3. longer \in [1..(Len(sent') + 1) -> Nat]
    BY <1>7, <1>8
  <2>4. \A i \in 1..Len(sent') : PartAt(longer, i)'
    BY <1>7, <1>10
  <2> QED
    BY <1>7, <2>2, <2>3, <2>4 DEF CutAt
<1>12. Behind(longer, 0, s, r)'
  <2> DEFINE D == 0 + Len(s.out)
  <2>1. /\ s \in [fragment : Fragments, out : Seq(Seq(0..255))]
        /\ D <= l
        /\ \A i \in 1..Len(s.out) : s.out[i] = sent[0 + i]
        /\ IF s.fragment.begun
           THEN /\ D < l /\ start[D + 1] < r /\ r < start[D + 2]
                /\ s.fragment.data = SubSeq(sent[D + 1], 1, (r - start[D + 1]) * ChunkSize)
           ELSE s.fragment = NoFragment /\ r = start[D + 1]
    BY DEF Behind
  <2>2. Len(s.out) \in Nat
    BY <2>1
  <2>3. D \in Nat /\ D + 1 \in 1..(l + 1)
    BY <1>1, <2>1, <2>2
  <2>4. longer[D + 1] = start[D + 1] /\ D <= Len(sent')
    <3> HIDE DEF D, l
    <3> QED
      BY <1>1, <1>7, <1>8, <2>1, <2>3
  <2>5. \A i \in 1..Len(s.out) : s.out[i] = sent'[0 + i]
    <3>1. \A i \in 1..Len(s.out) : 0 + i \in 1..l
      BY <1>1, <2>1, <2>2
    <3> QED
      BY <1>7, <2>1, <3>1
  <2>6. IF s.fragment.begun
        THEN /\ D < Len(sent') /\ longer[D + 1] < r /\ r < longer[D + 2]
             /\ s.fragment.data = SubSeq(sent'[D + 1], 1, (r - longer[D + 1]) * ChunkSize)
        ELSE s.fragment = NoFragment /\ r = longer[D + 1]
    <3> HIDE DEF D, l
    <3>1. CASE s.fragment.begun
      <4>0. D < l
        BY <2>1, <3>1, Zenon
      <4>1. D + 1 \in 1..l /\ D + 2 \in 1..(l + 1)
        <5>1. l \in Nat
          BY <1>1
        <5> QED
          BY <2>3, <4>0, <5>1
      <4>2. sent'[D + 1] = sent[D + 1] /\ longer[D + 2] = start[D + 2]
        BY <1>7, <1>8, <4>1, Zenon
      <4>3. D < Len(sent')
        BY <1>1, <1>7, <2>3, <4>1
      <4> QED
        BY <2>1, <2>4, <3>1, <4>2, <4>3
    <3>2. CASE ~s.fragment.begun
      BY <2>1, <2>4, <3>2
    <3> QED
      BY <3>1, <3>2
  <2>7. s \in [fragment : Fragments, out : Seq(Seq(0..255))]
    BY <2>1
  <2> QED
    BY <2>4, <2>5, <2>6, <2>7, Zenon DEF Behind
<1> QED
  BY <1>11, <1>12

\* What is behind a place is the same, whether the data already delivered is counted
\* in or not.
LEMMA BehindFrom ==
    ASSUME NEW start, NEW old \in Seq(Seq(0..255)), NEW s, NEW r,
           \A i \in 1..Len(old) : old[i] = sent[i]
    PROVE  Behind(start, Len(old), s, r)
              => Behind(start, 0, [fragment |-> s.fragment, out |-> old \o s.out], r)
<1> DEFINE o == old \o s.out
           b == Len(old)
           t == [fragment |-> s.fragment, out |-> o]
<1>1. SUFFICES ASSUME Behind(start, b, s, r)
               PROVE  Behind(start, 0, t, r)
  OBVIOUS
<1>2. s \in [fragment : Fragments, out : Seq(Seq(0..255))] /\ b \in Nat /\ Len(s.out) \in Nat
  BY <1>1 DEF Behind
<1>3. s.out \in Seq(Seq(0..255)) /\ s.fragment \in Fragments
  BY <1>2
<1>4. /\ o \in Seq(Seq(0..255)) /\ Len(o) = b + Len(s.out)
      /\ \A i \in 1..(b + Len(s.out)) : o[i] = IF i <= b THEN old[i] ELSE s.out[i - b]
  <2> DEFINE u == s.out
  <2>1. u \in Seq(Seq(0..255))
    BY <1>3
  <2> HIDE DEF u
  <2>2. /\ old \o u \in Seq(Seq(0..255)) /\ Len(old \o u) = Len(old) + Len(u)
        /\ \A i \in 1..(Len(old) + Len(u)) :
              (old \o u)[i] = IF i <= Len(old) THEN old[i] ELSE u[i - Len(old)]
    BY <2>1, ConcatProperties
  <2> QED
    BY <2>2 DEF u
<1> HIDE DEF o
<1> DEFINE D == b + Len(s.out)
<1>5. /\ D <= Len(sent)
      /\ \A i \in 1..Len(s.out) : s.out[i] = sent[b + i]
      /\ IF s.fragment.begun
         THEN /\ D < Len(sent) /\ start[D + 1] < r /\ r < start[D + 2]
              /\ s.fragment.data = SubSeq(sent[D + 1], 1, (r - start[D + 1]) * ChunkSize)
         ELSE s.fragment = NoFragment /\ r = start[D + 1]
  BY <1>1 DEF Behind
<1>6. 0 + Len(o) = D
  BY <1>2, <1>4
<1>7. ASSUME NEW i \in 1..Len(o)
      PROVE  o[i] = sent[0 + i]
  <2>1. i \in 1..D /\ 0 + i = i /\ i \in Int
    BY <1>2, <1>4
  <2>2. CASE i <= b
    <3>1. i \in 1..b
      BY <1>2, <2>1, <2>2
    <3>2. o[i] = old[i] /\ old[i] = sent[i]
      BY <1>4, <2>1, <2>2, <3>1
    <3> QED
      BY <2>1, <3>2
  <2>3. CASE i > b
    <3>1. i - b \in 1..Len(s.out) /\ b + (i - b) = i
      BY <1>2, <2>1, <2>3
    <3>2. s.out[i - b] = sent[b + (i - b)]
      BY <1>5, <3>1
    <3>3. o[i] = s.out[i - b]
      BY <1>2, <1>4, <2>1, <2>3
    <3> QED
      BY <2>1, <3>1, <3>2, <3>3
  <2> QED
    BY <1>2, <2>1, <2>2, <2>3
<1>8. t \in [fragment : Fragments, out : Seq(Seq(0..255))] /\ t.fragment = s.fragment /\ t.out = o
  BY <1>3, <1>4
<1> HIDE DEF t
<1> DEFINE E == 0 + Len(t.out)
<1>9. /\ E <= Len(sent)
      /\ IF t.fragment.begun
         THEN /\ E < Len(sent) /\ start[E + 1] < r /\ r < start[E + 2]
              /\ t.fragment.data = SubSeq(sent[E + 1], 1, (r - start[E + 1]) * ChunkSize)
         ELSE t.fragment = NoFragment /\ r = start[E + 1]
  <2>1. E = D
    BY <1>6, <1>8
  <2> HIDE DEF E, D
  <2> QED
    BY <1>5, <1>8, <2>1
<1> QED
  BY <1>7, <1>8, <1>9 DEF Behind

\* A message is taken, and the data that it completes is delivered.
LEMMA ReceivedFacts ==
    ASSUME LinkInv, RecvInv, NEW start, StreamAt(start), UNCHANGED <<sent, assigned>>,
           NEW m, Accepts(recv.inBuf, assigned, m), Received(m)
    PROVE  /\ StreamAt(start)'
           /\ \E n \in Len(delivered)..Len(sent) : delivered' = SubSeq(sent, 1, n)
<1> DEFINE b == recv.inBuf
           p == Put(b, m)
           d == Fetched(p)
           q == Reassemble(recv.fragment, d)
           s == [fragment |-> recv.fragment, out |-> <<>>]
           r == b.read
           e == p.write
<1>1. /\ CutAt(start) /\ delivered \in Seq(Seq(0..255))
      /\ Behind(start, 0, [fragment |-> recv.fragment, out |-> delivered], r)
  BY DEF StreamAt
<1>2. /\ e \in r..(Len(assigned) + 1) /\ Len(d) = e - r
      /\ \A k \in 1..(e - r) : d[k] = assigned[r + k - 1]
      /\ Drained(p).read = e
  <2>1. Accepts(b, assigned, m)
    OBVIOUS
  <2> HIDE DEF b
  <2> QED
    BY <2>1, FetchedInOrder
<1>3. r \in Nat \ {0} /\ Len(assigned) \in Nat /\ assigned \in Seq(Msg)
  BY DEF LinkInv, AssignedInv, RecvInv, Holds
<1>4. /\ recv'.fragment = q.fragment /\ recv'.inBuf = Drained(p) /\ delivered' = delivered \o q.out
  BY DEF Received
<1> HIDE DEF p, r
<1> HIDE DEF d, e, b
<1>5. /\ recv.fragment \in Fragments /\ Len(delivered) <= Len(sent) /\ Len(delivered) \in Nat
      /\ \A i \in 1..Len(delivered) : delivered[i] = sent[i]
      /\ Behind(start, Len(delivered), s, r)
  <2> DEFINE t == [fragment |-> recv.fragment, out |-> delivered]
             D == Len(delivered)
  <2>1. t.fragment = recv.fragment /\ t.out = delivered
    OBVIOUS
  <2>2. D \in Nat /\ 0 + D = D /\ D + 0 = D
    BY <1>1
  <2>3. Behind(start, 0, t, r)
    BY <1>1
  <2> HIDE DEF t
  <2>4. /\ t \in [fragment : Fragments, out : Seq(Seq(0..255))]
        /\ D <= Len(sent)
        /\ \A i \in 1..D : delivered[i] = sent[0 + i]
        /\ IF recv.fragment.begun
           THEN /\ D < Len(sent) /\ start[D + 1] < r /\ r < start[D + 2]
                /\ recv.fragment.data = SubSeq(sent[D + 1], 1, (r - start[D + 1]) * ChunkSize)
           ELSE recv.fragment = NoFragment /\ r = start[D + 1]
    BY <2>1, <2>2, <2>3 DEF Behind
  <2>5. recv.fragment \in Fragments
    BY <2>1, <2>4
  <2>6. /\ s.fragment = recv.fragment /\ s.out = <<>> /\ Len(s.out) = 0 /\ 1..Len(s.out) = {}
        /\ s \in [fragment : Fragments, out : Seq(Seq(0..255))]
    BY <2>5
  <2> HIDE DEF s, D
  <2>7. D + Len(s.out) = D
    BY <2>2, <2>6
  <2>8. Behind(start, D, s, r)
    BY <2>4, <2>6, <2>7 DEF Behind
  <2>9. \A i \in 1..D : delivered[i] = sent[i]
    BY <2>2, <2>4
  <2> QED
    BY <2>2, <2>4, <2>5, <2>8, <2>9 DEF D
<1>6. Behind(start, Len(delivered), q, e)
  <2>1. Len(d) \in Nat /\ r + Len(d) = e /\ r + Len(d) <= Len(assigned) + 1
        /\ \A k \in 1..Len(d) : d[k] = assigned[r + k - 1]
    BY <1>2, <1>3
  <2> DEFINE f == recv.fragment
             D == Len(delivered)
  <2>2. D \in Nat /\ Behind(start, D, [fragment |-> f, out |-> <<>>], r)
    BY <1>5
  <2> HIDE DEF f, D
  <2>3. Behind(start, D, Reassemble(f, d), r + Len(d))
    BY <1>1, <1>3, <2>1, <2>2, ManyMessages
  <2> QED
    BY <2>1, <2>3 DEF f, D
<1> HIDE DEF q, s
<1>7. Behind(start, 0, [fragment |-> q.fragment, out |-> delivered \o q.out], e)
  BY <1>1, <1>5, <1>6, BehindFrom
<1>8. /\ q.out \in Seq(Seq(0..255)) /\ Len(q.out) \in Nat
      /\ Len(delivered) + Len(q.out) <= Len(sent)
  BY <1>6 DEF Behind
<1>9. delivered' \in Seq(Seq(0..255)) /\ Len(delivered') = Len(delivered) + Len(q.out)
  BY <1>1, <1>4, <1>8, ConcatProperties
<1>10. StreamAt(start)'
  <2>1. CutAt(start)'
    BY <1>1 DEF CutAt, PartAt
  <2>2. Behind(start, 0, [fragment |-> recv'.fragment, out |-> delivered'], e)
    BY <1>4, <1>7
  <2>3. recv'.inBuf.read = e
    BY <1>2, <1>4
  <2> DEFINE t == [fragment |-> recv'.fragment, out |-> delivered']
             i == recv'.inBuf.read
  <2>4. Behind(start, 0, t, i)
    BY <2>2, <2>3
  <2>5. Behind(start, 0, [fragment |-> recv.fragment, out |-> delivered], recv.inBuf.read)'
    BY <2>4 DEF Behind
  <2> QED
    BY <1>9, <2>1, <2>5 DEF StreamAt
<1>11. delivered' = SubSeq(sent, 1, Len(delivered'))
  <2> DEFINE n == Len(delivered')
             t == [fragment |-> q.fragment, out |-> delivered']
  <2>1. n \in 0..Len(sent) /\ sent \in Seq(Seq(0..255)) /\ Len(sent) \in Nat
    BY <1>1, <1>5, <1>8, <1>9 DEF CutAt
  <2>2. \A i \in 1..n : delivered'[i] = sent[i]
    <3>1. Behind(start, 0, t, e) /\ t.out = delivered'
      BY <1>4, <1>7
    <3> HIDE DEF t
    <3>2. \A i \in 1..n : delivered'[i] = sent[0 + i]
      BY <3>1 DEF Behind
    <3>3. \A i \in 1..n : 0 + i = i
      OBVIOUS
    <3> QED
      BY <3>2, <3>3
  <2> DEFINE c == SubSeq(sent, 1, n)
  <2> HIDE DEF n
  <2>3. c \in Seq(Seq(0..255)) /\ Len(c) = n /\ \A i \in 1..n : c[i] = sent[i]
    BY <2>1, SubSeqProperties
  <2> HIDE DEF c
  <2>4. delivered' = c
    BY <1>9, <2>1, <2>2, <2>3, SeqEqual DEF n
  <2> QED
    BY <2>4 DEF c, n
<1>12. Len(delivered') \in Len(delivered)..Len(sent)
  BY <1>5, <1>8, <1>9
<1> QED
  BY <1>10, <1>11, <1>12

LEMMA StepStream ==
    ASSUME LinkInv, RecvInv, StreamInv, [Next]_vars
    PROVE  StreamInv' /\ [Stream!Next]_<<sent, delivered>>
<1>1. PICK start : StreamAt(start)
  BY DEF StreamInv
<1>2. ASSUME NEW d \in Data, Send(d), UNCHANGED <<recv, delivered>>
      PROVE  StreamInv' /\ [Stream!Next]_<<sent, delivered>>
  <2>1. Stream!Send(d)
    BY <1>2 DEF Send, Stream!Send
  <2> DEFINE r == recv.inBuf.read
             s == [fragment |-> recv.fragment, out |-> delivered]
  <2>2. r \in Nat /\ CutAt(start) /\ Behind(start, 0, s, r)
    BY <1>1 DEF StreamAt, RecvInv, Holds, LinkInv, AssignedInv
  <2>3. PICK c, q : c = s /\ q = r
    OBVIOUS
  <2>4. Behind(start, 0, c, q) /\ q \in Nat
    BY <2>2, <2>3
  <2>5. PICK longer : CutAt(longer)' /\ Behind(longer, 0, c, q)'
    BY <1>2, <2>2, <2>4, CutGrows
  <2>6. c = s' /\ q = r'
    BY <1>2, <2>3
  <2>7. Behind(longer, 0, s, r)'
    <3> HIDE DEF s, r
    <3> QED
      BY <2>5, <2>6 DEF Behind
  <2>8. StreamAt(longer)'
    BY <1>1, <1>2, <2>5, <2>7 DEF StreamAt
  <2> QED
    BY <2>1, <2>8 DEF StreamInv, Stream!Next
<1>3. ASSUME UNCHANGED <<sent, assigned, recv, delivered>>
      PROVE  StreamInv' /\ [Stream!Next]_<<sent, delivered>>
  <2>1. StreamAt(start)'
    BY <1>1, <1>3 DEF StreamAt, CutAt, PartAt, Behind
  <2> QED
    BY <1>3, <2>1 DEF StreamInv
<1>4. ASSUME UNCHANGED <<sent, assigned>>, NEW m, Accepts(recv.inBuf, assigned, m), Received(m)
      PROVE  StreamInv' /\ [Stream!Next]_<<sent, delivered>>
  <2>1. StreamAt(start)' /\ \E n \in Len(delivered)..Len(sent) : delivered' = SubSeq(sent, 1, n)
    BY <1>1, <1>4, ReceivedFacts
  <2>2. PICK n \in Len(delivered)..Len(sent) : delivered' = SubSeq(sent, 1, n)
    BY <2>1
  <2>3. delivered \in Seq(Seq(0..255)) /\ sent \in Seq(Seq(0..255))
    BY <1>1 DEF StreamAt, CutAt
  <2>4. CASE n = Len(delivered)
    <3>1. \A i \in 1..Len(delivered) : delivered[i] = sent[i]
      <4> DEFINE t == [fragment |-> recv.fragment, out |-> delivered]
      <4>1. Behind(start, 0, t, recv.inBuf.read) /\ t.out = delivered
        BY <1>1 DEF StreamAt
      <4> HIDE DEF t
      <4>2. \A i \in 1..Len(delivered) : delivered[i] = sent[0 + i]
        BY <4>1 DEF Behind
      <4>3. \A i \in 1..Len(delivered) : 0 + i = i
        OBVIOUS
      <4> QED
        BY <4>2, <4>3
    <3> DEFINE c == SubSeq(sent, 1, n)
    <3>2. c \in Seq(Seq(0..255)) /\ Len(c) = n /\ \A i \in 1..n : c[i] = sent[i]
      BY <2>2, <2>3, <2>4, SubSeqProperties
    <3> HIDE DEF c
    <3>3. c = delivered
      BY <2>3, <2>4, <3>1, <3>2, SeqEqual
    <3>4. delivered' = delivered
      BY <2>2, <3>3 DEF c
    <3> QED
      BY <1>4, <2>1, <3>4 DEF StreamInv
  <2>5. CASE n # Len(delivered)
    <3>1. n \in (Len(delivered) + 1)..Len(sent)
      BY <2>2, <2>3, <2>5
    <3>2. Stream!Receive
      BY <1>4, <2>2, <3>1 DEF Stream!Receive
    <3> QED
      BY <2>1, <3>2 DEF StreamInv, Stream!Next
  <2> QED
    BY <2>4, <2>5
<1> QED
  BY <1>2, <1>3, <1>4, ReceiverSteps

(* The link implements the stream: what the receiving application has been given
   is at any time a beginning of what was sent, datum by datum, whichever
   transports carried the chunks, however often a POST was repeated, and whatever
   was lost or came too early. *)
THEOREM LinkImplementsStream == Spec => IsStream
<1>1. Init => Stream!Init
  BY DEF Init, Stream!Init
<1>2. LinkInv /\ RecvInv /\ [Next]_vars => RecvInv'
  BY StepRecvInv
<1>3. LinkInv /\ RecvInv /\ StreamInv /\ [Next]_vars
          => StreamInv' /\ [Stream!Next]_<<sent, delivered>>
  BY StepStream
<1> QED
  BY <1>1, <1>2, <1>3, InitRecvInv, InitStreamInv, AlwaysLinkInv, PTL
     DEF Spec, IsStream, Stream!Spec, Stream!vars
=============================================================================
