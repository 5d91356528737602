-------------------------- MODULE TrapClientProofs --------------------------
(* Proofs about the life of a Trap connection. *)
EXTENDS TrapClient, FiniteSetTheorems, SequenceTheorems, WellFoundedInduction, TLAPS

Pair == [e : EndpointType, t : [Transports -> TransportType]]

CanSend(s, j) == s.t[j].st = "AVAILABLE" /\ s.t[j].hooked

\* The list of the available transports between two events, and while
\* addTransportToAvailable has not yet disconnected one of two.
None(s) == s.e.avail = <<>>
One(s)  == \E j \in Transports : s.e.avail = <<j>> /\ CanSend(s, j)
Two(s)  == \E i, j \in Transports :
              i # j /\ s.e.avail = <<i, j>> /\ CanSend(s, i) /\ CanSend(s, j)

Sound(s) == s \in Pair /\ (None(s) \/ One(s) \/ Two(s))
Good(s)  == s \in Pair /\ (None(s) \/ One(s))

Has(a, j) == \E i \in 1..Len(a) : a[i] = j

\* What a call may do to the timers of the recovery: it may arm them.
Keeps(s, r) ==
    /\ Good(r)
    /\ r.e.starting = s.e.starting /\ r.e.periodic = s.e.periodic
    /\ \/ r.e.recovering = s.e.recovering /\ r.e.recoverTimer = s.e.recoverTimer
       \/ ~s.e.recovering /\ r.e.recovering /\ r.e.recoverTimer

\* ... and to an endpoint that has ended: nothing.
Calm(s, r) ==
    Ended(s.e) => /\ Ended(r.e)
                  /\ \A j \in Transports :
                        s.t[j].st # "CONNECTING" => r.t[j].st # "CONNECTING"

\* Nothing happens to the state of the endpoint and to the timers of its recovery.
SameLife(f, g) ==
    /\ g.state = f.state /\ g.starting = f.starting /\ g.periodic = f.periodic
    /\ g.recovering = f.recovering /\ g.recoverTimer = f.recoverTimer

\* A call that concerns transport k only, and takes it off the list at most.
Local(s, r, k) ==
    /\ Sound(r)
    /\ SameLife(s.e, r.e)
    /\ \A j \in Transports : Has(r.e.avail, j) => Has(s.e.avail, j)
    /\ \A j \in Transports \ {k} : r.t[j] = s.t[j]
    /\ r.t[k].hooked = s.t[k].hooked
    /\ s.t[k].st # "CONNECTING" => r.t[k].st # "CONNECTING"

\* A set of numbers that is not empty has a first one.
LEMMA FirstExists ==
    ASSUME NEW S \in SUBSET Nat, S # {}
    PROVE  \E i \in S : \A j \in S : i <= j
<1> DEFINE R == OpToRel(<, Nat)
<1>1. IsWellFoundedOn(R, Nat)
  BY NatLessThanWellFounded
<1>2. PICK i \in S : \A j \in S : ~ (<<j, i>> \in R)
  <2> HIDE DEF R
  <2> QED
    BY <1>1, WFMin
<1>3. \A j \in S : ~ (j < i)
  BY <1>2 DEF OpToRel
<1> QED
  BY <1>3

\* Parts of short lists, and their concatenation.
LEMMA Parts ==
    ASSUME NEW i, NEW j
    PROVE  /\ \A s : SubSeq(s, 1, 0) = <<>> /\ SubSeq(s, 2, 1) = <<>> /\ SubSeq(s, 3, 2) = <<>>
           /\ SubSeq(<<i>>, 1, 1) = <<i>>
           /\ SubSeq(<<i, j>>, 1, 1) = <<i>> /\ SubSeq(<<i, j>>, 2, 2) = <<j>>
           /\ <<>> \o <<i>> = <<i>> /\ <<i>> \o <<>> = <<i>> /\ <<i>> \o <<j>> = <<i, j>>
           /\ <<i, j>> \o <<>> = <<i, j>>
<1> DEFINE S == {i, j}
           a == <<i>>
           b == <<j>>
           c == <<i, j>>
<1>1. /\ <<>> \in Seq(S) /\ a \in Seq(S) /\ b \in Seq(S) /\ c \in Seq(S)
      /\ Len(a) = 1 /\ a[1] = i /\ Len(b) = 1 /\ b[1] = j
      /\ Len(c) = 2 /\ c[1] = i /\ c[2] = j
  OBVIOUS
<1> HIDE DEF S, a, b, c
<1>2. ASSUME NEW s \in Seq(S), NEW n \in 1..Len(s), NEW t \in Seq(S), Len(t) = 1, s[n] = t[1]
      PROVE  SubSeq(s, n, n) = t
  <2> DEFINE r == SubSeq(s, n, n)
  <2>1. r \in Seq(S) /\ Len(r) = 1 /\ r[1] = s[n]
    BY SubSeqProperties
  <2> HIDE DEF r
  <2>2. r = t
    BY <1>2, <2>1, SeqEqual
  <2> QED
    BY <2>2 DEF r
<1>3. SubSeq(a, 1, 1) = a
  BY <1>1, <1>2
<1>4. SubSeq(c, 1, 1) = a
  BY <1>1, <1>2
<1>5. SubSeq(c, 2, 2) = b
  BY <1>1, <1>2
<1>6. <<>> \o a = a /\ a \o <<>> = a /\ c \o <<>> = c
  BY <1>1, ConcatEmptySeq
<1>7. a \o b = c
  <2> DEFINE d == a \o b
  <2>0. /\ d \in Seq(S) /\ Len(d) = Len(a) + Len(b)
        /\ \A n \in 1..(Len(a) + Len(b)) :
              d[n] = IF n <= Len(a) THEN a[n] ELSE b[n - Len(a)]
    BY <1>1, ConcatProperties
  <2>1. d \in Seq(S) /\ Len(d) = 2 /\ d[1] = i /\ d[2] = j
    <3> HIDE DEF d
    <3> QED
      BY <1>1, <2>0
  <2> HIDE DEF d
  <2>2. d = c
    BY <1>1, <2>1, SeqEqual
  <2> QED
    BY <2>2 DEF d
<1>8. \A s : SubSeq(s, 1, 0) = <<>> /\ SubSeq(s, 2, 1) = <<>> /\ SubSeq(s, 3, 2) = <<>>
  BY SubSeqEmpty
<1> QED
  BY <1>3, <1>4, <1>5, <1>6, <1>7, <1>8 DEF a, b, c

LEMMA WithoutShort ==
    ASSUME NEW j, NEW k
    PROVE  /\ Without(<<>>, k) = <<>>
           /\ Without(<<j>>, k) = IF j = k THEN <<>> ELSE <<j>>
           /\ \A i : i # j => Without(<<i, j>>, k) = IF i = k THEN <<j>> ELSE
                                                      IF j = k THEN <<i>> ELSE <<i, j>>
<1>1. Without(<<>>, k) = <<>>
  BY DEF Without, RemoveFirst
<1>2. ASSUME j # k PROVE Without(<<j>>, k) = <<j>>
  <2>1. ~ \E i \in 1..Len(<<j>>) : <<j>>[i] = k
    BY <1>2
  <2> QED
    BY <2>1 DEF Without, RemoveFirst
<1>3. ASSUME j = k PROVE Without(<<j>>, k) = <<>>
  <2>1. Without(<<j>>, k) = RemoveAt(<<j>>, Min({i \in 1..1 : <<j>>[i] = k}))
    BY <1>3 DEF Without, RemoveFirst, SelectInSeq
  <2>2. {i \in 1..1 : <<j>>[i] = k} = {1}
    BY <1>3
  <2>3. Min({1}) = 1
    BY DEF Min
  <2>4. Without(<<j>>, k) = RemoveAt(<<j>>, 1)
    BY <2>1, <2>2, <2>3
  <2>5. RemoveAt(<<j>>, 1) = <<>>
    BY DEF RemoveAt
  <2> QED
    BY <2>4, <2>5
<1>4. ASSUME NEW i, i # j
      PROVE  Without(<<i, j>>, k) = IF i = k THEN <<j>> ELSE IF j = k THEN <<i>> ELSE <<i, j>>
  <2> DEFINE s == <<i, j>>
             I == {n \in 1..2 : s[n] = k}
  <2>1. Len(s) = 2 /\ s[1] = i /\ s[2] = j
    OBVIOUS
  <2> HIDE DEF s
  <2>2. CASE i # k /\ j # k
    <3>1. ~ \E n \in 1..Len(s) : s[n] = k
      BY <2>1, <2>2
    <3> QED
      BY <2>2, <3>1 DEF Without, RemoveFirst, s
  <2>3. ASSUME i = k \/ j = k
        PROVE  Without(s, k) = RemoveAt(s, Min(I))
    <3>1. \E n \in 1..Len(s) : s[n] = k
      BY <2>1, <2>3
    <3> QED
      BY <2>1, <3>1 DEF Without, RemoveFirst, SelectInSeq
  <2>4. CASE i = k
    <3>1. I = {1}
      BY <1>4, <2>1, <2>4
    <3>2. Min({1}) = 1
      BY DEF Min
    <3>3. Without(s, k) = RemoveAt(s, 1)
      BY <2>3, <2>4, <3>1, <3>2
    <3>4. SubSeq(s, 1, 0) = <<>> /\ SubSeq(s, 2, 2) = <<j>>
      BY Parts DEF s
    <3>5. RemoveAt(s, 1) = SubSeq(s, 1, 0) \o SubSeq(s, 2, 2)
      BY <2>1 DEF RemoveAt
    <3>6. RemoveAt(s, 1) = <<j>>
      BY <3>4, <3>5, Parts
    <3> QED
      BY <2>4, <3>3, <3>6 DEF s
  <2>5. CASE j = k
    <3>1. I = {2}
      BY <1>4, <2>1, <2>5
    <3>2. Min({2}) = 2
      BY DEF Min
    <3>3. Without(s, k) = RemoveAt(s, 2)
      BY <2>3, <2>5, <3>1, <3>2
    <3>4. SubSeq(s, 1, 1) = <<i>> /\ SubSeq(s, 3, 2) = <<>>
      BY Parts DEF s
    <3>5. RemoveAt(s, 2) = SubSeq(s, 1, 1) \o SubSeq(s, 3, 2)
      BY <2>1 DEF RemoveAt
    <3>6. RemoveAt(s, 2) = <<i>>
      BY <3>4, <3>5, Parts
    <3> QED
      BY <1>4, <2>5, <3>3, <3>6 DEF s
  <2> QED
    BY <2>2, <2>4, <2>5
<1> QED
  BY <1>1, <1>2, <1>3, <1>4

LEMMA HasShort ==
    ASSUME NEW x
    PROVE  /\ ~Has(<<>>, x)
           /\ \A j : Has(<<j>>, x) <=> x = j
           /\ \A i, j : Has(<<i, j>>, x) <=> x = i \/ x = j
<1>1. ~Has(<<>>, x)
  BY DEF Has
<1>2. ASSUME NEW j PROVE Has(<<j>>, x) <=> x = j
  <2>1. Len(<<j>>) = 1 /\ <<j>>[1] = j
    OBVIOUS
  <2> QED
    BY <2>1 DEF Has
<1>3. ASSUME NEW i, NEW j PROVE Has(<<i, j>>, x) <=> x = i \/ x = j
  <2>1. Len(<<i, j>>) = 2 /\ <<i, j>>[1] = i /\ <<i, j>>[2] = j
    OBVIOUS
  <2> QED
    BY <2>1 DEF Has
<1> QED
  BY <1>1, <1>2, <1>3

LEMMA PutT ==
    ASSUME NEW s \in Pair, NEW k \in Transports, NEW y \in TransportType
    PROVE  LET r == [s EXCEPT !.t[k] = y]
           IN  /\ r \in Pair /\ r.e = s.e /\ r.t[k] = y
               /\ \A j \in Transports \ {k} : r.t[j] = s.t[j]
<1> DEFINE u == [s.t EXCEPT ![k] = y]
<1>1. u \in [Transports -> TransportType] /\ u[k] = y
      /\ \A j \in Transports \ {k} : u[j] = s.t[j]
  BY DEF Pair
<1> HIDE DEF u
<1>2. [s EXCEPT !.t = u] \in Pair /\ [s EXCEPT !.t = u].e = s.e /\ [s EXCEPT !.t = u].t = u
  BY <1>1 DEF Pair
<1> QED
  BY <1>1, <1>2 DEF u

LEMMA PutE ==
    ASSUME NEW s \in Pair, NEW f \in EndpointType
    PROVE  LET r == [s EXCEPT !.e = f]
           IN  r \in Pair /\ r.e = f /\ r.t = s.t
BY DEF Pair

LEMMA ChangedFacts ==
    ASSUME NEW s \in Pair, NEW k \in Transports, NEW new \in TransportStates
    PROVE  LET c == Changed(s, k, new)
           IN  /\ c \in Pair /\ c.e = s.e
               /\ c.t[k].st = new /\ c.t[k].hooked = s.t[k].hooked
               /\ \A j \in Transports \ {k} : c.t[j] = s.t[j]
<1> DEFINE x == s.t[k]
           flush == ~IsWs(k) /\ new = "AVAILABLE" /\ x.st = "UNAVAILABLE"
           n == IF flush THEN x.flushes + 1 ELSE x.flushes
           b == x.running /\ ~Down(x)
           y == [x EXCEPT !.st = new, !.running = b, !.flushes = n]
<1>1. x \in TransportType
  BY DEF Pair
<1>2. b \in BOOLEAN /\ n \in Nat
  BY <1>1 DEF TransportType
<1>3. Changed(s, k, new) = [s EXCEPT !.t[k] = y]
  BY DEF Changed
<1> HIDE DEF x, b, n
<1>4. y \in TransportType /\ y.st = new /\ y.hooked = x.hooked
  BY <1>1, <1>2 DEF TransportType
<1> HIDE DEF y
<1> QED
  BY <1>3, <1>4, PutT DEF x

LEMMA BusyFacts ==
    ASSUME NEW s, Sound(s), NEW k \in Transports, NEW y \in TransportType,
           y.st = s.t[k].st, y.hooked = s.t[k].hooked
    PROVE  LET r == [s EXCEPT !.t[k] = y]
           IN  Local(s, r, k) /\ r.e = s.e /\ r.t[k] = y
<1> DEFINE r == [s EXCEPT !.t[k] = y]
<1>1. /\ r \in Pair /\ r.e = s.e /\ r.t[k] = y
      /\ \A j \in Transports \ {k} : r.t[j] = s.t[j]
  BY PutT DEF Sound
<1> HIDE DEF r
<1>2. \A j \in Transports : r.t[j].st = s.t[j].st /\ r.t[j].hooked = s.t[j].hooked
  BY <1>1
<1>3. None(r) \/ One(r) \/ Two(r)
  BY <1>1, <1>2 DEF Sound, None, One, Two, CanSend
<1>4. Local(s, r, k)
  BY <1>1, <1>2, <1>3 DEF Local, Sound, SameLife
<1> QED
  BY <1>1, <1>4 DEF r

LEMMA QuietFacts ==
    ASSUME NEW s, Sound(s), NEW k \in Transports,
           NEW new \in TransportStates \ {"AVAILABLE", "CONNECTING"}
    PROVE  LET r == Quiet(s, k, new)
           IN  Local(s, r, k) /\ r.t[k].st = new
<1> DEFINE c == Changed(s, k, new)
           a == Without(s.e.avail, k)
           r == Quiet(s, k, new)
<1>1. /\ c \in Pair /\ c.e = s.e
      /\ c.t[k].st = new /\ c.t[k].hooked = s.t[k].hooked
      /\ \A j \in Transports \ {k} : c.t[j] = s.t[j]
  BY ChangedFacts DEF Sound
<1>2. r = IF s.t[k].hooked THEN [c EXCEPT !.e.avail = a] ELSE c
  BY <1>1 DEF Quiet
<1>3. /\ a \in Seq(Transports)
      /\ \A j \in Transports : Has(a, j) => Has(s.e.avail, j)
      /\ \/ a = <<>>
         \/ \E j \in Transports \ {k} : a = <<j>> /\ CanSend(s, j)
         \/ \E i, j \in Transports \ {k} :
                i # j /\ a = <<i, j>> /\ CanSend(s, i) /\ CanSend(s, j)
  <2>1. CASE None(s)
    <3>1. s.e.avail = <<>> /\ a = <<>>
      BY <2>1, WithoutShort DEF None
    <3> HIDE DEF a
    <3> QED
      BY <3>1
  <2>2. CASE One(s)
    <3>1. PICK j \in Transports : s.e.avail = <<j>> /\ CanSend(s, j)
      BY <2>2 DEF One
    <3>2. a = IF j = k THEN <<>> ELSE <<j>>
      BY <3>1, WithoutShort
    <3> HIDE DEF a
    <3>3. CASE j = k
      BY <3>1, <3>2, <3>3, HasShort
    <3>4. CASE j # k
      BY <3>1, <3>2, <3>4, HasShort
    <3> QED
      BY <3>3, <3>4
  <2>3. CASE Two(s)
    <3>1. PICK i \in Transports, j \in Transports :
                 i # j /\ s.e.avail = <<i, j>> /\ CanSend(s, i) /\ CanSend(s, j)
      BY <2>3 DEF Two
    <3>2. a = IF i = k THEN <<j>> ELSE IF j = k THEN <<i>> ELSE <<i, j>>
      BY <3>1, WithoutShort
    <3> HIDE DEF a
    <3>3. CASE i = k
      BY <3>1, <3>2, <3>3, HasShort
    <3>4. CASE j = k
      BY <3>1, <3>2, <3>4, HasShort
    <3>5. CASE i # k /\ j # k
      BY <3>1, <3>2, <3>5, HasShort
    <3> QED
      BY <3>3, <3>4, <3>5
  <2> QED
    BY <2>1, <2>2, <2>3 DEF Sound
<1> HIDE DEF c, a, r
<1>4. \A j \in Transports \ {k} : CanSend(s, j) => CanSend(c, j)
  BY <1>1 DEF CanSend
<1>5. new # "CONNECTING"
  OBVIOUS
<1>6. ASSUME s.t[k].hooked PROVE Local(s, r, k) /\ r.t[k].st = new
  <2> DEFINE f == [c.e EXCEPT !.avail = a]
  <2>1. f \in EndpointType /\ f.avail = a /\ SameLife(s.e, f)
    BY <1>1, <1>3 DEF Pair, EndpointType, SameLife
  <2>2. r = [c EXCEPT !.e = f]
    BY <1>2, <1>6
  <2> HIDE DEF f
  <2>3. r \in Pair /\ r.e = f /\ r.t = c.t
    BY <1>1, <2>1, <2>2, PutE
  <2>4. None(r) \/ One(r) \/ Two(r)
    BY <1>3, <1>4, <2>1, <2>3 DEF None, One, Two, CanSend
  <2> QED
    BY <1>1, <1>3, <1>5, <2>1, <2>3, <2>4 DEF Local, Sound
<1>7. ASSUME ~s.t[k].hooked PROVE Local(s, r, k) /\ r.t[k].st = new
  <2>1. r = c
    BY <1>2, <1>7
  <2>2. ~CanSend(s, k)
    BY <1>7 DEF CanSend
  <2>3. None(r) \/ One(r) \/ Two(r)
    BY <1>1, <1>4, <2>1, <2>2 DEF Sound, None, One, Two
  <2> QED
    BY <1>1, <1>5, <2>1, <2>3 DEF Local, Sound, SameLife
<1> QED
  BY <1>6, <1>7 DEF r

LEMMA LocalTwice ==
    ASSUME NEW s, NEW r, NEW q, NEW k, Local(s, r, k), Local(r, q, k)
    PROVE  Local(s, q, k)
BY DEF Local, SameLife

LEMMA PostFacts ==
    ASSUME NEW s, Sound(s), NEW k \in Transports
    PROVE  LET r == Post(s, k)
           IN  /\ Local(s, r, k)
               /\ r.t[k].st = IF s.t[k].st \in {"AVAILABLE", "CONNECTED"}
                              THEN "UNAVAILABLE" ELSE s.t[k].st
<1> DEFINE x == s.t[k]
           n == x.posts + 1
           yes == TRUE
           y == [x EXCEPT !.posts = n, !.sendQueued = yes, !.buffered = yes]
           p == [s EXCEPT !.t[k] = y]
           r == Post(s, k)
<1>1. r = IF x.st \in {"AVAILABLE", "CONNECTED"} THEN Quiet(p, k, "UNAVAILABLE") ELSE p
  BY DEF Post
<1>2. x \in TransportType /\ n \in Nat /\ yes \in BOOLEAN
  BY DEF Sound, Pair, TransportType
<1> HIDE DEF x, n, yes
<1>3. y \in TransportType /\ y.st = x.st /\ y.hooked = x.hooked
  BY <1>2 DEF TransportType
<1> HIDE DEF y
<1>4. Local(s, p, k) /\ p.t[k] = y
  BY <1>3, BusyFacts DEF x
<1>5. Sound(p)
  BY <1>4 DEF Local
<1> HIDE DEF p, r
<1>6. "UNAVAILABLE" \in TransportStates \ {"AVAILABLE", "CONNECTING"}
  BY DEF TransportStates
<1>7. Local(p, Quiet(p, k, "UNAVAILABLE"), k) /\ Quiet(p, k, "UNAVAILABLE").t[k].st = "UNAVAILABLE"
  BY <1>5, <1>6, QuietFacts
<1> DEFINE Goal == /\ Local(s, r, k)
                   /\ r.t[k].st = IF x.st \in {"AVAILABLE", "CONNECTED"} THEN "UNAVAILABLE" ELSE x.st
<1>8. ASSUME x.st \in {"AVAILABLE", "CONNECTED"} PROVE Goal
  <2>1. r = Quiet(p, k, "UNAVAILABLE")
    BY <1>1, <1>8
  <2> QED
    BY <1>4, <1>7, <1>8, <2>1, LocalTwice
<1>9. ASSUME x.st \notin {"AVAILABLE", "CONNECTED"} PROVE Goal
  BY <1>1, <1>3, <1>4, <1>9
<1> QED
  BY <1>8, <1>9 DEF r, x

LEMMA InternalDisconnectFacts ==
    ASSUME NEW s, Sound(s), NEW k \in Transports
    PROVE  LET r == InternalDisconnect(s, k)
           IN  Local(s, r, k) /\ r.t[k].st \in {s.t[k].st, "DISCONNECTING"}
<1> DEFINE r == InternalDisconnect(s, k)
           q == Quiet(s, k, "DISCONNECTING")
           d == IF Down(s.t[k]) THEN s ELSE q
           x == s.t[k]
           z == d.t[k]
           v == IF z.sock = "none" THEN z.sock ELSE "closing"
           y == [z EXCEPT !.sock = v]
           yes == TRUE
           w == [x EXCEPT !.quit = yes]
<1>1. "DISCONNECTING" \in TransportStates \ {"AVAILABLE", "CONNECTING"}
  BY DEF TransportStates
<1>2. Local(s, q, k) /\ q.t[k].st = "DISCONNECTING"
  BY <1>1, QuietFacts
<1>3. Local(s, s, k)
  BY DEF Local, Sound, SameLife
<1>4. r = IF ~IsWs(k) THEN [s EXCEPT !.t[k] = w] ELSE [d EXCEPT !.t[k] = y]
  BY DEF InternalDisconnect
<1> HIDE DEF q
<1>5. Local(s, d, k) /\ z.st \in {x.st, "DISCONNECTING"}
  BY <1>2, <1>3
<1>6. Sound(d) /\ Sound(s)
  BY <1>5 DEF Local
<1>7. x \in TransportType /\ z \in TransportType
  BY <1>6 DEF Sound, Pair
<1> HIDE DEF r, d, x, z
<1>8. v \in {"none", "opening", "open", "closing"} /\ yes \in BOOLEAN
  BY <1>7 DEF TransportType
<1> HIDE DEF v, yes
<1>9. /\ y \in TransportType /\ y.st = z.st /\ y.hooked = z.hooked
      /\ w \in TransportType /\ w.st = x.st /\ w.hooked = x.hooked
  BY <1>7, <1>8 DEF TransportType
<1> HIDE DEF y, w
<1>10. CASE IsWs(k)
  <2>1. r = [d EXCEPT !.t[k] = y]
    BY <1>4, <1>10
  <2>2. Local(d, r, k) /\ r.t[k] = y
    BY <1>6, <1>9, <2>1, BusyFacts DEF z
  <2>3. Local(s, r, k) /\ r.t[k].st \in {x.st, "DISCONNECTING"}
    BY <1>5, <1>9, <2>2, LocalTwice
  <2> QED
    BY <2>3 DEF r, x
<1>11. CASE ~IsWs(k)
  <2>1. r = [s EXCEPT !.t[k] = w]
    BY <1>4, <1>11
  <2>2. Local(s, r, k) /\ r.t[k] = w
    BY <1>6, <1>9, <2>1, BusyFacts DEF x
  <2>3. Local(s, r, k) /\ r.t[k].st \in {x.st, "DISCONNECTING"}
    BY <1>9, <2>2
  <2> QED
    BY <2>3 DEF r, x
<1> QED
  BY <1>10, <1>11

LEMMA DisconnectFacts ==
    ASSUME NEW s, Sound(s), NEW k \in Transports
    PROVE  LET r == Disconnect(s, k)
           IN  Local(s, r, k) /\ r.t[k].st # "AVAILABLE"
<1> DEFINE r == Disconnect(s, k)
           d == Quiet(s, k, "DISCONNECTING")
           p == IF IsWs(k) THEN d ELSE Post(d, k)
           i == InternalDisconnect(s, k)
           j == InternalDisconnect(p, k)
           old == s.t[k].st
           quiet == Down(s.t[k]) \/ old = "DISCONNECTING"
<1>1. "DISCONNECTING" \in TransportStates \ {"AVAILABLE", "CONNECTING"}
  BY DEF TransportStates
<1>2. Local(s, d, k) /\ d.t[k].st = "DISCONNECTING"
  BY <1>1, QuietFacts
<1> HIDE DEF d
<1>3. Sound(d)
  BY <1>2 DEF Local
<1>4. Local(d, Post(d, k), k) /\ Post(d, k).t[k].st = "DISCONNECTING"
  BY <1>2, <1>3, PostFacts
<1>5. Local(s, p, k) /\ p.t[k].st = "DISCONNECTING"
  BY <1>2, <1>4, LocalTwice
<1> HIDE DEF p
<1>6. Sound(p)
  BY <1>5 DEF Local
<1>7. Local(p, j, k) /\ j.t[k].st = "DISCONNECTING"
  BY <1>5, <1>6, InternalDisconnectFacts
<1>8. Local(s, i, k) /\ i.t[k].st \in {old, "DISCONNECTING"}
  BY InternalDisconnectFacts
<1> HIDE DEF i, j
<1>9. Local(s, j, k)
  BY <1>5, <1>7, LocalTwice
<1>10. CASE quiet
  <2>1. r = s
    BY <1>10 DEF Disconnect, Down
  <2>2. old # "AVAILABLE"
    BY <1>10 DEF Down
  <2> QED
    BY <2>1, <2>2 DEF Local, Sound, SameLife
<1>11. CASE ~quiet /\ old = "CONNECTING"
  <2>1. r = i
    BY <1>11 DEF Disconnect, i
  <2> QED
    BY <1>8, <1>11, <2>1
<1>12. CASE ~quiet /\ old # "CONNECTING"
  <2>1. r = j
    BY <1>12 DEF Disconnect, j, p, d
  <2> QED
    BY <1>7, <1>9, <2>1
<1> QED
  BY <1>10, <1>11, <1>12

-----------------------------------------------------------------------------
\* The loops over the transports: all of them are disconnected, or those of a set
\* are connected.
Round(all, throwing, s, r, k) ==
    IF all THEN Disconnect(r, k)
    ELSE IF k \notin s.e.toConnect \/ DownPrioritised(r, k) THEN r
    ELSE Connect([r EXCEPT !.e.toConnect = @ \ {k}], k, k \in throwing)

Runs(f, all, throwing, s, n) ==
    f = [k \in 0..n |-> IF k = 0 THEN s ELSE Round(all, throwing, s, f[k - 1], k)]

LEMMA RunExists ==
    ASSUME NEW all, NEW throwing, NEW s, NEW n \in Nat
    PROVE  \E f : Runs(f, all, throwing, s, n)
<1> DEFINE Step(r, k) == Round(all, throwing, s, r, k)
           S == {i \in Nat : ~ \E f : Runs(f, all, throwing, s, i)}
<1>1. CASE S = {}
  BY <1>1
<1>2. CASE S # {}
  <2>1. PICK i \in S : \A j \in S : i <= j
    <3>1. S \in SUBSET Nat
      OBVIOUS
    <3> HIDE DEF S
    <3> QED
      BY <1>2, <3>1, FirstExists
  <2>2. CASE i = 0
    <3> DEFINE f == [j \in 0..0 |-> s]
    <3>1. f = [j \in 0..0 |-> IF j = 0 THEN s ELSE Step(f[j - 1], j)]
      <4> HIDE DEF Step
      <4> QED
        OBVIOUS
    <3> HIDE DEF f
    <3>2. Runs(f, all, throwing, s, i)
      BY <2>2, <3>1 DEF Runs
    <3> QED
      BY <2>1, <3>2, Zenon
  <2>3. CASE i > 0
    <3>1. i - 1 \in Nat /\ i - 1 \notin S
      BY <2>1, <2>3
    <3>2. PICK f : Runs(f, all, throwing, s, i - 1)
      BY <3>1
    <3>3. f = [j \in 0..(i - 1) |-> IF j = 0 THEN s ELSE Step(f[j - 1], j)]
      BY <3>2 DEF Runs
    <3> HIDE DEF Step
    <3> DEFINE g == [j \in 0..i |-> IF j = i THEN Step(f[i - 1], i) ELSE f[j]]
    <3>4. ASSUME NEW j \in 0..i
          PROVE  g[j] = IF j = 0 THEN s ELSE Step(g[j - 1], j)
      <4>1. CASE j = 0
        BY <2>3, <3>3, <4>1
      <4>2. CASE j # 0 /\ j < i
        <5>1. j \in 0..(i - 1) /\ j - 1 \in 0..i /\ j # i /\ j - 1 # i
          BY <4>2
        <5>2. g[j] = f[j] /\ g[j - 1] = f[j - 1]
          BY <5>1
        <5>3. f[j] = Step(f[j - 1], j)
          BY <3>3, <4>2, <5>1
        <5> HIDE DEF g
        <5> QED
          BY <4>2, <5>2, <5>3
      <4>3. CASE j # 0 /\ j = i
        <5>1. j - 1 \in 0..i /\ j - 1 # i
          BY <4>3
        <5>2. g[j] = Step(f[i - 1], i) /\ g[j - 1] = f[j - 1]
          BY <4>3, <5>1
        <5> HIDE DEF g
        <5> QED
          BY <4>3, <5>2
      <4>4. j < i \/ j = i
        BY <2>1
      <4> QED
        BY <4>1, <4>2, <4>3, <4>4, Zenon
    <3>5. g = [j \in 0..i |-> g[j]]
      OBVIOUS
    <3> HIDE DEF g
    <3>6. g = [j \in 0..i |-> IF j = 0 THEN s ELSE Step(g[j - 1], j)]
      BY <3>4, <3>5, Zenon
    <3>7. Runs(g, all, throwing, s, i)
      BY <3>6 DEF Runs, Step
    <3> QED
      BY <2>1, <3>7
  <2> QED
    BY <2>1, <2>2, <2>3
<1> QED
  BY <1>1, <1>2

LEMMA DisconnectAllRuns ==
    ASSUME NEW s
    PROVE  \E f : Runs(f, TRUE, {}, s, Len(Kind)) /\ DisconnectAll(s) = f[Len(Kind)]
<1> DEFINE run == CHOOSE run : run = [k \in 0..Len(Kind) |->
                      IF k = 0 THEN s ELSE Disconnect(run[k - 1], k)]
<1>1. Len(Kind) \in Nat
  BY ClientAssumption
<1>2. PICK f : Runs(f, TRUE, {}, s, Len(Kind))
  BY <1>1, RunExists
<1>3. f = [k \in 0..Len(Kind) |-> IF k = 0 THEN s ELSE Disconnect(f[k - 1], k)]
  BY <1>2, Zenon DEF Runs, Round
<1>4. run = [k \in 0..Len(Kind) |-> IF k = 0 THEN s ELSE Disconnect(run[k - 1], k)]
  BY <1>3, Zenon
<1>5. Runs(run, TRUE, {}, s, Len(Kind))
  BY <1>4, Zenon DEF Runs, Round
<1>6. DisconnectAll(s) = run[Len(Kind)]
  BY Zenon DEF DisconnectAll
<1> QED
  BY <1>5, <1>6

LEMMA ConnectAllRuns ==
    ASSUME NEW s, NEW throwing
    PROVE  \E f : /\ Runs(f, FALSE, throwing, s, Len(Kind))
                 /\ ConnectAll(s, throwing) = [f[Len(Kind)] EXCEPT !.e.recovering = FALSE]
<1> DEFINE Step(r, k) ==
               IF k \notin s.e.toConnect \/ DownPrioritised(r, k) THEN r
               ELSE Connect([r EXCEPT !.e.toConnect = @ \ {k}], k, k \in throwing)
           run == CHOOSE run : run = [k \in 0..Len(Kind) |->
                      IF k = 0 THEN s ELSE Step(run[k - 1], k)]
<1>1. Len(Kind) \in Nat
  BY ClientAssumption
<1>2. PICK f : Runs(f, FALSE, throwing, s, Len(Kind))
  BY <1>1, RunExists
<1>3. f = [k \in 0..Len(Kind) |-> IF k = 0 THEN s ELSE Step(f[k - 1], k)]
  BY <1>2, Zenon DEF Runs, Round
<1>4. run = [k \in 0..Len(Kind) |-> IF k = 0 THEN s ELSE Step(run[k - 1], k)]
  <2> HIDE DEF Step
  <2> QED
    BY <1>3, Zenon
<1>5. Runs(run, FALSE, throwing, s, Len(Kind))
  BY <1>4, Zenon DEF Runs, Round
<1>6. ConnectAll(s, throwing) = [run[Len(Kind)] EXCEPT !.e.recovering = FALSE]
  BY Zenon DEF ConnectAll
<1> QED
  BY <1>5, <1>6

-----------------------------------------------------------------------------
\* A call during which no transport begins to connect and nothing but the list of
\* the available ones changes at the endpoint.
Still(s, r) ==
    /\ Sound(r)
    /\ SameLife(s.e, r.e)
    /\ \A j \in Transports : Has(r.e.avail, j) => Has(s.e.avail, j)
    /\ \A j \in Transports : s.t[j].st # "CONNECTING" => r.t[j].st # "CONNECTING"

Step(s, r) == Keeps(s, r) /\ Calm(s, r)

LEMMA LocalStill ==
    ASSUME NEW s, NEW r, NEW k \in Transports, Local(s, r, k)
    PROVE  Still(s, r)
BY DEF Local, Still

LEMMA StillTwice ==
    ASSUME NEW s, NEW r, NEW q, Still(s, r), Still(r, q)
    PROVE  Still(s, q)
BY DEF Still, SameLife

LEMMA StillSelf ==
    ASSUME NEW s, Sound(s)
    PROVE  Still(s, s)
BY DEF Still, SameLife

LEMMA GoodIsSound ==
    ASSUME NEW s, Good(s)
    PROVE  Sound(s)
BY DEF Good, Sound

LEMMA FewerIsGood ==
    ASSUME NEW s, NEW r, Good(s), Sound(r),
           \A j \in Transports : Has(r.e.avail, j) => Has(s.e.avail, j)
    PROVE  Good(r)
<1>1. ASSUME Two(r) PROVE FALSE
  <2>1. PICK i \in Transports, j \in Transports : i # j /\ r.e.avail = <<i, j>>
    BY <1>1 DEF Two
  <2>2. Has(<<i, j>>, i) /\ Has(<<i, j>>, j)
    BY HasShort, Zenon
  <2>3. Has(s.e.avail, i) /\ Has(s.e.avail, j)
    BY <2>1, <2>2, Zenon
  <2>4. ~None(s)
    BY <2>3, HasShort, Zenon DEF None
  <2>5. ASSUME One(s) PROVE FALSE
    <3>1. PICK l \in Transports : s.e.avail = <<l>>
      BY <2>5 DEF One
    <3>2. Has(<<l>>, i) /\ Has(<<l>>, j)
      BY <2>3, <3>1, Zenon
    <3>3. i = l
      BY <3>2, HasShort, Zenon
    <3>4. j = l
      BY <3>2, HasShort, Zenon
    <3> QED
      BY <2>1, <3>3, <3>4, Zenon
  <2> QED
    BY <2>4, <2>5 DEF Good
<1> QED
  BY <1>1 DEF Sound, Good

LEMMA StillStep ==
    ASSUME NEW s, NEW r, Good(s), Still(s, r)
    PROVE  Good(r) /\ Step(s, r)
<1>1. Good(r)
  BY FewerIsGood DEF Still
<1>2. Keeps(s, r)
  BY <1>1 DEF Still, SameLife, Keeps
<1>3. Calm(s, r)
  BY DEF Still, SameLife, Calm, Ended
<1> QED
  BY <1>1, <1>2, <1>3 DEF Step

LEMMA StepTwice ==
    ASSUME NEW s, NEW r, NEW q, Step(s, r), Step(r, q)
    PROVE  Step(s, q)
<1>1. Keeps(s, q)
  BY DEF Step, Keeps
<1>2. Calm(s, q)
  BY DEF Step, Calm
<1> QED
  BY <1>1, <1>2 DEF Step

LEMMA StepIsGood ==
    ASSUME NEW s, NEW r, Step(s, r)
    PROVE  Good(r)
BY DEF Step, Keeps

LEMMA DisconnectAllFacts ==
    ASSUME NEW s, Sound(s)
    PROVE  Still(s, DisconnectAll(s))
<1> DEFINE n == Len(Kind)
<1>1. PICK f : Runs(f, TRUE, {}, s, n) /\ DisconnectAll(s) = f[n]
  BY DisconnectAllRuns
<1>2. n \in Nat /\ Transports = 1..n
  BY ClientAssumption DEF Transports
<1> HIDE DEF n
<1>3. f[0] = s /\ \A k \in 1..n : f[k] = Disconnect(f[k - 1], k)
  <2>1. f = [k \in 0..n |-> IF k = 0 THEN s ELSE Disconnect(f[k - 1], k)]
    BY <1>1, Zenon DEF Runs, Round
  <2>2. 0 \in 0..n /\ \A k \in 1..n : k \in 0..n /\ k # 0
    BY <1>2
  <2> QED
    BY <2>1, <2>2, Zenon
<1> DEFINE S == {k \in 0..n : ~Still(s, f[k])}
<1>4. CASE S = {}
  BY <1>1, <1>2, <1>4
<1>5. CASE S # {}
  <2>1. PICK k \in S : \A j \in S : k <= j
    <3>1. S \in SUBSET Nat
      OBVIOUS
    <3> HIDE DEF S
    <3> QED
      BY <1>5, <3>1, FirstExists
  <2>2. k # 0
    BY <1>3, <2>1, StillSelf
  <2>3. k \in 1..n /\ k - 1 \in 0..n /\ k - 1 \notin S
    BY <1>2, <2>1, <2>2
  <2>4. Still(s, f[k - 1])
    BY <2>3
  <2>5. Local(f[k - 1], f[k], k)
    BY <1>2, <1>3, <2>3, <2>4, DisconnectFacts DEF Still
  <2>6. Still(s, f[k])
    BY <1>2, <2>3, <2>4, <2>5, LocalStill, StillTwice
  <2> QED
    BY <2>1, <2>6
<1> QED
  BY <1>4, <1>5

LEMMA EndFacts ==
    ASSUME NEW s, Good(s), NEW f \in EndpointType,
           f.avail = s.e.avail \/ f.avail = <<>>,
           f.starting = s.e.starting, f.periodic = s.e.periodic,
           \/ f.recovering = s.e.recovering /\ f.recoverTimer = s.e.recoverTimer
           \/ ~s.e.recovering /\ f.recovering /\ f.recoverTimer,
           Ended(s.e) => Ended(f)
    PROVE  LET r == [s EXCEPT !.e = f]
           IN  Good(r) /\ Step(s, r) /\ r.e = f /\ r.t = s.t
<1> DEFINE r == [s EXCEPT !.e = f]
<1>1. r \in Pair /\ r.e = f /\ r.t = s.t
  BY PutE DEF Good
<1> HIDE DEF r
<1>2. Good(r)
  BY <1>1 DEF Good, None, One, CanSend
<1>3. Keeps(s, r)
  BY <1>1, <1>2 DEF Keeps
<1>4. Calm(s, r)
  BY <1>1 DEF Calm
<1>5. Good(r) /\ Step(s, r) /\ r.e = f /\ r.t = s.t
  BY <1>1, <1>2, <1>3, <1>4 DEF Step
<1> QED
  BY <1>5 DEF r

LEMMA StepSelf ==
    ASSUME NEW s, Good(s)
    PROVE  Step(s, s)
BY DEF Step, Keeps, Calm

LEMMA FailFacts ==
    ASSUME NEW s, Good(s)
    PROVE  Step(s, Fail(s))
<1> DEFINE f == [s.e EXCEPT !.state = "ERROR"]
           r == [s EXCEPT !.e = f]
<1>1. /\ f \in EndpointType /\ Ended(f) /\ f.avail = s.e.avail
      /\ f.starting = s.e.starting /\ f.periodic = s.e.periodic
      /\ f.recovering = s.e.recovering /\ f.recoverTimer = s.e.recoverTimer
  BY DEF Good, Pair, EndpointType, Ended
<1>2. Fail(s) = DisconnectAll(r)
  BY DEF Fail
<1> HIDE DEF f
<1>3. Good(r) /\ Step(s, r)
  BY <1>1, EndFacts
<1> HIDE DEF r
<1>4. Step(r, DisconnectAll(r))
  BY <1>3, GoodIsSound, DisconnectAllFacts, StillStep
<1> QED
  BY <1>2, <1>3, <1>4, StepTwice

LEMMA KickFacts ==
    ASSUME NEW s, Good(s)
    PROVE  Step(s, Kick(s)) /\ Kick(s).t = s.t
<1> DEFINE yes == TRUE
           f == [s.e EXCEPT !.recovering = yes, !.recoverTimer = yes]
           r == [s EXCEPT !.e = f]
<1>1. yes \in BOOLEAN /\ yes
  OBVIOUS
<1>2. Kick(s) = IF s.e.recovering THEN s ELSE r
  BY DEF Kick
<1>3. /\ f \in EndpointType /\ f.avail = s.e.avail /\ f.state = s.e.state
      /\ f.starting = s.e.starting /\ f.periodic = s.e.periodic
      /\ f.recovering = yes /\ f.recoverTimer = yes
  <2> HIDE DEF yes
  <2> QED
    BY <1>1 DEF Good, Pair, EndpointType
<1> HIDE DEF f, yes
<1>4. ASSUME ~s.e.recovering PROVE Step(s, r) /\ r.t = s.t
  BY <1>1, <1>3, <1>4, EndFacts, ZenonT(30) DEF Ended
<1> HIDE DEF r
<1> QED
  BY <1>2, <1>4, StepSelf

LEMMA DoOpenFacts ==
    ASSUME NEW s, Good(s)
    PROVE  Step(s, DoOpen(s)) /\ DoOpen(s).t = s.t
<1> DEFINE f == [s.e EXCEPT !.active = {}, !.avail = <<>>, !.toConnect = Transports]
           r == [s EXCEPT !.e = f]
<1>1. <<>> \in Seq(Transports) /\ {} \in SUBSET Transports
  OBVIOUS
<1>2. /\ f \in EndpointType /\ f.avail = <<>> /\ f.state = s.e.state
      /\ f.starting = s.e.starting /\ f.periodic = s.e.periodic
      /\ f.recovering = s.e.recovering /\ f.recoverTimer = s.e.recoverTimer
  BY <1>1 DEF Good, Pair, EndpointType
<1>3. DoOpen(s) = Kick(r)
  BY DEF DoOpen
<1> HIDE DEF f
<1>4. Good(r) /\ Step(s, r) /\ r.t = s.t
  BY <1>2, EndFacts DEF Ended
<1> HIDE DEF r
<1>5. Step(r, Kick(r)) /\ Kick(r).t = r.t
  BY <1>4, KickFacts
<1> QED
  BY <1>3, <1>4, <1>5, StepTwice

\* A transport that is not listed may change in any way.
LEMMA FreeFacts ==
    ASSUME NEW s, Good(s), NEW k \in Transports, NEW r \in Pair,
           r.e.avail = s.e.avail, SameLife(s.e, r.e),
           ~Has(s.e.avail, k),
           \A j \in Transports \ {k} : r.t[j] = s.t[j]
    PROVE  /\ Good(r) /\ Keeps(s, r)
           /\ (s.t[k].st # "CONNECTING" => r.t[k].st # "CONNECTING") => Step(s, r)
<1>1. ASSUME One(s) PROVE One(r)
  <2>1. PICK j \in Transports : s.e.avail = <<j>> /\ CanSend(s, j)
    BY <1>1 DEF One
  <2>2. Has(<<j>>, j)
    BY HasShort, Zenon
  <2>3. j # k
    BY <2>1, <2>2, Zenon
  <2>4. CanSend(r, j)
    BY <2>1, <2>3 DEF CanSend
  <2> QED
    BY <2>1, <2>4 DEF One
<1>2. Good(r)
  BY <1>1 DEF Good, None
<1>3. Keeps(s, r)
  BY <1>2 DEF Keeps, SameLife
<1>4. ASSUME s.t[k].st # "CONNECTING" => r.t[k].st # "CONNECTING"
      PROVE  Calm(s, r)
  BY <1>4 DEF Calm, SameLife, Ended
<1> QED
  BY <1>2, <1>3, <1>4 DEF Step

\* ... and a transport that is taken off the list, too.
LEMMA DropFacts ==
    ASSUME NEW s, Good(s), NEW k \in Transports, NEW r \in Pair,
           r.e.avail = Without(s.e.avail, k),
           \A j \in Transports \ {k} : r.t[j] = s.t[j]
    PROVE  Good(r) /\ ~Has(r.e.avail, k)
<1> DEFINE a == Without(s.e.avail, k)
<1>1. CASE None(s)
  <2>1. a = <<>>
    BY <1>1, WithoutShort DEF None
  <2> HIDE DEF a
  <2> QED
    BY <2>1, HasShort, ZenonT(30) DEF Good, None, a
<1>2. CASE One(s)
  <2>1. PICK j \in Transports : s.e.avail = <<j>> /\ CanSend(s, j)
    BY <1>2 DEF One
  <2>2. a = IF j = k THEN <<>> ELSE <<j>>
    BY <2>1, WithoutShort
  <2>3. r.e.avail = a
    OBVIOUS
  <2> HIDE DEF a
  <2>4. CASE j = k
    <3>1. r.e.avail = <<>>
      BY <2>2, <2>3, <2>4
    <3> QED
      BY <3>1, HasShort, Zenon DEF Good, None
  <2>5. CASE j # k
    <3>1. r.e.avail = <<j>>
      BY <2>2, <2>3, <2>5
    <3>2. ~Has(<<j>>, k)
      BY <2>5, HasShort, Zenon
    <3>3. CanSend(r, j)
      BY <2>1, <2>5 DEF CanSend
    <3> QED
      BY <3>1, <3>2, <3>3, Zenon DEF Good, One
  <2> QED
    BY <2>4, <2>5
<1> QED
  BY <1>1, <1>2 DEF Good

\* A change of the endpoint's sets of transports.
LEMMA ActiveFacts ==
    ASSUME NEW s, Good(s), NEW A \in SUBSET Transports
    PROVE  LET r == [s EXCEPT !.e.active = A]
           IN  Good(r) /\ Step(s, r) /\ r.e = [s.e EXCEPT !.active = A] /\ r.t = s.t
<1> DEFINE f == [s.e EXCEPT !.active = A]
           r == [s EXCEPT !.e = f]
<1>1. /\ f \in EndpointType /\ f.avail = s.e.avail /\ f.state = s.e.state
      /\ f.starting = s.e.starting /\ f.periodic = s.e.periodic
      /\ f.recovering = s.e.recovering /\ f.recoverTimer = s.e.recoverTimer
  BY DEF Good, Pair, EndpointType
<1> HIDE DEF f
<1>2. Good(r) /\ Step(s, r) /\ r.e = f /\ r.t = s.t
  BY <1>1, EndFacts DEF Ended
<1> QED
  BY <1>2 DEF r, f

LEMMA ToConnectFacts ==
    ASSUME NEW s, Good(s), NEW A \in SUBSET Transports
    PROVE  LET r == [s EXCEPT !.e.toConnect = A]
           IN  Good(r) /\ Step(s, r) /\ r.e = [s.e EXCEPT !.toConnect = A] /\ r.t = s.t
<1> DEFINE f == [s.e EXCEPT !.toConnect = A]
           r == [s EXCEPT !.e = f]
<1>1. /\ f \in EndpointType /\ f.avail = s.e.avail /\ f.state = s.e.state
      /\ f.starting = s.e.starting /\ f.periodic = s.e.periodic
      /\ f.recovering = s.e.recovering /\ f.recoverTimer = s.e.recoverTimer
  BY DEF Good, Pair, EndpointType
<1> HIDE DEF f
<1>2. Good(r) /\ Step(s, r) /\ r.e = f /\ r.t = s.t
  BY <1>1, EndFacts DEF Ended
<1> QED
  BY <1>2 DEF r, f

LEMMA GoodTypes ==
    ASSUME NEW s, Good(s)
    PROVE  /\ s \in Pair /\ s.e \in EndpointType
           /\ \A k \in Transports : s.t[k] \in TransportType
           /\ s.e.active \in SUBSET Transports /\ s.e.toConnect \in SUBSET Transports
BY DEF Good, Pair, EndpointType

LEMMA DisconnectStep ==
    ASSUME NEW s, Good(s), NEW k \in Transports
    PROVE  Good(Disconnect(s, k)) /\ Step(s, Disconnect(s, k))
BY GoodIsSound, DisconnectFacts, LocalStill, StillStep

LEMMA CycleFacts ==
    ASSUME NEW s, Good(s), NEW k \in Transports, ~Has(s.e.avail, k)
    PROVE  Step(s, Cycle(s, k))
<1> DEFINE no == FALSE
           yes == TRUE
           y == [s.t[k] EXCEPT !.hooked = no]
           u == [s EXCEPT !.t[k] = y]
           d == Disconnect(u, k)
           A == d.e.active \ {k}
           c == [d EXCEPT !.e.active = A]
           f == [c.e EXCEPT !.cycling = yes, !.cycleTimer = yes]
           g == [c EXCEPT !.e = f]
<1>1. no \in BOOLEAN /\ yes \in BOOLEAN
  OBVIOUS
<1>2. \/ Cycle(s, k) = Kick(c) \/ Cycle(s, k) = c \/ Cycle(s, k) = Fail(c)
      \/ Cycle(s, k) = g
  <2>1. Cycle(s, k) =
          CASE c.e.toConnect # {}                         -> Kick(c)
            [] c.e.toConnect = {} /\ c.e.active # {}      -> c
            [] c.e.toConnect = {} /\ c.e.active = {} /\ c.e.state = "OPENING" -> Fail(c)
            [] OTHER -> IF c.e.cycling THEN c ELSE g
    BY DEF Cycle
  <2> HIDE DEF c, g
  <2> QED
    BY <2>1
<1> HIDE DEF yes, no
<1>3. y \in TransportType /\ y.st = s.t[k].st
  BY <1>1, GoodTypes DEF TransportType
<1> HIDE DEF y
<1>4. /\ u \in Pair /\ u.e = s.e /\ u.t[k] = y
      /\ \A j \in Transports \ {k} : u.t[j] = s.t[j]
  BY <1>3, PutT, GoodTypes
<1> HIDE DEF u
<1>5. Good(u) /\ Step(s, u)
  BY <1>3, <1>4, FreeFacts DEF SameLife
<1>6. Good(d) /\ Step(u, d)
  BY <1>5, DisconnectStep
<1> HIDE DEF d
<1>7. A \in SUBSET Transports
  BY <1>6, GoodTypes
<1> HIDE DEF A
<1>8. Good(c) /\ Step(d, c)
  BY <1>6, <1>7, ActiveFacts
<1> HIDE DEF c
<1>9. /\ f \in EndpointType /\ f.avail = c.e.avail /\ f.state = c.e.state
      /\ f.starting = c.e.starting /\ f.periodic = c.e.periodic
      /\ f.recovering = c.e.recovering /\ f.recoverTimer = c.e.recoverTimer
  BY <1>1, <1>8 DEF Good, Pair, EndpointType
<1> HIDE DEF f
<1>10. Step(c, g)
  BY <1>8, <1>9, EndFacts DEF Ended
<1> HIDE DEF g
<1>11. Step(c, Cycle(s, k))
  BY <1>2, <1>8, <1>10, KickFacts, FailFacts, StepSelf
<1> QED
  BY <1>5, <1>6, <1>8, <1>11, StepTwice

LEMMA LostFacts ==
    ASSUME NEW s, Good(s), NEW k \in Transports, NEW inTime
    PROVE  Step(s, Lost(s, k, inTime))
<1> DEFINE A == s.e.active \ {k}
           a == [s EXCEPT !.e.active = A]
           B == a.e.toConnect \union {k}
           b == [a EXCEPT !.e.toConnect = B]
           n == a.e.reopens + 1
           f == [a.e EXCEPT !.state = "SLEEPING", !.reopens = n]
           g == [a EXCEPT !.e = f]
           h == [a.e EXCEPT !.reopens = n]
           i == [a EXCEPT !.e = h]
<1>1. \/ Lost(s, k, inTime) = Kick(b) \/ Lost(s, k, inTime) = Kick(a)
      \/ a.e.state = "OPEN" /\ Lost(s, k, inTime) = g
      \/ Lost(s, k, inTime) = i \/ Lost(s, k, inTime) = a
  <2>1. Lost(s, k, inTime) =
          CASE a.e.active # {} -> Kick(b)
            [] a.e.active = {} /\ a.e.state = "OPENING" -> Kick(a)
            [] a.e.active = {} /\ a.e.state = "OPEN" -> g
            [] OTHER -> IF inTime THEN i ELSE a
    BY DEF Lost
  <2> HIDE DEF a, b, g, i
  <2> QED
    BY <2>1
<1>2. A \in SUBSET Transports
  BY GoodTypes
<1> HIDE DEF A
<1>3. Good(a) /\ Step(s, a)
  BY <1>2, ActiveFacts
<1> HIDE DEF a
<1>4. B \in SUBSET Transports /\ n \in Nat
  BY <1>3 DEF Good, Pair, EndpointType
<1> HIDE DEF B, n
<1>5. Good(b) /\ Step(a, b)
  BY <1>3, <1>4, ToConnectFacts
<1> HIDE DEF b
<1>6. /\ f \in EndpointType /\ f.avail = a.e.avail /\ f.state = "SLEEPING"
      /\ f.starting = a.e.starting /\ f.periodic = a.e.periodic
      /\ f.recovering = a.e.recovering /\ f.recoverTimer = a.e.recoverTimer
  BY <1>3, <1>4 DEF Good, Pair, EndpointType
<1>7. /\ h \in EndpointType /\ h.avail = a.e.avail /\ h.state = a.e.state
      /\ h.starting = a.e.starting /\ h.periodic = a.e.periodic
      /\ h.recovering = a.e.recovering /\ h.recoverTimer = a.e.recoverTimer
  BY <1>3, <1>4 DEF Good, Pair, EndpointType
<1> HIDE DEF f, h
<1>8. Step(a, i)
  BY <1>3, <1>7, EndFacts DEF Ended
<1>9. ASSUME a.e.state = "OPEN" PROVE Step(a, g)
  BY <1>3, <1>6, <1>9, EndFacts DEF Ended
<1> HIDE DEF g, i
<1>10. Step(a, Lost(s, k, inTime))
  <2>1. Step(a, Kick(b))
    BY <1>5, KickFacts, StepTwice
  <2> QED
    BY <1>1, <1>3, <1>8, <1>9, <2>1, KickFacts, StepSelf
<1> QED
  BY <1>3, <1>10, StepTwice

LEMMA InsertedShort ==
    ASSUME NEW j \in Int, NEW k \in Int
    PROVE  /\ Inserted(<<>>, k) = <<k>>
           /\ Inserted(<<j>>, k) = IF j > k THEN <<k, j>> ELSE <<j, k>>
<1> DEFINE after(seq) == {i \in DOMAIN seq : seq[i] > k}
           pos(seq) == IF after(seq) = {} THEN Len(seq) + 1
                       ELSE CHOOSE i \in after(seq) : \A l \in after(seq) : i <= l
           a == <<j>>
           z == <<>>
<1>1. /\ Len(z) = 0 /\ DOMAIN z = {}
      /\ Len(a) = 1 /\ DOMAIN a = {1} /\ a[1] = j
  OBVIOUS
<1>2. \A seq : Inserted(seq, k) =
          SubSeq(seq, 1, pos(seq) - 1) \o <<k>> \o SubSeq(seq, pos(seq), Len(seq))
  BY DEF Inserted, InsertAt
<1> HIDE DEF a, z
<1>3. pos(z) = 1
  BY <1>1
<1>4. ASSUME j > k PROVE pos(a) = 1
  <2>1. after(a) = {1}
    BY <1>1, <1>4
  <2> HIDE DEF after
  <2> QED
    BY <2>1
<1>5. ASSUME ~(j > k) PROVE pos(a) = 2
  <2>1. after(a) = {}
    BY <1>1, <1>5
  <2> HIDE DEF after
  <2> QED
    BY <1>1, <2>1
<1> HIDE DEF pos
<1>6. Inserted(z, k) = <<k>>
  <2>1. Inserted(z, k) = SubSeq(z, 1, 0) \o <<k>> \o SubSeq(z, 1, 0)
    BY <1>1, <1>2, <1>3
  <2>2. SubSeq(z, 1, 0) = <<>>
    BY Parts
  <2>3. Inserted(z, k) = <<>> \o <<k>> \o <<>>
    BY <2>1, <2>2, Zenon
  <2> QED
    BY <2>3, Parts, Zenon
<1>7. ASSUME j > k PROVE Inserted(a, k) = <<k, j>>
  <2>0. pos(a) = 1 /\ pos(a) - 1 = 0
    BY <1>4, <1>7
  <2>1. Inserted(a, k) = SubSeq(a, 1, 0) \o <<k>> \o SubSeq(a, 1, 1)
    BY <1>1, <1>2, <2>0, Zenon
  <2>2. SubSeq(a, 1, 0) = <<>> /\ SubSeq(a, 1, 1) = <<j>>
    BY Parts DEF a
  <2>3. Inserted(a, k) = <<>> \o <<k>> \o <<j>>
    BY <2>1, <2>2, Zenon
  <2>4. <<>> \o <<k>> = <<k>> /\ <<k>> \o <<j>> = <<k, j>>
    BY Parts, Zenon
  <2> QED
    BY <2>3, <2>4, Zenon
<1>8. ASSUME ~(j > k) PROVE Inserted(a, k) = <<j, k>>
  <2>0. pos(a) = 2 /\ pos(a) - 1 = 1
    BY <1>5, <1>8
  <2>1. Inserted(a, k) = SubSeq(a, 1, 1) \o <<k>> \o SubSeq(a, 2, 1)
    BY <1>1, <1>2, <2>0, Zenon
  <2>2. SubSeq(a, 1, 1) = <<j>> /\ SubSeq(a, 2, 1) = <<>>
    BY Parts DEF a
  <2>3. Inserted(a, k) = <<j>> \o <<k>> \o <<>>
    BY <2>1, <2>2, Zenon
  <2>4. <<j>> \o <<k>> = <<j, k>> /\ <<j, k>> \o <<>> = <<j, k>>
    BY Parts, Zenon
  <2> QED
    BY <2>3, <2>4, Zenon
<1> QED
  BY <1>6, <1>7, <1>8 DEF a, z

\* A transport is listed that can send and is not yet listed: of two, the less
\* preferred one is disconnected, and so is taken off.
LEMMA BecomeAvailableFacts ==
    ASSUME NEW s, Good(s), NEW k \in Transports, CanSend(s, k), ~Has(s.e.avail, k)
    PROVE  Step(s, BecomeAvailable(s, k))
<1> DEFINE list == Inserted(s.e.avail, k)
           f == [s.e EXCEPT !.avail = list]
           b == [s EXCEPT !.e = f]
           l == list[Len(list)]
           d == Disconnect(b, l)
           r == BecomeAvailable(s, k)
<1>1. r = IF Len(list) > 1 THEN d ELSE b
  BY DEF BecomeAvailable
<1>2. Transports \in SUBSET Int
  BY ClientAssumption DEF Transports
<1>3. ASSUME NEW a \in Seq(Transports), list = a
      PROVE  /\ b \in Pair /\ b.e.avail = a /\ SameLife(s.e, b.e) /\ b.t = s.t
             /\ \A j \in Transports : CanSend(s, j) <=> CanSend(b, j)
  <2>0. s \in Pair /\ s.e \in EndpointType
    BY GoodTypes
  <2> HIDE DEF list
  <2>1. f \in EndpointType /\ f.avail = a /\ SameLife(s.e, f)
    BY <1>3, <2>0 DEF EndpointType, SameLife
  <2> HIDE DEF f
  <2>2. b \in Pair /\ b.e = f /\ b.t = s.t
    BY <2>0, <2>1, PutE
  <2> HIDE DEF b
  <2> QED
    BY <2>1, <2>2 DEF CanSend
<1>4. CASE None(s)
  <2> DEFINE a == <<k>>
  <2>1. list = a
    BY <1>2, <1>4, InsertedShort DEF None
  <2>2. a \in Seq(Transports) /\ Len(a) = 1
    OBVIOUS
  <2>3. r = b
    BY <1>1, <2>1, <2>2
  <2>4. /\ b \in Pair /\ b.e.avail = a /\ SameLife(s.e, b.e) /\ b.t = s.t
        /\ CanSend(b, k)
    BY <1>3, <2>1, <2>2
  <2> HIDE DEF r, b
  <2>5. Good(b)
    BY <2>4 DEF Good, One
  <2>6. Step(s, b)
    BY <2>4, <2>5 DEF Step, Keeps, Calm, SameLife, Ended
  <2> QED
    BY <2>3, <2>6 DEF r
<1>5. CASE One(s)
  <2>1. PICK j \in Transports : s.e.avail = <<j>> /\ CanSend(s, j)
    BY <1>5 DEF One
  <2>2. j # k
    <3>1. Has(<<j>>, j)
      BY HasShort, Zenon
    <3> QED
      BY <2>1, <3>1, Zenon
  <2>3. PICK p \in Transports, q \in Transports :
            /\ p # q /\ list = <<p, q>> /\ {p, q} = {j, k}
    <3>1. list = IF j > k THEN <<k, j>> ELSE <<j, k>>
      BY <1>2, <2>1, InsertedShort
    <3> HIDE DEF list
    <3> QED
      BY <2>2, <3>1
  <2> DEFINE a == <<p, q>>
  <2>4. a \in Seq(Transports) /\ Len(a) = 2 /\ a[Len(a)] = q
    OBVIOUS
  <2>5. r = d /\ l = q
    BY <1>1, <2>3, <2>4
  <2>6. /\ b \in Pair /\ b.e.avail = a /\ SameLife(s.e, b.e) /\ b.t = s.t
        /\ CanSend(b, p) /\ CanSend(b, q)
    <3>1. CanSend(s, p) /\ CanSend(s, q)
      BY <2>1, <2>3
    <3> QED
      BY <1>3, <2>3, <2>4, <3>1
  <2> HIDE DEF b, l
  <2>7. Sound(b)
    BY <2>3, <2>6 DEF Sound, Two
  <2>8. Local(b, d, q) /\ d.t[q].st # "AVAILABLE"
    BY <2>5, <2>7, DisconnectFacts
  <2> HIDE DEF d, r
  <2>9. \A i \in Transports : Has(d.e.avail, i) => i = p \/ i = q
    <3>1. \A i : Has(<<p, q>>, i) <=> i = p \/ i = q
      BY HasShort, Zenon
    <3> QED
      BY <2>6, <2>8, <3>1, Zenon DEF Local
  <2>10. ~Two(d)
    <3>1. ASSUME NEW i \in Transports, NEW m \in Transports,
                 i # m, d.e.avail = <<i, m>>, CanSend(d, i), CanSend(d, m)
          PROVE  FALSE
      <4>1. Has(<<i, m>>, i) /\ Has(<<i, m>>, m)
        BY HasShort, Zenon
      <4>2. Has(d.e.avail, i) /\ Has(d.e.avail, m)
        BY <3>1, <4>1, Zenon
      <4>3. i = q \/ m = q
        BY <2>9, <3>1, <4>2, Zenon
      <4> QED
        BY <2>8, <3>1, <4>3, Zenon DEF CanSend
    <3> QED
      BY <3>1, Zenon DEF Two
  <2>11. Good(d)
    BY <2>8, <2>10 DEF Local, Sound, Good
  <2>12. Step(s, d)
    <3>1. Keeps(s, d)
      BY <2>6, <2>8, <2>11 DEF Keeps, Local, SameLife
    <3>2. Calm(s, d)
      BY <2>6, <2>8 DEF Calm, Local, SameLife, Ended
    <3> QED
      BY <3>1, <3>2 DEF Step
  <2> QED
    BY <2>5, <2>12 DEF r
<1> QED
  BY <1>4, <1>5 DEF Good

LEMMA LocalStep ==
    ASSUME NEW s, Good(s), NEW k \in Transports, NEW r, Local(s, r, k)
    PROVE  Good(r) /\ Step(s, r)
BY LocalStill, StillStep

LEMMA NotListed ==
    ASSUME NEW s, Good(s), NEW k \in Transports, ~CanSend(s, k)
    PROVE  ~Has(s.e.avail, k)
<1>1. CASE None(s)
  BY <1>1, HasShort, Zenon DEF None
<1>2. CASE One(s)
  <2>1. PICK j \in Transports : s.e.avail = <<j>> /\ CanSend(s, j)
    BY <1>2 DEF One
  <2>2. ~Has(<<j>>, k)
    BY <2>1, HasShort, Zenon
  <2> QED
    BY <2>1, <2>2, Zenon
<1> QED
  BY <1>1, <1>2 DEF Good

LEMMA WithoutType ==
    ASSUME NEW s, Good(s), NEW k \in Transports
    PROVE  Without(s.e.avail, k) \in Seq(Transports)
<1> DEFINE a == Without(s.e.avail, k)
<1>1. CASE None(s)
  <2>1. a = <<>>
    BY <1>1, WithoutShort DEF None
  <2> HIDE DEF a
  <2> QED
    BY <2>1 DEF a
<1>2. CASE One(s)
  <2>1. PICK j \in Transports : s.e.avail = <<j>>
    BY <1>2 DEF One
  <2>2. a = IF j = k THEN <<>> ELSE <<j>>
    BY <2>1, WithoutShort
  <2> HIDE DEF a
  <2>3. a \in Seq(Transports)
    BY <2>2
  <2> QED
    BY <2>3 DEF a
<1> QED
  BY <1>1, <1>2 DEF Good

LEMMA SendOpenFacts ==
    ASSUME NEW s, Good(s), NEW k \in Transports
    PROVE  Step(s, SendOpen(s, k))
<1> DEFINE yes == TRUE
           y == [s.t[k] EXCEPT !.owes = yes]
           o == [s EXCEPT !.t[k] = y]
<1>1. SendOpen(s, k) = IF IsWs(k) THEN o ELSE Post(o, k)
  BY DEF SendOpen
<1>2. yes \in BOOLEAN
  OBVIOUS
<1> HIDE DEF yes
<1>3. y \in TransportType /\ y.st = s.t[k].st /\ y.hooked = s.t[k].hooked
  BY <1>2, GoodTypes DEF TransportType
<1> HIDE DEF y
<1>4. Local(s, o, k)
  BY <1>3, GoodIsSound, BusyFacts
<1> HIDE DEF o
<1>5. Local(o, Post(o, k), k)
  BY <1>4, PostFacts DEF Local
<1>6. Local(s, SendOpen(s, k), k)
  BY <1>1, <1>4, <1>5, LocalTwice
<1> QED
  BY <1>6, LocalStep

LEMMA BaseDownFacts ==
    ASSUME NEW s, Good(s), NEW k \in Transports,
           NEW new \in TransportStates \ {"AVAILABLE", "CONNECTING"}
    PROVE  LET b == BaseDown(Changed(s, k, new), k)
           IN  Good(b) /\ Step(s, b) /\ ~Has(b.e.avail, k)
<1> DEFINE c == Changed(s, k, new)
           a == Without(c.e.avail, k)
           f == [c.e EXCEPT !.avail = a]
           r == [c EXCEPT !.e = f]
           g == [r.e EXCEPT !.state = "CLOSED"]
           h == [r EXCEPT !.e = g]
           b == BaseDown(c, k)
<1>1. b = IF r.e.state = "CLOSING" /\ \A j \in Transports : Down(r.t[j]) THEN h ELSE r
  BY DEF BaseDown
<1>2. /\ c \in Pair /\ c.e = s.e /\ c.t[k].st = new
      /\ \A j \in Transports \ {k} : c.t[j] = s.t[j]
  BY GoodTypes, ChangedFacts
<1> HIDE DEF c
<1>3. a = Without(s.e.avail, k) /\ a \in Seq(Transports)
  BY <1>2, WithoutType
<1> HIDE DEF a
<1>4. f \in EndpointType /\ f.avail = a /\ SameLife(s.e, f)
  BY <1>2, <1>3 DEF Pair, EndpointType, SameLife
<1> HIDE DEF f
<1>5. r \in Pair /\ r.e = f /\ r.t = c.t
  BY <1>2, <1>4, PutE
<1> HIDE DEF r
<1>6. Good(r) /\ ~Has(r.e.avail, k)
  BY <1>2, <1>3, <1>4, <1>5, DropFacts
<1>7. Step(s, r)
  <2>1. Keeps(s, r)
    BY <1>4, <1>5, <1>6 DEF Keeps, SameLife
  <2>2. Calm(s, r)
    BY <1>2, <1>4, <1>5 DEF Calm, SameLife, Ended
  <2> QED
    BY <2>1, <2>2 DEF Step
<1>8. /\ g \in EndpointType /\ g.avail = r.e.avail /\ g.state = "CLOSED"
      /\ g.starting = r.e.starting /\ g.periodic = r.e.periodic
      /\ g.recovering = r.e.recovering /\ g.recoverTimer = r.e.recoverTimer
  BY <1>6, GoodTypes DEF EndpointType
<1> HIDE DEF g
<1>9. Good(h) /\ Step(r, h) /\ h.e.avail = r.e.avail
  BY <1>6, <1>8, EndFacts DEF Ended
<1> HIDE DEF h
<1>10. Good(b) /\ Step(s, b) /\ ~Has(b.e.avail, k)
  <2>1. Step(s, h) /\ ~Has(h.e.avail, k)
    BY <1>6, <1>7, <1>9, StepTwice
  <2> HIDE DEF b
  <2>2. b = h \/ b = r
    BY <1>1
  <2> QED
    BY <1>6, <1>7, <1>9, <2>1, <2>2
<1> QED
  BY <1>10 DEF b, c

\* No change of state but to CONNECTING breaks anything, whatever the endpoint
\* does about it.
LEMMA SetStateFacts ==
    ASSUME NEW s, Good(s), NEW k \in Transports,
           NEW new \in TransportStates \ {"CONNECTING"}, NEW inTime
    PROVE  Good(SetState(s, k, new, inTime)) /\ Step(s, SetState(s, k, new, inTime))
<1> DEFINE old == s.t[k].st
           c == Changed(s, k, new)
           q == Quiet(s, k, new)
           b == BaseDown(c, k)
           A == q.e.active \ {k}
           B == b.e.active \ {k}
           p == [q EXCEPT !.e.active = A]
           d == [b EXCEPT !.e.active = B]
           r == SetState(s, k, new, inTime)
<1>1. r = CASE new = old -> c
            [] new # old /\ ~c.t[k].hooked -> c
            [] new # old /\ c.t[k].hooked /\ new = "AVAILABLE" -> BecomeAvailable(c, k)
            [] new # old /\ c.t[k].hooked /\ new = "CONNECTED" ->
                  CASE Ended(q.e) -> q
                    [] ~Ended(q.e) /\ old = "CONNECTING" -> SendOpen(q, k)
                    [] ~Ended(q.e) /\ old = "DISCONNECTING" -> p
                    [] OTHER -> q
            [] OTHER ->
                  CASE Ended(b.e) -> b
                    [] ~Ended(b.e) /\ old \in {"AVAILABLE", "UNAVAILABLE", "CONNECTED"} ->
                          Lost(b, k, inTime)
                    [] ~Ended(b.e) /\ old = "CONNECTING" -> Cycle(d, k)
                    [] OTHER -> d
  BY Zenon DEF SetState
<1>2. /\ c \in Pair /\ c.e = s.e /\ c.t[k].st = new /\ c.t[k].hooked = s.t[k].hooked
      /\ \A j \in Transports \ {k} : c.t[j] = s.t[j]
  BY GoodTypes, ChangedFacts
<1>3. ASSUME new \in TransportStates \ {"AVAILABLE", "CONNECTING"}
      PROVE  Good(b) /\ Step(s, b) /\ ~Has(b.e.avail, k)
  BY <1>3, BaseDownFacts
<1>4. ASSUME new \in TransportStates \ {"AVAILABLE", "CONNECTING"}
      PROVE  Good(q) /\ Step(s, q)
  <2>1. Local(s, q, k)
    BY <1>4, GoodIsSound, QuietFacts
  <2> HIDE DEF q
  <2> QED
    BY <2>1, LocalStep
<1> HIDE DEF c, q, b, r
<1>5. CASE new = old
  <2>1. r = c
    BY <1>1, <1>5
  <2>2. \A j \in Transports : c.t[j].st = s.t[j].st /\ c.t[j].hooked = s.t[j].hooked
    BY <1>2, <1>5
  <2>3. Good(c)
    BY <1>2, <2>2 DEF Good, None, One, CanSend
  <2>4. Step(s, c)
    BY <1>2, <2>2, <2>3 DEF Step, Keeps, Calm
  <2> QED
    BY <2>1, <2>3, <2>4 DEF r
<1>6. ASSUME new # old, ~c.t[k].hooked \/ new = "AVAILABLE"
      PROVE  Good(c) /\ Step(s, c) /\ ~Has(s.e.avail, k)
  <2>1. ~CanSend(s, k)
    BY <1>2, <1>6 DEF CanSend
  <2>2. ~Has(s.e.avail, k)
    BY <2>1, NotListed
  <2>3. new # "CONNECTING"
    OBVIOUS
  <2> QED
    BY <1>2, <2>2, <2>3, FreeFacts DEF SameLife
<1>7. CASE new # old /\ ~c.t[k].hooked
  <2>1. r = c
    BY <1>1, <1>7
  <2> QED
    BY <1>6, <1>7, <2>1 DEF r
<1>8. CASE new # old /\ c.t[k].hooked /\ new = "AVAILABLE"
  <2>1. r = BecomeAvailable(c, k)
    BY <1>1, <1>8
  <2>2. Good(c) /\ Step(s, c) /\ ~Has(c.e.avail, k) /\ CanSend(c, k)
    BY <1>2, <1>6, <1>8 DEF CanSend
  <2>3. Step(c, BecomeAvailable(c, k))
    BY <2>2, BecomeAvailableFacts
  <2>4. Step(s, r)
    BY <2>1, <2>2, <2>3, StepTwice
  <2> QED
    BY <2>4, StepIsGood DEF r
<1>9. CASE new # old /\ c.t[k].hooked /\ new = "CONNECTED"
  <2>1. r = q \/ r = SendOpen(q, k) \/ r = p
    BY <1>1, <1>9
  <2>2. Good(q) /\ Step(s, q)
    BY <1>4, <1>9
  <2>3. A \in SUBSET Transports
    BY <2>2, GoodTypes
  <2> HIDE DEF A
  <2>4. Step(q, p)
    BY <2>2, <2>3, ActiveFacts
  <2> HIDE DEF p
  <2>5. Step(q, r)
    BY <2>1, <2>2, <2>4, SendOpenFacts, StepSelf
  <2>6. Step(s, r)
    BY <2>2, <2>5, StepTwice
  <2> QED
    BY <2>6, StepIsGood DEF r
<1>10. CASE new # old /\ c.t[k].hooked /\ new \notin {"AVAILABLE", "CONNECTED"}
  <2>1. r = b \/ r = Lost(b, k, inTime) \/ r = Cycle(d, k) \/ r = d
    BY <1>1, <1>10
  <2>2. Good(b) /\ Step(s, b) /\ ~Has(b.e.avail, k)
    BY <1>3, <1>10
  <2>3. B \in SUBSET Transports
    BY <2>2, GoodTypes
  <2> HIDE DEF B
  <2>4. Good(d) /\ Step(b, d) /\ d.e = [b.e EXCEPT !.active = B]
    BY <2>2, <2>3, ActiveFacts
  <2>5. d.e.avail = b.e.avail
    BY <2>2, <2>4, GoodTypes DEF EndpointType
  <2> HIDE DEF d
  <2>6. Step(d, Cycle(d, k))
    BY <2>2, <2>4, <2>5, CycleFacts
  <2>7. Step(b, Cycle(d, k))
    BY <2>4, <2>6, StepTwice
  <2>8. Step(b, Lost(b, k, inTime))
    BY <2>2, LostFacts
  <2>9. Step(b, r)
    BY <2>1, <2>2, <2>4, <2>7, <2>8, StepSelf
  <2>10. Step(s, r)
    BY <2>2, <2>9, StepTwice
  <2> QED
    BY <2>10, StepIsGood DEF r
<1> QED
  BY <1>5, <1>7, <1>8, <1>9, <1>10

LEMMA OnEndFacts ==
    ASSUME NEW s, Good(s)
    PROVE  Good(OnEnd(s)) /\ Step(s, OnEnd(s)) /\ Ended(OnEnd(s).e)
<1> DEFINE d == DisconnectAll(s)
           f == [d.e EXCEPT !.state = "CLOSED"]
           a == [d EXCEPT !.e = f]
           yes == TRUE
           g == [s.e EXCEPT !.state = "CLOSING", !.endQueued = yes]
           b == [s EXCEPT !.e = g]
<1>1. OnEnd(s) = IF s.e.state = "CLOSING" THEN a ELSE b
  BY DEF OnEnd
<1>2. yes \in BOOLEAN
  OBVIOUS
<1> HIDE DEF yes
<1>3. Good(d) /\ Step(s, d)
  BY GoodIsSound, DisconnectAllFacts, StillStep
<1> HIDE DEF d
<1>4. /\ f \in EndpointType /\ f.avail = d.e.avail /\ Ended(f)
      /\ f.starting = d.e.starting /\ f.periodic = d.e.periodic
      /\ f.recovering = d.e.recovering /\ f.recoverTimer = d.e.recoverTimer
  BY <1>3, GoodTypes DEF EndpointType, Ended
<1>5. /\ g \in EndpointType /\ g.avail = s.e.avail /\ Ended(g)
      /\ g.starting = s.e.starting /\ g.periodic = s.e.periodic
      /\ g.recovering = s.e.recovering /\ g.recoverTimer = s.e.recoverTimer
  BY <1>2, GoodTypes DEF EndpointType, Ended
<1> HIDE DEF f, g
<1>6. Good(a) /\ Step(d, a) /\ Ended(a.e)
  BY <1>3, <1>4, EndFacts
<1>7. Good(b) /\ Step(s, b) /\ Ended(b.e)
  BY <1>5, EndFacts
<1> HIDE DEF a, b
<1>8. Step(s, a)
  BY <1>3, <1>6, StepTwice
<1> QED
  BY <1>1, <1>6, <1>7, <1>8

LEMMA OnOpenedFacts ==
    ASSUME NEW s, Good(s), NEW withConfig \in BOOLEAN
    PROVE  Step(s, OnOpened(s, withConfig))
<1> DEFINE f == [s.e EXCEPT !.state = "OPEN"]
           g == [s EXCEPT !.e = f]
           o == IF Ended(s.e) THEN s ELSE g
           A == o.e.toConnect \union (Transports \ o.e.active)
           p == [o EXCEPT !.e.toConnect = A]
<1>1. OnOpened(s, withConfig) = IF withConfig THEN Kick(p) ELSE o
  BY Zenon DEF OnOpened
<1>2. /\ f \in EndpointType /\ f.avail = s.e.avail
      /\ f.starting = s.e.starting /\ f.periodic = s.e.periodic
      /\ f.recovering = s.e.recovering /\ f.recoverTimer = s.e.recoverTimer
  BY GoodTypes DEF EndpointType
<1> HIDE DEF f
<1>3. ASSUME ~Ended(s.e) PROVE Good(g) /\ Step(s, g)
  BY <1>2, <1>3, EndFacts
<1> HIDE DEF g
<1>4. Good(o) /\ Step(s, o)
  BY <1>3, StepSelf
<1> HIDE DEF o
<1>5. A \in SUBSET Transports
  BY <1>4, GoodTypes
<1> HIDE DEF A
<1>6. Good(p) /\ Step(o, p)
  BY <1>4, <1>5, ToConnectFacts
<1> HIDE DEF p
<1>7. Step(p, Kick(p))
  BY <1>6, KickFacts
<1>8. Step(s, Kick(p))
  BY <1>4, <1>6, <1>7, StepTwice
<1> QED
  BY <1>1, <1>4, <1>8

LEMMA KeepsTwice ==
    ASSUME NEW s, NEW r, NEW q, Keeps(s, r), Keeps(r, q)
    PROVE  Keeps(s, q)
BY DEF Keeps

LEMMA ConnectFacts ==
    ASSUME NEW s, Good(s), NEW k \in Transports, NEW throws \in BOOLEAN
    PROVE  Keeps(s, Connect(s, k, throws))
<1> DEFINE w == s.t[k]
           no == FALSE
           yes == TRUE
           n == IF w.sock \in {"opening", "open"} THEN w.stray + 1 ELSE w.stray
           m == IF w.polls > 0 THEN w.polls - 1 ELSE 0
           x == [w EXCEPT !.st = "DISCONNECTED", !.hooked = yes, !.owes = no, !.stray = n,
                          !.sock = "none", !.buffered = no, !.polls = m]
           A == s.e.active \union {k}
           f == [s.e EXCEPT !.active = A]
           i == [[s EXCEPT !.e = f] EXCEPT !.t[k] = x]
           z == Changed(i, k, "CONNECTING")
           a == Without(z.e.avail, k)
           g == [z.e EXCEPT !.avail = a]
           c == [z EXCEPT !.e = g]
           B == c.e.active \ {k}
           p == [c EXCEPT !.e.active = B]
           y == [c.t[k] EXCEPT !.sock = "opening"]
           o == [c EXCEPT !.t[k] = y]
           l == c.t[k].gets + 1
           v == [c.t[k] EXCEPT !.gets = l]
           u == [c EXCEPT !.t[k] = v]
           r == Connect(s, k, throws)
<1>1. /\ no \in BOOLEAN /\ yes \in BOOLEAN /\ yes = TRUE /\ n \in Nat /\ m \in Nat
      /\ w \in TransportType /\ A \in SUBSET Transports
  <2>1. w \in TransportType
    BY GoodTypes
  <2> HIDE DEF w
  <2> QED
    BY <2>1, GoodTypes DEF TransportType
<1>2. i = [s EXCEPT !.e.active = A, !.t[k] = x]
  OBVIOUS
<1>3. i.t[k].hooked => \/ r = p \/ r = SetState(c, k, "ERROR", TRUE)
                       \/ r = o \/ r = u
  <2>1. Quiet(i, k, "CONNECTING") = IF i.t[k].hooked THEN c ELSE z
    BY DEF Quiet
  <2>2. r = LET q == Quiet(i, k, "CONNECTING")
            IN  CASE throws /\ IsWs(k)   -> [q EXCEPT !.e.active = q.e.active \ {k}]
                  [] throws /\ ~IsWs(k)  -> SetState(q, k, "ERROR", TRUE)
                  [] ~throws /\ IsWs(k)  -> [q EXCEPT !.t[k].sock = "opening"]
                  [] ~throws /\ ~IsWs(k) -> [q EXCEPT !.t[k].gets = q.t[k].gets + 1]
    BY Zenon DEF Connect
  <2> HIDE DEF i, z, c, r
  <2> QED
    BY <2>1, <2>2
<1> HIDE DEF no, yes, n, m, w, A, r
<1>4. x \in TransportType /\ x.hooked
  <2> DEFINE off == "DISCONNECTED"
             x1 == [w EXCEPT !.st = off, !.hooked = yes, !.owes = no]
             x2 == [x1 EXCEPT !.stray = n, !.sock = "none", !.buffered = no, !.polls = m]
  <2>1. off \in TransportStates /\ x = x2
    BY DEF TransportStates
  <2> HIDE DEF off, x
  <2>2. x1 \in TransportType /\ x1.hooked = yes
    BY <1>1, <2>1 DEF TransportType
  <2> HIDE DEF x1
  <2>3. x2 \in TransportType /\ x2.hooked = x1.hooked
    BY <1>1, <2>2 DEF TransportType
  <2> QED
    BY <1>1, <2>1, <2>2, <2>3
<1>5. f \in EndpointType /\ f.avail = s.e.avail /\ SameLife(s.e, f)
  BY <1>1, GoodTypes DEF EndpointType, SameLife
<1> HIDE DEF x, f
<1>6. /\ i \in Pair /\ i.e = f /\ i.t[k] = x
      /\ \A j \in Transports \ {k} : i.t[j] = s.t[j]
  <2> DEFINE h == [s EXCEPT !.e = f]
  <2>1. h \in Pair /\ h.e = f /\ h.t = s.t
    BY <1>5, PutE, GoodTypes
  <2> HIDE DEF h
  <2>2. LET q == [h EXCEPT !.t[k] = x]
        IN  /\ q \in Pair /\ q.e = h.e /\ q.t[k] = x
            /\ \A j \in Transports \ {k} : q.t[j] = h.t[j]
    BY <1>4, <2>1, PutT
  <2> QED
    BY <2>1, <2>2 DEF h
<1> HIDE DEF i
<1>7. /\ z \in Pair /\ z.e = f
      /\ \A j \in Transports \ {k} : z.t[j] = s.t[j]
  <2>1. "CONNECTING" \in TransportStates
    BY DEF TransportStates
  <2> QED
    BY <1>6, <2>1, ChangedFacts
<1> HIDE DEF z
<1>8. a = Without(s.e.avail, k) /\ a \in Seq(Transports)
  BY <1>5, <1>7, WithoutType
<1> HIDE DEF a
<1>9. g \in EndpointType /\ g.avail = a /\ SameLife(s.e, g)
  BY <1>5, <1>7, <1>8 DEF EndpointType, SameLife
<1> HIDE DEF g
<1>10. c \in Pair /\ c.e = g /\ c.t = z.t
  BY <1>7, <1>9, PutE
<1> HIDE DEF c
<1>11. Good(c) /\ Keeps(s, c)
  <2>1. Good(c)
    BY <1>7, <1>8, <1>9, <1>10, DropFacts
  <2> QED
    BY <1>9, <1>10, <2>1 DEF Keeps, SameLife
<1>12. B \in SUBSET Transports /\ c.t[k] \in TransportType /\ Sound(c)
  BY <1>11, GoodTypes, GoodIsSound
<1> HIDE DEF B
<1>13. Step(c, p)
  BY <1>11, <1>12, ActiveFacts
<1>14. Step(c, SetState(c, k, "ERROR", TRUE))
  <2>1. "ERROR" \in TransportStates \ {"CONNECTING"}
    BY DEF TransportStates
  <2> QED
    BY <1>11, <2>1, SetStateFacts
<1>15. y \in TransportType /\ y.st = c.t[k].st /\ y.hooked = c.t[k].hooked
  BY <1>12 DEF TransportType
<1>16. l \in Nat
  BY <1>12 DEF TransportType
<1> HIDE DEF l
<1>17. v \in TransportType /\ v.st = c.t[k].st /\ v.hooked = c.t[k].hooked
  BY <1>12, <1>16 DEF TransportType
<1> HIDE DEF y, v
<1>18. Step(c, o) /\ Step(c, u)
  BY <1>11, <1>12, <1>15, <1>17, BusyFacts, LocalStep
<1> HIDE DEF p, o, u
<1>19. Step(c, r)
  BY <1>3, <1>4, <1>6, <1>13, <1>14, <1>18
<1>20. Keeps(s, r)
  BY <1>11, <1>19, KeepsTwice DEF Step
<1> QED
  BY <1>20 DEF r

LEMMA ConnectAllFacts ==
    ASSUME NEW s, Good(s), NEW throwing \in SUBSET Transports, s.e.recovering
    PROVE  LET r == ConnectAll(s, throwing)
           IN  /\ Good(r) /\ r.e.recovering = FALSE /\ r.e.recoverTimer = s.e.recoverTimer
               /\ r.e.starting = s.e.starting /\ r.e.periodic = s.e.periodic
<1> DEFINE n == Len(Kind)
<1>1. PICK f : /\ Runs(f, FALSE, throwing, s, n)
               /\ ConnectAll(s, throwing) = [f[n] EXCEPT !.e.recovering = FALSE]
  BY ConnectAllRuns
<1>2. n \in Nat /\ Transports = 1..n
  BY ClientAssumption DEF Transports
<1> HIDE DEF n
<1>3. f[0] = s /\ \A k \in 1..n : f[k] = Round(FALSE, throwing, s, f[k - 1], k)
  <2>1. f = [k \in 0..n |-> IF k = 0 THEN s ELSE Round(FALSE, throwing, s, f[k - 1], k)]
    BY <1>1, Zenon DEF Runs
  <2>2. 0 \in 0..n /\ \A k \in 1..n : k \in 0..n /\ k # 0
    BY <1>2
  <2> QED
    BY <2>1, <2>2, Zenon
<1>4. ASSUME NEW k \in Transports, NEW r, Keeps(s, r)
      PROVE  Keeps(s, Round(FALSE, throwing, s, r, k))
  <2> DEFINE B == r.e.toConnect \ {k}
             q == [r EXCEPT !.e.toConnect = B]
             yes == k \in throwing
             v == Round(FALSE, throwing, s, r, k)
  <2>1. v = r \/ v = Connect(q, k, yes)
    BY DEF Round
  <2>2. Good(r)
    BY <1>4 DEF Keeps
  <2>3. B \in SUBSET Transports /\ yes \in BOOLEAN
    BY <2>2, GoodTypes
  <2> HIDE DEF B, yes, v
  <2>4. Good(q) /\ Keeps(r, q)
    BY <2>2, <2>3, ToConnectFacts DEF Step
  <2> HIDE DEF q
  <2>5. Keeps(q, Connect(q, k, yes))
    BY <2>3, <2>4, ConnectFacts
  <2>6. Keeps(s, Connect(q, k, yes))
    BY <1>4, <2>4, <2>5, KeepsTwice
  <2>7. Keeps(s, v)
    BY <1>4, <2>1, <2>6
  <2> QED
    BY <2>7 DEF v
<1> DEFINE S == {k \in 0..n : ~Keeps(s, f[k])}
<1>5. Keeps(s, f[n])
  <2>1. CASE S = {}
    BY <1>2, <2>1
  <2>2. CASE S # {}
    <3>1. PICK k \in S : \A j \in S : k <= j
      <4>1. S \in SUBSET Nat
        OBVIOUS
      <4> HIDE DEF S
      <4> QED
        BY <2>2, <4>1, FirstExists
    <3>2. k # 0
      BY <1>3, <3>1, StepSelf DEF Step
    <3>3. k \in 1..n /\ k - 1 \in 0..n /\ k - 1 \notin S
      BY <1>2, <3>1, <3>2
    <3>4. Keeps(s, f[k - 1])
      BY <3>3
    <3>5. Keeps(s, f[k])
      BY <1>2, <1>3, <1>4, <3>3, <3>4
    <3> QED
      BY <3>1, <3>5
  <2> QED
    BY <2>1, <2>2
<1> DEFINE z == f[n]
           no == FALSE
           g == [z.e EXCEPT !.recovering = no]
           r == [z EXCEPT !.e = g]
<1>6. ConnectAll(s, throwing) = r /\ no \in BOOLEAN /\ no = FALSE /\ Keeps(s, z)
  BY <1>1, <1>5
<1> HIDE DEF z, no
<1>7. /\ g \in EndpointType /\ g.avail = z.e.avail /\ g.recovering = no
      /\ g.recoverTimer = z.e.recoverTimer /\ g.starting = z.e.starting
      /\ g.periodic = z.e.periodic
  BY <1>6, GoodTypes, SMTT(60) DEF EndpointType, Keeps
<1> HIDE DEF g
<1>8. r \in Pair /\ r.e = g /\ r.t = z.t
  BY <1>6, <1>7, GoodTypes, PutE DEF Keeps
<1> HIDE DEF r
<1>9. Good(r)
  BY <1>6, <1>7, <1>8 DEF Keeps, Good, None, One, CanSend
<1> QED
  BY <1>6, <1>7, <1>8, <1>9 DEF Keeps

LEMMA BusyStep ==
    ASSUME NEW s, Good(s), NEW k \in Transports, NEW y \in TransportType,
           y.st = s.t[k].st, y.hooked = s.t[k].hooked
    PROVE  LET r == [s EXCEPT !.t[k] = y]
           IN  Good(r) /\ Step(s, r) /\ r.e = s.e /\ r.t[k] = y
BY GoodIsSound, BusyFacts, LocalStep

-----------------------------------------------------------------------------
\* The inductive invariant: the list is as it is between two events, the flags of
\* the recovery agree with its timers, and before the timer of the constructor has
\* fired nothing has happened.
ListIsGood == Good(Now) /\ faults \in 0..MaxFaults

TimersAgree ==
    /\ endpoint.recoverTimer => endpoint.recovering
    /\ CanRecover

NotBegun ==
    endpoint.starting =>
        /\ endpoint = NewEndpoint
        /\ transport = [k \in Transports |-> NewTransport]

LifeInv == ListIsGood /\ TimersAgree /\ NotBegun

\* What EndedIsFinal says of a step.
StaysEnded ==
    Ended(endpoint) /\ ~endpoint.starting =>
        /\ Ended(endpoint')
        /\ \A k \in Transports :
              transport[k].st # "CONNECTING" => transport'[k].st # "CONNECTING"

\* A step of a connection that has begun which keeps the flags of the recovery.
Moved ==
    /\ ~endpoint.starting /\ faults' \in 0..MaxFaults
    /\ \E r : Step(Now, r) /\ Apply(r)

LEMMA NowFacts ==
    /\ Now.e = endpoint /\ Now.t = transport
    /\ \A r \in Pair : Apply(r) => Now' = r
<1>1. Now.e = endpoint /\ Now.t = transport
  BY DEF Now
<1>2. ASSUME NEW r \in Pair, Apply(r) PROVE Now' = r
  <2>1. r = [e |-> r.e, t |-> r.t]
    BY DEF Pair
  <2>2. Now' = [e |-> endpoint', t |-> transport']
    BY DEF Now
  <2>3. endpoint' = r.e /\ transport' = r.t
    BY <1>2 DEF Apply
  <2> QED
    BY <2>1, <2>2, <2>3, Zenon
<1> QED
  BY <1>1, <1>2

LEMMA MovedKeeps ==
    ASSUME LifeInv, Moved
    PROVE  LifeInv' /\ StaysEnded
<1>1. PICK r : Step(Now, r) /\ Apply(r)
  BY DEF Moved
<1>2. Good(r) /\ r \in Pair
  BY <1>1, StepIsGood DEF Good
<1>3. Now' = r /\ endpoint' = r.e /\ transport' = r.t /\ Now.e = endpoint /\ Now.t = transport
  BY <1>1, <1>2, NowFacts DEF Apply
<1>4. Keeps(Now, r) /\ Calm(Now, r)
  BY <1>1 DEF Step
<1>5. ListIsGood'
  BY <1>2, <1>3 DEF ListIsGood, Moved
<1>6. TimersAgree'
  BY <1>3, <1>4 DEF LifeInv, TimersAgree, CanRecover, Keeps, Calm
<1>7. NotBegun'
  BY <1>3, <1>4 DEF NotBegun, Moved, Keeps
<1>8. StaysEnded
  BY <1>3, <1>4 DEF StaysEnded, Calm
<1> QED
  BY <1>5, <1>6, <1>7, <1>8 DEF LifeInv

LEMMA BegunFacts ==
    ASSUME LifeInv, endpoint.starting
    PROVE  /\ ~endpoint.recoverTimer /\ endpoint.reopens = 0 /\ ~endpoint.cycleTimer
           /\ ~endpoint.periodic /\ ~endpoint.endQueued /\ endpoint.state = "CLOSED"
           /\ endpoint.avail = <<>>
           /\ \A k \in Transports :
                 LET x == transport[k]
                 IN  /\ x.st = "DISCONNECTED" /\ x.sock = "none" /\ x.stray = 0 /\ x.gets = 0
                     /\ x.polls = 0 /\ x.posts = 0 /\ x.flushes = 0 /\ ~x.quit /\ ~x.owes
BY DEF LifeInv, NotBegun, NewEndpoint, NewTransport

LEMMA FaultFacts ==
    ASSUME LifeInv
    PROVE  /\ Sane => faults' \in 0..MaxFaults
           /\ \A n \in Nat : Fault(n) => faults' \in 0..MaxFaults
BY ClientAssumption DEF LifeInv, ListIsGood, Sane, Fault

LEMMA TransportFacts ==
    ASSUME LifeInv, NEW k \in Transports
    PROVE  /\ Good(Now) /\ Now.t[k] = transport[k] /\ transport[k] \in TransportType
           /\ Now.e = endpoint /\ Now.t = transport /\ endpoint \in EndpointType
BY NowFacts, GoodTypes DEF LifeInv, ListIsGood

LEMMA DownStates ==
    /\ "ERROR" \in TransportStates \ {"CONNECTING"}
    /\ "DISCONNECTED" \in TransportStates \ {"CONNECTING"}
    /\ "CONNECTED" \in TransportStates \ {"CONNECTING"}
    /\ "AVAILABLE" \in TransportStates \ {"CONNECTING"}
BY DEF TransportStates

\* A transport that has done something changes its state.
LEMMA SetStateMoves ==
    ASSUME LifeInv, NEW k \in Transports, ~endpoint.starting, faults' \in 0..MaxFaults,
           NEW y \in TransportType,
           y.st = transport[k].st, y.hooked = transport[k].hooked,
           NEW s, s = [Now EXCEPT !.t[k] = y]
    PROVE  /\ Good(s) /\ Step(Now, s)
           /\ Apply(s) => Moved
           /\ \A new \in TransportStates \ {"CONNECTING"}, inTime \in BOOLEAN :
                 Apply(SetState(s, k, new, inTime)) => Moved
<1>1. Good(s) /\ Step(Now, s)
  BY TransportFacts, BusyStep
<1>2. Apply(s) => Moved
  BY <1>1 DEF Moved
<1>3. ASSUME NEW new \in TransportStates \ {"CONNECTING"}, NEW inTime \in BOOLEAN,
             Apply(SetState(s, k, new, inTime))
      PROVE  Moved
  <2>1. Step(s, SetState(s, k, new, inTime))
    BY <1>1, SetStateFacts
  <2>2. Step(Now, SetState(s, k, new, inTime))
    BY <1>1, <2>1, StepTwice
  <2> QED
    BY <1>3, <2>2 DEF Moved
<1> QED
  BY <1>1, <1>2, <1>3

LEMMA WsOpenMoves ==
    ASSUME LifeInv, NEW k \in Transports, WsOpen(k)
    PROVE  Moved
<1> DEFINE y == [transport[k] EXCEPT !.sock = "open"]
           s == [Now EXCEPT !.t[k] = y]
<1>1. /\ y \in TransportType /\ y.st = transport[k].st /\ y.hooked = transport[k].hooked
  BY TransportFacts DEF TransportType
<1>2. Apply(SetState(s, k, "CONNECTED", TRUE))
  BY TransportFacts DEF WsOpen
<1>3. ~endpoint.starting /\ faults' \in 0..MaxFaults
  BY BegunFacts, FaultFacts DEF WsOpen
<1> HIDE DEF y
<1> QED
  BY <1>1, <1>2, <1>3, SetStateMoves, DownStates

LEMMA WsErrorMoves ==
    ASSUME LifeInv, NEW k \in Transports, WsError(k)
    PROVE  Moved
<1> DEFINE y == [transport[k] EXCEPT !.sock = "none"]
           s == [Now EXCEPT !.t[k] = y]
<1>1. /\ y \in TransportType /\ y.st = transport[k].st /\ y.hooked = transport[k].hooked
  BY TransportFacts DEF TransportType
<1>2. \E inTime \in BOOLEAN : Apply(SetState(s, k, "ERROR", inTime))
  BY TransportFacts DEF WsError
<1>3. ~endpoint.starting /\ faults' \in 0..MaxFaults
  BY BegunFacts, FaultFacts DEF WsError
<1> HIDE DEF y
<1> QED
  BY <1>1, <1>2, <1>3, SetStateMoves, DownStates

LEMMA WsCloseMoves ==
    ASSUME LifeInv, NEW k \in Transports, WsClose(k)
    PROVE  Moved
<1> DEFINE y == [transport[k] EXCEPT !.sock = "none"]
           s == [Now EXCEPT !.t[k] = y]
<1>1. /\ y \in TransportType /\ y.st = transport[k].st /\ y.hooked = transport[k].hooked
  BY TransportFacts DEF TransportType
<1>2. Apply(s) \/ \E inTime \in BOOLEAN : Apply(SetState(s, k, "DISCONNECTED", inTime))
  BY TransportFacts DEF WsClose
<1>3. ~endpoint.starting /\ faults' \in 0..MaxFaults
  BY BegunFacts, FaultFacts DEF WsClose
<1> HIDE DEF y
<1> QED
  BY <1>1, <1>2, <1>3, SetStateMoves, DownStates

LEMMA GotUrlMoves ==
    ASSUME LifeInv, NEW k \in Transports, GotUrl(k)
    PROVE  Moved
<1> DEFINE x == transport[k]
           n == x.gets - 1
           m == x.polls + 1
           yes == TRUE
           y == [x EXCEPT !.gets = n]
           z == [x EXCEPT !.gets = n, !.running = yes, !.polls = m]
           s == [Now EXCEPT !.t[k] = y]
           g == [Now EXCEPT !.t[k] = z]
<1>1. x \in TransportType /\ x.gets > 0
  BY TransportFacts DEF GotUrl
<1>2. \/ Apply(SetState(g, k, "CONNECTED", TRUE))
      \/ \E inTime \in BOOLEAN : Apply(SetState(s, k, "ERROR", inTime))
  BY TransportFacts DEF GotUrl
<1>3. ~endpoint.starting /\ faults' \in 0..MaxFaults
  <2>1. Sane \/ Fault(1)
    BY Zenon DEF GotUrl
  <2> QED
    BY <1>1, <2>1, BegunFacts, FaultFacts
<1> HIDE DEF x
<1>4. n \in Nat /\ m \in Nat /\ yes \in BOOLEAN
  BY <1>1 DEF TransportType
<1> HIDE DEF n, m, yes
<1>5. /\ y \in TransportType /\ y.st = x.st /\ y.hooked = x.hooked
      /\ z \in TransportType /\ z.st = x.st /\ z.hooked = x.hooked
  BY <1>1, <1>4 DEF TransportType
<1> HIDE DEF y, z
<1>6. ASSUME NEW inTime \in BOOLEAN, Apply(SetState(s, k, "ERROR", inTime))
      PROVE  Moved
  BY <1>3, <1>5, <1>6, SetStateMoves, DownStates DEF x
<1>7. ASSUME Apply(SetState(g, k, "CONNECTED", TRUE))
      PROVE  Moved
  BY <1>3, <1>5, <1>7, SetStateMoves, DownStates DEF x
<1> HIDE DEF s, g
<1> QED
  BY <1>2, <1>6, <1>7

LEMMA PostedMoves ==
    ASSUME LifeInv, NEW k \in Transports, Posted(k)
    PROVE  Moved
<1> DEFINE x == transport[k]
           n == x.posts - 1
           no == FALSE
           y == [x EXCEPT !.posts = n, !.sendQueued = no]
           z == [y EXCEPT !.buffered = no]
           s == [Now EXCEPT !.t[k] = y]
           a == [Now EXCEPT !.t[k] = z]
<1>1. x \in TransportType /\ x.posts > 0
  BY TransportFacts DEF Posted
<1>2. \/ Apply(a) \/ Apply(SetState(a, k, "AVAILABLE", TRUE))
      \/ \E inTime \in BOOLEAN : Apply(SetState(s, k, "ERROR", inTime))
  BY TransportFacts DEF Posted
<1>3. ~endpoint.starting /\ faults' \in 0..MaxFaults
  <2>1. Sane \/ Fault(1)
    BY Zenon DEF Posted
  <2> QED
    BY <1>1, <2>1, BegunFacts, FaultFacts
<1> HIDE DEF x
<1>4. n \in Nat /\ no \in BOOLEAN
  BY <1>1 DEF TransportType
<1> HIDE DEF n, no
<1>5. /\ y \in TransportType /\ y.st = x.st /\ y.hooked = x.hooked
      /\ z \in TransportType /\ z.st = x.st /\ z.hooked = x.hooked
  BY <1>1, <1>4 DEF TransportType
<1> HIDE DEF y, z
<1>6. ASSUME NEW inTime \in BOOLEAN, Apply(SetState(s, k, "ERROR", inTime))
      PROVE  Moved
  BY <1>3, <1>5, <1>6, SetStateMoves, DownStates DEF x
<1>7. ASSUME Apply(a) \/ Apply(SetState(a, k, "AVAILABLE", TRUE))
      PROVE  Moved
  BY <1>3, <1>5, <1>7, SetStateMoves, DownStates DEF x
<1> HIDE DEF s, a
<1> QED
  BY <1>2, <1>6, <1>7

LEMMA FlushMoves ==
    ASSUME LifeInv, NEW k \in Transports, Flush(k)
    PROVE  Moved
<1> DEFINE x == transport[k]
           n == x.flushes - 1
           yes == TRUE
           y == [x EXCEPT !.flushes = n]
           z == [y EXCEPT !.sendQueued = yes]
           s == [Now EXCEPT !.t[k] = y]
           a == [Now EXCEPT !.t[k] = z]
<1>1. x \in TransportType /\ x.flushes > 0
  BY TransportFacts DEF Flush
<1>2. Apply(Post(s, k)) \/ Apply(a)
  BY TransportFacts DEF Flush
<1>3. ~endpoint.starting /\ faults' \in 0..MaxFaults
  BY BegunFacts, FaultFacts DEF Flush
<1> HIDE DEF x
<1>4. n \in Nat /\ yes \in BOOLEAN
  BY <1>1 DEF TransportType
<1> HIDE DEF n, yes
<1>5. /\ y \in TransportType /\ y.st = x.st /\ y.hooked = x.hooked
      /\ z \in TransportType /\ z.st = x.st /\ z.hooked = x.hooked
  BY <1>1, <1>4 DEF TransportType
<1> HIDE DEF y, z
<1>6. Good(s) /\ Step(Now, s)
  BY <1>3, <1>5, SetStateMoves DEF x
<1>7. Apply(a) => Moved
  BY <1>3, <1>5, SetStateMoves DEF x
<1>8. Step(s, Post(s, k))
  BY <1>6, GoodIsSound, PostFacts, LocalStep
<1>9. Step(Now, Post(s, k))
  BY <1>6, <1>8, StepTwice
<1> QED
  BY <1>2, <1>3, <1>7, <1>9 DEF Moved

LEMMA PolledMoves ==
    ASSUME LifeInv, NEW k \in Transports, Polled(k)
    PROVE  Moved
<1> DEFINE x == transport[k]
           n == x.polls - 1
           y == [x EXCEPT !.polls = n]
           s == [Now EXCEPT !.t[k] = y]
<1>1. x \in TransportType /\ x.polls > 0
  BY TransportFacts DEF Polled
<1>2. Apply(s) \/ \E inTime \in BOOLEAN : Apply(SetState(s, k, "ERROR", inTime))
  BY TransportFacts DEF Polled
<1>3. ~endpoint.starting /\ faults' \in 0..MaxFaults
  <2>1. Sane \/ Fault(1)
    BY Zenon DEF Polled
  <2> QED
    BY <1>1, <2>1, BegunFacts, FaultFacts
<1> HIDE DEF x
<1>4. n \in Nat
  BY <1>1 DEF TransportType
<1> HIDE DEF n
<1>5. y \in TransportType /\ y.st = x.st /\ y.hooked = x.hooked
  BY <1>1, <1>4 DEF TransportType
<1> HIDE DEF y
<1> QED
  BY <1>2, <1>3, <1>5, SetStateMoves, DownStates DEF x

LEMMA QuitMoves ==
    ASSUME LifeInv, NEW k \in Transports, Quit(k)
    PROVE  Moved
<1> DEFINE x == transport[k]
           no == FALSE
           y == [x EXCEPT !.quit = no, !.running = no]
           s == [Now EXCEPT !.t[k] = y]
<1>1. x \in TransportType /\ no \in BOOLEAN
  BY TransportFacts
<1>2. Apply(s) \/ Apply(SetState(s, k, "DISCONNECTED", TRUE))
  BY TransportFacts DEF Quit
<1>3. ~endpoint.starting /\ faults' \in 0..MaxFaults
  BY BegunFacts, FaultFacts DEF Quit
<1> HIDE DEF x, no
<1>4. y \in TransportType /\ y.st = x.st /\ y.hooked = x.hooked
  BY <1>1 DEF TransportType
<1> HIDE DEF y
<1> QED
  BY <1>2, <1>3, <1>4, SetStateMoves, DownStates DEF x

LEMMA StrayClosesMoves ==
    ASSUME LifeInv, NEW k \in Transports, StrayCloses(k)
    PROVE  Moved
<1> DEFINE x == transport[k]
           n == x.stray - 1
           y == [x EXCEPT !.stray = n]
           s == [Now EXCEPT !.t[k] = y]
<1>1. x \in TransportType /\ x.stray > 0
  BY TransportFacts DEF StrayCloses
<1>2. Apply(s)
  BY TransportFacts DEF StrayCloses
<1>3. ~endpoint.starting /\ faults' \in 0..MaxFaults
  BY BegunFacts, FaultFacts DEF StrayCloses
<1> HIDE DEF x
<1>4. n \in Nat
  BY <1>1 DEF TransportType
<1> HIDE DEF n
<1>5. y \in TransportType /\ y.st = x.st /\ y.hooked = x.hooked
  BY <1>1, <1>4 DEF TransportType
<1> HIDE DEF y
<1> QED
  BY <1>2, <1>3, <1>5, SetStateMoves DEF x

LEMMA MessageMoves ==
    ASSUME LifeInv, NEW k \in Transports, Message(k)
    PROVE  Moved
<1>1. ~endpoint.starting /\ faults' \in 0..MaxFaults
  BY BegunFacts, FaultFacts DEF Message
<1>2. Step(Now, Post(Now, k))
  BY TransportFacts, GoodIsSound, PostFacts, LocalStep
<1> QED
  BY <1>1, <1>2 DEF Moved, Message

LEMMA KeepaliveExpiredMoves ==
    ASSUME LifeInv, NEW k \in Transports, KeepaliveExpired(k)
    PROVE  Moved
<1>1. ~endpoint.starting /\ faults' \in 0..MaxFaults
  BY BegunFacts, FaultFacts DEF KeepaliveExpired
<1>2. \A inTime \in BOOLEAN : Step(Now, SetState(Now, k, "DISCONNECTED", inTime))
  BY TransportFacts, SetStateFacts, DownStates
<1> QED
  BY <1>1, <1>2 DEF Moved, KeepaliveExpired

LEMMA ConnectTimeoutMoves ==
    ASSUME LifeInv, NEW k \in Transports, ConnectTimeout(k)
    PROVE  Moved
<1> DEFINE s == SetState(Now, k, "ERROR", TRUE)
           r == InternalDisconnect(s, k)
<1>1. ~endpoint.starting /\ faults' \in 0..MaxFaults
  BY BegunFacts, FaultFacts DEF ConnectTimeout
<1>2. Apply(r)
  BY DEF ConnectTimeout
<1>3. Good(s) /\ Step(Now, s)
  BY TransportFacts, SetStateFacts, DownStates
<1> HIDE DEF s
<1>4. Step(s, r)
  BY <1>3, GoodIsSound, InternalDisconnectFacts, LocalStep
<1> QED
  BY <1>1, <1>2, <1>3, <1>4, StepTwice DEF Moved

LEMMA OpenedMoves ==
    ASSUME LifeInv, NEW k \in Transports, Opened(k)
    PROVE  Moved
<1> DEFINE x == transport[k]
           no == FALSE
           y == [x EXCEPT !.owes = no]
           s == [Now EXCEPT !.t[k] = y]
           u == SetState(s, k, "AVAILABLE", TRUE)
           a == IF x.st \in {"UNAVAILABLE", "CONNECTED"} THEN u ELSE s
<1>1. x \in TransportType /\ no \in BOOLEAN
  BY TransportFacts
<1>2. Apply(a) \/ \E withConfig \in BOOLEAN : Apply(OnOpened(a, withConfig))
  BY TransportFacts DEF Opened
<1>3. ~endpoint.starting /\ faults' \in 0..MaxFaults
  BY BegunFacts, FaultFacts DEF Opened
<1> HIDE DEF x, no
<1>4. y \in TransportType /\ y.st = x.st /\ y.hooked = x.hooked
  BY <1>1 DEF TransportType
<1> HIDE DEF y
<1>5. Good(s) /\ Step(Now, s)
  BY <1>3, <1>4, SetStateMoves DEF x
<1> HIDE DEF s
<1>6. Good(u) /\ Step(s, u)
  BY <1>5, SetStateFacts, DownStates
<1> HIDE DEF u
<1>7. Good(a) /\ Step(Now, a)
  BY <1>5, <1>6, StepTwice
<1> HIDE DEF a
<1>8. \A withConfig \in BOOLEAN : Step(Now, OnOpened(a, withConfig))
  BY <1>7, OnOpenedFacts, StepTwice
<1> QED
  BY <1>2, <1>3, <1>7, <1>8 DEF Moved

LEMMA ServerClosesMoves ==
    ASSUME LifeInv, NEW k \in Transports, ServerCloses(k)
    PROVE  Moved
<1> DEFINE d == Disconnect(Now, k)
           i == InternalDisconnect(d, k)
           r == SetState(i, k, "DISCONNECTED", TRUE)
<1>1. ~endpoint.starting /\ faults' \in 0..MaxFaults
  BY BegunFacts, FaultFacts DEF ServerCloses, Hears
<1>2. Apply(r)
  BY DEF ServerCloses
<1>3. Good(d) /\ Step(Now, d)
  BY TransportFacts, DisconnectStep
<1> HIDE DEF d
<1>4. Good(i) /\ Step(d, i)
  BY <1>3, GoodIsSound, InternalDisconnectFacts, LocalStep
<1> HIDE DEF i
<1>5. Step(i, r)
  BY <1>4, SetStateFacts, DownStates
<1> QED
  BY <1>1, <1>2, <1>3, <1>4, <1>5, StepTwice DEF Moved

LEMMA ServerEndsMoves ==
    ASSUME LifeInv, NEW k \in Transports, ServerEnds(k)
    PROVE  Moved
<1>1. ~endpoint.starting /\ faults' \in 0..MaxFaults
  BY BegunFacts, FaultFacts DEF ServerEnds, Hears
<1>2. Step(Now, OnEnd(Now)) /\ Step(Now, Fail(Now))
  BY TransportFacts, OnEndFacts, FailFacts
<1> QED
  BY <1>1, <1>2 DEF Moved, ServerEnds

-----------------------------------------------------------------------------
\* A change of the endpoint that leaves the list and the recovery alone.
SameUse(f) ==
    /\ f \in EndpointType /\ f.avail = endpoint.avail
    /\ f.starting = endpoint.starting /\ f.periodic = endpoint.periodic
    /\ f.recovering = endpoint.recovering /\ f.recoverTimer = endpoint.recoverTimer
    /\ Ended(endpoint) => Ended(f)

LEMMA SameUseFacts ==
    ASSUME LifeInv, NEW f, SameUse(f), NEW r, r = [Now EXCEPT !.e = f]
    PROVE  Good(r) /\ Step(Now, r) /\ r.e = f
<1>1. Good(Now) /\ Now.e = endpoint
  BY NowFacts DEF LifeInv, ListIsGood
<1> QED
  BY <1>1, EndFacts DEF SameUse

LEMMA ReopenMoves ==
    ASSUME LifeInv, Reopen
    PROVE  Moved
<1> DEFINE n == endpoint.reopens - 1
           f == [endpoint EXCEPT !.reopens = n]
           r == [Now EXCEPT !.e = f]
<1>1. endpoint \in EndpointType /\ endpoint.reopens > 0 /\ Now.e = endpoint
  BY NowFacts, GoodTypes DEF LifeInv, ListIsGood, Reopen
<1>2. n \in Nat
  BY <1>1 DEF EndpointType
<1>3. Apply(DoOpen(r))
  BY <1>1 DEF Reopen
<1>4. ~endpoint.starting /\ faults' \in 0..MaxFaults
  BY BegunFacts, FaultFacts DEF Reopen
<1> HIDE DEF n
<1>5. SameUse(f)
  BY <1>1, <1>2 DEF SameUse, EndpointType, Ended
<1> HIDE DEF f
<1>6. Good(r) /\ Step(Now, r)
  BY <1>5, SameUseFacts
<1> HIDE DEF r
<1> QED
  BY <1>3, <1>4, <1>6, DoOpenFacts, StepTwice DEF Moved

LEMMA CycleAgainMoves ==
    ASSUME LifeInv, CycleAgain
    PROVE  Moved
<1> DEFINE no == FALSE
           f == [endpoint EXCEPT !.cycleTimer = no]
           r == [Now EXCEPT !.e = f]
<1>1. endpoint \in EndpointType /\ Now.e = endpoint /\ no \in BOOLEAN
  BY NowFacts, GoodTypes DEF LifeInv, ListIsGood
<1>2. Apply(DoOpen(r))
  BY <1>1 DEF CycleAgain
<1>3. ~endpoint.starting /\ faults' \in 0..MaxFaults
  BY BegunFacts, FaultFacts DEF CycleAgain
<1> HIDE DEF no
<1>4. SameUse(f)
  BY <1>1 DEF SameUse, EndpointType, Ended
<1> HIDE DEF f
<1>5. Good(r) /\ Step(Now, r)
  BY <1>4, SameUseFacts
<1> HIDE DEF r
<1> QED
  BY <1>2, <1>3, <1>5, DoOpenFacts, StepTwice DEF Moved

LEMMA EndAnsweredMoves ==
    ASSUME LifeInv, EndAnswered
    PROVE  Moved
<1> DEFINE no == FALSE
           f == [endpoint EXCEPT !.endQueued = no]
           r == [Now EXCEPT !.e = f]
<1>1. endpoint \in EndpointType /\ Now.e = endpoint /\ no \in BOOLEAN
  BY NowFacts, GoodTypes DEF LifeInv, ListIsGood
<1>2. Apply(OnEnd(r))
  BY <1>1 DEF EndAnswered
<1>3. ~endpoint.starting /\ faults' \in 0..MaxFaults
  BY BegunFacts, FaultFacts DEF EndAnswered
<1> HIDE DEF no
<1>4. SameUse(f)
  BY <1>1 DEF SameUse, EndpointType, Ended
<1> HIDE DEF f
<1>5. Good(r) /\ Step(Now, r)
  BY <1>4, SameUseFacts
<1> HIDE DEF r
<1> QED
  BY <1>2, <1>3, <1>5, OnEndFacts, StepTwice DEF Moved

LEMMA CloseMoves ==
    ASSUME LifeInv, Close
    PROVE  Moved
<1> DEFINE f == [endpoint EXCEPT !.state = "CLOSING"]
           s == [Now EXCEPT !.e = f]
           d == IF endpoint.state = "SLEEPING" THEN OnEnd(s) ELSE s
           yes == TRUE
           g == [d.e EXCEPT !.state = "CLOSING", !.endQueued = yes]
           r == [d EXCEPT !.e = g]
<1>1. endpoint \in EndpointType /\ Now.e = endpoint /\ yes \in BOOLEAN
  BY NowFacts, GoodTypes DEF LifeInv, ListIsGood
<1>2. Apply(r)
  BY <1>1 DEF Close
<1>3. ~endpoint.starting /\ faults' \in 0..MaxFaults
  BY BegunFacts, FaultFacts DEF Close
<1> HIDE DEF yes
<1>4. SameUse(f)
  BY <1>1 DEF SameUse, EndpointType, Ended
<1> HIDE DEF f
<1>5. Good(s) /\ Step(Now, s)
  BY <1>4, SameUseFacts
<1> HIDE DEF s
<1>6. Good(d) /\ Step(Now, d)
  BY <1>5, OnEndFacts, StepTwice
<1> HIDE DEF d
<1>7. /\ g \in EndpointType /\ g.avail = d.e.avail /\ Ended(g)
      /\ g.starting = d.e.starting /\ g.periodic = d.e.periodic
      /\ g.recovering = d.e.recovering /\ g.recoverTimer = d.e.recoverTimer
  BY <1>1, <1>6, GoodTypes DEF EndpointType, Ended
<1> HIDE DEF g
<1>8. Step(d, r)
  BY <1>6, <1>7, EndFacts
<1> HIDE DEF r
<1> QED
  BY <1>2, <1>3, <1>6, <1>8, StepTwice DEF Moved

\* A step after which the recovery is as it should be, whatever it was before.
LEMMA Settled ==
    ASSUME NEW r, Good(r), Apply(r), faults' \in 0..MaxFaults, ~r.e.starting,
           r.e.recoverTimer => r.e.recovering,
           ~Ended(r.e) => r.e.periodic /\ r.e.recovering = r.e.recoverTimer
    PROVE  LifeInv'
<1>1. Now' = r /\ endpoint' = r.e /\ transport' = r.t
  BY NowFacts DEF Good, Apply
<1>2. ListIsGood'
  BY <1>1 DEF ListIsGood
<1>3. TimersAgree' /\ NotBegun'
  BY <1>1 DEF TimersAgree, CanRecover, NotBegun
<1> QED
  BY <1>2, <1>3 DEF LifeInv

LEMMA StartKeeps ==
    ASSUME LifeInv, Start
    PROVE  LifeInv' /\ StaysEnded
<1> DEFINE no == FALSE
           yes == TRUE
           f == [endpoint EXCEPT !.starting = no, !.state = "OPENING", !.periodic = yes]
           r == [Now EXCEPT !.e = f]
           d == DoOpen(r)
<1>1. /\ endpoint \in EndpointType /\ Now \in Pair /\ Now.e = endpoint
      /\ no \in BOOLEAN /\ no = FALSE /\ yes \in BOOLEAN /\ yes = TRUE
  BY NowFacts, GoodTypes DEF LifeInv, ListIsGood
<1>2. /\ endpoint.starting /\ endpoint.avail = <<>>
      /\ endpoint.recovering = FALSE /\ endpoint.recoverTimer = FALSE
  BY DEF LifeInv, NotBegun, NewEndpoint, Start
<1>3. Apply(d) /\ faults' \in 0..MaxFaults
  BY <1>1, FaultFacts DEF Start
<1> HIDE DEF no, yes
<1>4. /\ f \in EndpointType /\ f.avail = <<>> /\ f.starting = no /\ f.periodic = yes
      /\ f.recovering = endpoint.recovering /\ f.recoverTimer = endpoint.recoverTimer
  BY <1>1, <1>2 DEF EndpointType
<1> HIDE DEF f
<1>5. r \in Pair /\ r.e = f
  BY <1>1, <1>4, PutE
<1> HIDE DEF r
<1>6. Good(r)
  BY <1>4, <1>5 DEF Good, None
<1>7. Step(r, d)
  BY <1>6, DoOpenFacts
<1> HIDE DEF d
<1>8. /\ Good(d) /\ ~d.e.starting /\ d.e.periodic
      /\ d.e.recovering = d.e.recoverTimer /\ (d.e.recoverTimer => d.e.recovering)
  BY <1>1, <1>2, <1>4, <1>5, <1>7 DEF Step, Keeps
<1>9. LifeInv'
  BY <1>3, <1>8, Settled
<1> QED
  BY <1>2, <1>9 DEF StaysEnded

LEMMA RecoverKeeps ==
    ASSUME LifeInv, Recover
    PROVE  LifeInv' /\ StaysEnded
<1> DEFINE no == FALSE
           f == [endpoint EXCEPT !.recoverTimer = no]
           s == [Now EXCEPT !.e = f]
<1>1. /\ endpoint \in EndpointType /\ Now \in Pair /\ Now.e = endpoint
      /\ Now.t = transport /\ no \in BOOLEAN /\ no = FALSE /\ Good(Now)
  BY NowFacts, GoodTypes DEF LifeInv, ListIsGood
<1>2. /\ endpoint.recoverTimer /\ endpoint.recovering = TRUE /\ ~endpoint.starting
      /\ ~Ended(endpoint) => endpoint.periodic
  <2>1. endpoint.recoverTimer
    BY DEF Recover
  <2>2. endpoint.recovering = TRUE
    BY <1>1, <2>1 DEF LifeInv, TimersAgree, EndpointType
  <2> QED
    BY <2>1, <2>2, BegunFacts DEF LifeInv, TimersAgree, CanRecover
<1>3. \/ Ended(endpoint) /\ Apply(s) /\ Sane
      \/ /\ ~Ended(endpoint)
         /\ \E throwing \in SUBSET endpoint.toConnect :
                Fault(Cardinality(throwing)) /\ Apply(ConnectAll(s, throwing))
  BY <1>1 DEF Recover
<1> HIDE DEF no
<1>4. /\ f \in EndpointType /\ f.avail = endpoint.avail /\ f.starting = endpoint.starting
      /\ f.periodic = endpoint.periodic /\ f.recovering = endpoint.recovering
      /\ f.recoverTimer = no /\ f.state = endpoint.state /\ f.toConnect = endpoint.toConnect
  BY <1>1 DEF EndpointType
<1> HIDE DEF f
<1>5. s \in Pair /\ s.e = f /\ s.t = transport
  BY <1>1, <1>4, PutE
<1> HIDE DEF s
<1>6. Good(s)
  BY <1>1, <1>4, <1>5 DEF Good, None, One, CanSend
<1>7. CASE Ended(endpoint) /\ Apply(s) /\ Sane
  <2>1. Ended(s.e) /\ ~s.e.starting /\ ~s.e.recoverTimer
    BY <1>1, <1>2, <1>4, <1>5, <1>7 DEF Ended
  <2>2. LifeInv'
    BY <1>6, <1>7, <2>1, FaultFacts, Settled
  <2>3. StaysEnded
    BY <1>5, <1>7, <2>1 DEF StaysEnded, Apply
  <2> QED
    BY <2>2, <2>3
<1>8. CASE ~Ended(endpoint) /\ \E throwing \in SUBSET endpoint.toConnect :
                Fault(Cardinality(throwing)) /\ Apply(ConnectAll(s, throwing))
  <2>1. PICK throwing \in SUBSET endpoint.toConnect :
                Fault(Cardinality(throwing)) /\ Apply(ConnectAll(s, throwing))
    BY <1>8
  <2>2. throwing \in SUBSET Transports
    BY <1>1 DEF EndpointType
  <2>3. Cardinality(throwing) \in Nat
    <3>1. IsFiniteSet(Transports)
      BY ClientAssumption, FS_Interval DEF Transports
    <3> QED
      BY <2>2, <3>1, FS_Subset, FS_CardinalityType
  <2>4. faults' \in 0..MaxFaults
    BY <2>1, <2>3, FaultFacts
  <2> DEFINE r == ConnectAll(s, throwing)
  <2>5. /\ Good(r) /\ r.e.recovering = FALSE /\ r.e.recoverTimer = s.e.recoverTimer
        /\ r.e.starting = s.e.starting /\ r.e.periodic = s.e.periodic
    BY <1>2, <1>4, <1>5, <1>6, <2>2, ConnectAllFacts
  <2>6. Apply(r)
    BY <2>1
  <2> HIDE DEF r
  <2>7. /\ ~r.e.starting /\ r.e.periodic /\ r.e.recovering = r.e.recoverTimer
        /\ r.e.recoverTimer => r.e.recovering
    BY <1>1, <1>2, <1>4, <1>5, <1>8, <2>5
  <2>8. LifeInv'
    BY <2>4, <2>5, <2>6, <2>7, Settled
  <2> QED
    BY <1>8, <2>8 DEF StaysEnded
<1> QED
  BY <1>3, <1>7, <1>8

LEMMA PeriodicKeeps ==
    ASSUME LifeInv, Periodic
    PROVE  LifeInv' /\ StaysEnded
<1> DEFINE no == FALSE
           f == [endpoint EXCEPT !.periodic = no]
           r == [Now EXCEPT !.e = f]
           A == endpoint.toConnect \union (Transports \ endpoint.active)
           p == [Now EXCEPT !.e.toConnect = A]
<1>1. /\ endpoint \in EndpointType /\ Now \in Pair /\ Now.e = endpoint
      /\ Now.t = transport /\ no \in BOOLEAN /\ no = FALSE /\ Good(Now)
      /\ A \in SUBSET Transports
  <2>1. Good(Now) /\ Now.e = endpoint /\ Now.t = transport
    BY NowFacts DEF LifeInv, ListIsGood
  <2> QED
    BY <2>1, GoodTypes
<1>2. ~endpoint.starting /\ faults' \in 0..MaxFaults
  BY BegunFacts, FaultFacts DEF Periodic
<1>3. \/ endpoint.state \in {"CLOSING", "CLOSED"} /\ Apply(r)
      \/ Apply(Kick(p))
  BY <1>1 DEF Periodic
<1> HIDE DEF no, A
<1>4. CASE endpoint.state \in {"CLOSING", "CLOSED"} /\ Apply(r)
  <2>1. /\ f \in EndpointType /\ f.avail = endpoint.avail /\ f.starting = endpoint.starting
        /\ f.recovering = endpoint.recovering
        /\ f.recoverTimer = endpoint.recoverTimer /\ f.state = endpoint.state
    BY <1>1 DEF EndpointType
  <2> HIDE DEF f
  <2>2. r \in Pair /\ r.e = f /\ r.t = transport
    BY <1>1, <2>1, PutE
  <2>3. Apply(r)
    BY <1>4
  <2> HIDE DEF r
  <2>4. Good(r)
    BY <1>1, <2>1, <2>2 DEF Good, None, One, CanSend
  <2>5. /\ Ended(r.e) /\ ~r.e.starting
        /\ r.e.recoverTimer => r.e.recovering
    BY <1>2, <1>4, <2>1, <2>2 DEF Ended, LifeInv, TimersAgree
  <2>6. LifeInv'
    BY <1>2, <2>3, <2>4, <2>5, Settled
  <2>7. StaysEnded
    BY <2>2, <2>3, <2>5 DEF StaysEnded, Apply
  <2> QED
    BY <2>6, <2>7
<1>5. CASE Apply(Kick(p))
  <2>1. Good(p) /\ Step(Now, p)
    BY <1>1, ToConnectFacts
  <2> HIDE DEF p
  <2>2. Step(Now, Kick(p))
    BY <2>1, KickFacts, StepTwice
  <2>3. Moved
    BY <1>2, <1>5, <2>2 DEF Moved
  <2> QED
    BY <2>3, MovedKeeps
<1> QED
  BY <1>3, <1>4, <1>5

\* The invariant holds of a new connection, and every step keeps it.
THEOREM LifeInductive ==
    /\ Init => LifeInv
    /\ LifeInv /\ [Next]_vars => LifeInv' /\ StaysEnded
<1>1. ASSUME Init PROVE LifeInv
  <2>1. /\ NewEndpoint \in EndpointType /\ NewEndpoint.avail = <<>>
        /\ ~NewEndpoint.recoverTimer /\ Ended(NewEndpoint)
    BY DEF NewEndpoint, EndpointType, Ended
  <2>2. NewTransport \in TransportType
    BY DEF NewTransport, TransportType, TransportStates
  <2>3. Now.e = NewEndpoint /\ Now \in Pair
    BY <1>1, <2>1, <2>2 DEF Init, Now, Pair
  <2>4. Good(Now)
    BY <2>1, <2>3 DEF Good, None
  <2>5. ListIsGood
    BY <1>1, <2>4, ClientAssumption DEF Init, ListIsGood
  <2>6. TimersAgree
    BY <1>1, <2>1 DEF Init, TimersAgree, CanRecover
  <2>7. NotBegun
    BY <1>1 DEF Init, NotBegun
  <2> QED
    BY <2>5, <2>6, <2>7 DEF LifeInv
<1>2. ASSUME LifeInv, [Next]_vars PROVE LifeInv' /\ StaysEnded
  <2>1. CASE TimerStep
    <3>1. Reopen \/ CycleAgain \/ EndAnswered => Moved
      BY <1>2, ReopenMoves, CycleAgainMoves, EndAnsweredMoves
    <3> QED
      BY <1>2, <2>1, <3>1, StartKeeps, RecoverKeeps, MovedKeeps DEF TimerStep
  <2>2. CASE Periodic
    BY <1>2, <2>2, PeriodicKeeps
  <2>3. CASE Close
    BY <1>2, <2>3, CloseMoves, MovedKeeps
  <2>4. ASSUME NEW k \in Transports, TransportStep(k) PROVE Moved
    BY <1>2, <2>4, WsOpenMoves, WsCloseMoves, GotUrlMoves, PostedMoves, FlushMoves,
       PolledMoves, QuitMoves, OpenedMoves DEF TransportStep
  <2>5. ASSUME NEW k \in Transports, FaultStep(k) PROVE Moved
    BY <1>2, <2>5, WsErrorMoves, MessageMoves, ConnectTimeoutMoves, KeepaliveExpiredMoves,
       ServerClosesMoves, ServerEndsMoves, StrayClosesMoves DEF FaultStep
  <2>6. CASE UNCHANGED vars
    BY <1>2, <2>6 DEF vars, LifeInv, ListIsGood, TimersAgree, CanRecover, NotBegun, Now,
                      StaysEnded
  <2> QED
    BY <1>2, <2>1, <2>2, <2>3, <2>4, <2>5, <2>6, MovedKeeps DEF Next
<1> QED
  BY <1>1, <1>2

\* Every field of the endpoint and of its transports keeps its type.
THEOREM LifeTypeCorrect == Spec => []TypeOK
<1>1. LifeInv => TypeOK
  BY NowFacts DEF LifeInv, ListIsGood, TypeOK, Good, Pair
<1> QED
  BY <1>1, LifeInductive, PTL DEF Spec

\* The endpoint only ever hands a message to a transport that can send it and that
\* it listens to, and there is at most one.
THEOREM ListCorrect == Spec => []AvailableCanSend
<1>1. ASSUME LifeInv PROVE AvailableCanSend
  <2>1. Now.e = endpoint /\ Now.t = transport /\ (None(Now) \/ One(Now))
    BY <1>1, NowFacts DEF LifeInv, ListIsGood, Good
  <2>2. CASE None(Now)
    BY <2>1, <2>2 DEF None, AvailableCanSend, ToSet
  <2>3. CASE One(Now)
    BY <2>1, <2>3 DEF One, CanSend, AvailableCanSend, ToSet
  <2> QED
    BY <2>1, <2>2, <2>3
<1> QED
  BY <1>1, LifeInductive, PTL DEF Spec

\* While the endpoint lives its recovery cannot be blocked by a flag that nobody
\* will reset.
THEOREM RecoveryCorrect == Spec => []CanRecover
<1>1. LifeInv => CanRecover
  BY DEF LifeInv, TimersAgree
<1> QED
  BY <1>1, LifeInductive, PTL DEF Spec

\* An endpoint that has ended stays so, and connects nothing any more.
THEOREM EndCorrect == Spec => EndedIsFinal
<1>1. LifeInv /\ [Next]_vars =>
        [Ended(endpoint) /\ ~endpoint.starting =>
           /\ Ended(endpoint')
           /\ \A k \in Transports :
                 transport[k].st # "CONNECTING" => transport'[k].st # "CONNECTING"]_vars
  BY LifeInductive DEF StaysEnded
<1> QED
  BY <1>1, LifeInductive, PTL DEF Spec, EndedIsFinal
=============================================================================
