--------------------------- MODULE SigmaHoverProofs ---------------------------
(***************************************************************************)
(* Proofs about SigmaHover, for any number of nodes of any size at any     *)
(* place, any screen and any places of the mouse: the mouse works again    *)
(* once the button is up, and the node that is dragged was drawn under the *)
(* mouse.                                                                  *)
(***************************************************************************)
EXTENDS SigmaHover, SequenceTheorems, FiniteSetTheorems, FunctionTheorems, WellFoundedInduction, TLAPS

-----------------------------------------------------------------------------
(* Loops: functions that say what has been computed after n rounds.        *)

(* A set of numbers that is not empty has a least one. *)
LEMMA LeastExists ==
    ASSUME NEW S \in SUBSET Nat, S # {}
    PROVE  \E i \in S : \A j \in S : i <= j
<1> DEFINE R == OpToRel(<, Nat)
<1>1. IsWellFoundedOn(R, Nat)
  BY NatLessThanWellFounded
<1>2. PICK i \in S : \A j \in S : ~ (<<j, i>> \in R)
  <2> HIDE DEF R
  <2> QED
    BY <1>1, WFMin
<1>3. \A j \in S : ~ (j < i)
  BY <1>2 DEF OpToRel
<1> QED
  BY <1>3


KeepRound(x, d, n) == IF d.list[n] \in d.set THEN Append(x, d.list[n]) ELSE x

ToldRound(x, d, n) ==
    CHOOSE r \in {IF d.over THEN OverNode(v, d.list[n]) ELSE OutNode(v, d.list[n]) : v \in {x}} : TRUE

LoopRound(what, x, d, n) == CASE what = "keep" -> KeepRound(x, d, n)
                              [] what = "told" -> ToldRound(x, d, n)
                              [] what = "size" -> InsertBySize(x, d[n])

LoopRounds(f, what, first, d, n) ==
    f = [i \in 0..n |-> IF i = 0 THEN first ELSE LoopRound(what, f[i - 1], d, i)]

(* The function that a loop computes exists. *)
LEMMA RoundsExist ==
    ASSUME NEW what, NEW first, NEW d, NEW n \in Nat
    PROVE  \E f : LoopRounds(f, what, first, d, n)
<1> DEFINE Step(x, i) == LoopRound(what, x, d, i)
           S == {i \in Nat : ~ \E f : LoopRounds(f, what, first, d, i)}
<1>1. CASE S = {}
  BY <1>1
<1>2. CASE S # {}
  <2>1. PICK i \in S : \A j \in S : i <= j
    <3>1. S \in SUBSET Nat
      OBVIOUS
    <3> HIDE DEF S
    <3> QED
      BY <1>2, <3>1, LeastExists
  <2>2. CASE i = 0
    <3> DEFINE f == [j \in 0..0 |-> first]
    <3>1. f = [j \in 0..0 |-> IF j = 0 THEN first ELSE Step(f[j - 1], j)]
      <4> HIDE DEF Step
      <4> QED
        OBVIOUS
    <3> HIDE DEF f
    <3>2. LoopRounds(f, what, first, d, i)
      BY <2>2, <3>1 DEF LoopRounds
    <3> QED
      BY <2>1, <3>2, Zenon
  <2>3. CASE i > 0
    <3>1. i - 1 \in Nat /\ i - 1 \notin S
      BY <2>1, <2>3
    <3>2. PICK f : LoopRounds(f, what, first, d, i - 1)
      BY <3>1
    <3>3. f = [j \in 0..(i - 1) |-> IF j = 0 THEN first ELSE Step(f[j - 1], j)]
      BY <3>2 DEF LoopRounds
    <3> HIDE DEF Step
    <3> DEFINE last == IF i = 0 THEN first ELSE Step(f[i - 1], i)
               h == [j \in 0..i |-> IF j = i THEN last ELSE f[j]]
    <3> HIDE DEF last
    <3>4. ASSUME NEW j \in 0..i
          PROVE  h[j] = IF j = 0 THEN first ELSE Step(h[j - 1], j)
      <4>1. CASE j < i
        <5>1. j \in 0..(i - 1) /\ j # i /\ j - 1 # i
          BY <4>1
        <5>2. h[j] = f[j] /\ (j # 0 => h[j - 1] = f[j - 1])
          BY <5>1
        <5>3. f[j] = IF j = 0 THEN first ELSE Step(f[j - 1], j)
          BY <3>3, <5>1
        <5> HIDE DEF h
        <5> QED
          BY <5>2, <5>3
      <4>2. CASE j = i
        <5>1. h[j] = last /\ (j # 0 => h[j - 1] = f[j - 1])
          BY <4>2
        <5> HIDE DEF h
        <5> QED
          BY <4>2, <5>1 DEF last
      <4>3. j < i \/ j = i
        BY <2>1
      <4> QED
        BY <4>1, <4>2, <4>3, Zenon
    <3>5. h = [j \in 0..i |-> h[j]]
      OBVIOUS
    <3> HIDE DEF h
    <3>6. h = [j \in 0..i |-> IF j = 0 THEN first ELSE Step(h[j - 1], j)]
      BY <3>4, <3>5, Zenon
    <3>7. LoopRounds(h, what, first, d, i)
      BY <3>6 DEF LoopRounds, Step
    <3> QED
      BY <2>1, <3>7
  <2> QED
    BY <2>1, <2>2, <2>3
<1> QED
  BY <1>1, <1>2

(* Its values, round after round. *)
LEMMA EachRound ==
    ASSUME NEW f, NEW what, NEW first, NEW d, NEW n \in Nat, LoopRounds(f, what, first, d, n)
    PROVE  f[0] = first /\ \A i \in 1..n : f[i] = LoopRound(what, f[i - 1], d, i)
<1> DEFINE Step(x, i) == LoopRound(what, x, d, i)
<1>1. f = [i \in 0..n |-> IF i = 0 THEN first ELSE Step(f[i - 1], i)]
  BY DEF LoopRounds
<1> HIDE DEF Step
<1>2. f[0] = first /\ \A i \in 1..n : f[i] = Step(f[i - 1], i)
  BY <1>1
<1> QED
  BY <1>2 DEF Step

LEMMA RoundByRound ==
    ASSUME NEW n \in Nat, NEW G, 0 \in G, \A i \in 1..n : i - 1 \in G => i \in G
    PROVE  n \in G
<1> DEFINE S == {i \in 0..n : i \notin G}
<1>1. S = {}
  <2> SUFFICES ASSUME S # {} PROVE FALSE
    OBVIOUS
  <2>1. S \in SUBSET Nat
    OBVIOUS
  <2>2. PICK i \in S : \A j \in S : i <= j
    <3> HIDE DEF S
    <3> QED
      BY <2>1, LeastExists
  <2>3. i \in 1..n /\ i - 1 \in 0..n /\ i - 1 \notin S
    BY <2>2
  <2> QED
    BY <2>2, <2>3
<1> QED
  BY <1>1

IsSeq(q) == \E S : q \in Seq(S)

(* One more at the end of a list. *)
LEMMA PutOnTop ==
    ASSUME NEW s, IsSeq(s), NEW n
    PROVE  /\ IsSeq(Append(s, n)) /\ Range(Append(s, n)) = Range(s) \cup {n}
           /\ (/\ \A i, j \in 1..Len(s) : s[i] = s[j] => i = j
               /\ n \notin Range(s))
              => \A i, j \in 1..Len(Append(s, n)) : Append(s, n)[i] = Append(s, n)[j] => i = j
<1> DEFINE q == Append(s, n)
<1>1. PICK S : s \in Seq(S)
  BY DEF IsSeq
<1> DEFINE T == S \cup {n}
<1>2. s \in Seq(T) /\ n \in T
  BY <1>1
<1> HIDE DEF T
<1>3. /\ q \in Seq(T) /\ Len(q) = Len(s) + 1 /\ Len(s) \in Nat
      /\ DOMAIN s = 1..Len(s) /\ DOMAIN q = 1..(Len(s) + 1)
      /\ \A i \in 1..Len(s) : q[i] = s[i]
      /\ q[Len(s) + 1] = n
  BY <1>2, AppendProperties
<1> HIDE DEF q
<1>4. Range(q) = Range(s) \cup {n}
  <2>1. \A x : x \in Range(q) => x \in Range(s) \/ x = n
    BY <1>3 DEF Range
  <2>2. \A x : x \in Range(s) => x \in Range(q)
    BY <1>3 DEF Range
  <2>3. n \in Range(q)
    BY <1>3 DEF Range
  <2> QED
    BY <2>1, <2>2, <2>3
<1>5. ASSUME \A i, j \in 1..Len(s) : s[i] = s[j] => i = j, n \notin Range(s),
             NEW i \in 1..Len(q), NEW j \in 1..Len(q), q[i] = q[j]
      PROVE  i = j
  <2>1. \A k \in 1..Len(s) : s[k] # n
    BY <1>3, <1>5 DEF Range
  <2>2. (i \in 1..Len(s) \/ i = Len(s) + 1) /\ (j \in 1..Len(s) \/ j = Len(s) + 1)
    BY <1>3
  <2> QED
    BY <1>3, <1>5, <2>1, <2>2
<1>6. IsSeq(q)
  BY <1>3 DEF IsSeq
<1> QED
  BY <1>4, <1>5, <1>6 DEF q

(* What the loop over a list keeps. *)
LEMMA KeptSeq ==
    ASSUME NEW q, IsSeq(q), NEW set
    PROVE  IsSeq(Kept(q, set)) /\ Range(Kept(q, set)) = Range(q) \cap set
<1> DEFINE N == Len(q)
           d == [list |-> q, set |-> set]
           Is(f) == f = [n \in 0 .. N |-> IF n = 0 THEN <<>>
                ELSE IF q[n] \in set THEN Append(f[n - 1], q[n]) ELSE f[n - 1]]
           kept == CHOOSE f : Is(f)
           Firsts(n) == {q[i] : i \in 1..n} \cap set
<1>1. N \in Nat /\ Range(q) = {q[i] : i \in 1..N}
  BY DEF IsSeq, Range
<1>2. \A f : LoopRounds(f, "keep", <<>>, d, N) <=> Is(f)
  <2>1. \A x, n : LoopRound("keep", x, d, n) = IF q[n] \in set THEN Append(x, q[n]) ELSE x
    BY DEF LoopRound, KeepRound
  <2> HIDE DEF d
  <2> QED
    BY <2>1 DEF LoopRounds
<1>3. Kept(q, set) = kept[N]
  BY DEF Kept
<1>4. LoopRounds(kept, "keep", <<>>, d, N)
  <2>1. \E f : Is(f)
    <3> HIDE DEF Is, d
    <3> QED
      BY <1>1, <1>2, RoundsExist
  <2> HIDE DEF Is
  <2> QED
    BY <1>2, <2>1
<1> HIDE DEF kept
<1>5. /\ kept[0] = <<>>
      /\ \A i \in 1..N : kept[i] = IF q[i] \in set THEN Append(kept[i - 1], q[i]) ELSE kept[i - 1]
  <2>1. kept[0] = <<>> /\ \A i \in 1..N : kept[i] = LoopRound("keep", kept[i - 1], d, i)
    <3> HIDE DEF d
    <3> QED
      BY <1>1, <1>4, EachRound
  <2> QED
    BY <2>1 DEF LoopRound, KeepRound
<1> DEFINE G == {i \in 0..N : IsSeq(kept[i]) /\ Range(kept[i]) = Firsts(i)}
<1>6. 0 \in G
  <2>1. IsSeq(<<>>) /\ Range(<<>>) = {} /\ Firsts(0) = {}
    BY DEF IsSeq, Range
  <2> QED
    BY <1>1, <1>5, <2>1
<1>7. \A i \in 1..N : i - 1 \in G => i \in G
  <2> TAKE i \in 1..N
  <2> HAVE i - 1 \in G
  <2>1. Firsts(i) = Firsts(i - 1) \cup ({q[i]} \cap set)
    <3>1. \A k \in 1..i : k \in 1..(i - 1) \/ k = i
      BY <1>1
    <3>2. i \in 1..i /\ \A k \in 1..(i - 1) : k \in 1..i
      BY <1>1
    <3> QED
      BY <3>1, <3>2
  <2>2. IsSeq(kept[i - 1]) /\ Range(kept[i - 1]) = Firsts(i - 1) /\ i \in 0..N
    BY <1>1
  <2> HIDE DEF Firsts
  <2>3. /\ IsSeq(Append(kept[i - 1], q[i]))
        /\ Range(Append(kept[i - 1], q[i])) = Range(kept[i - 1]) \cup {q[i]}
    BY <2>2, PutOnTop
  <2>4. CASE q[i] \in set
    <3>1. kept[i] = Append(kept[i - 1], q[i])
      BY <1>5, <2>4
    <3> QED
      BY <2>1, <2>2, <2>3, <2>4, <3>1
  <2>5. CASE q[i] \notin set
    <3>1. kept[i] = kept[i - 1]
      BY <1>5, <2>5
    <3> QED
      BY <2>1, <2>2, <2>5, <3>1
  <2> QED
    BY <2>4, <2>5
<1>8. N \in G
  <2> HIDE DEF G, N
  <2> QED
    BY <1>1, <1>6, <1>7, RoundByRound
<1> QED
  BY <1>1, <1>3, <1>8

\* What says whether the mouse works and who drags, and what the captors are over:
\* the listeners to over and out leave it alone
Sight == {"place", "view", "at", "cam", "gone", "hidden"}
Inputs == {"enabled", "drags", "captor", "over", "pending"} \cup Sight

Keeps(h, r) == /\ DOMAIN r = DOMAIN h
               /\ \A f \in Inputs \cap DOMAIN h : r[f] = h[f]

LEMMA KeepsAgain ==
    ASSUME NEW h, NEW r, NEW s, Keeps(h, r), Keeps(r, s)
    PROVE  Keeps(h, s)
BY DEF Keeps

LEMMA KeepsSelf ==
    ASSUME NEW h
    PROVE  Keeps(h, h)
BY DEF Keeps

LEMMA DrawKeeps ==
    ASSUME NEW h
    PROVE  Keeps(h, Draw(h))
BY DEF Keeps, Inputs, Sight, Draw

LEMMA OverNodeKeeps ==
    ASSUME NEW h, NEW n
    PROVE  Keeps(h, OverNode(h, n))
<1>1. ASSUME NEW g
      PROVE  Keeps(g, NodeMouseOver(g, n))
  BY DEF Keeps, Inputs, Sight, NodeMouseOver
<1> DEFINE lit == [h EXCEPT !.lit = @ \cup {n}]
           drawn == IF n \in h.hidden THEN h ELSE Draw(lit)
<1>2. Keeps(h, lit)
  BY DEF Keeps, Inputs, Sight
<1>3. OverNode(h, n) = IF h.threw THEN h ELSE NodeMouseOver(drawn, n)
  BY DEF OverNode
<1> HIDE DEF lit
<1>4. Keeps(h, drawn)
  BY <1>2, DrawKeeps, KeepsAgain, KeepsSelf
<1> HIDE DEF drawn
<1> QED
  BY <1>1, <1>3, <1>4, KeepsAgain, KeepsSelf

LEMMA OutNodeKeeps ==
    ASSUME NEW h, NEW n
    PROVE  Keeps(h, OutNode(h, n))
<1>1. ASSUME NEW g
      PROVE  Keeps(g, TreatOutNode(g, n))
  <2> DEFINE at == IF Contains(g.stack, n) THEN SelectInSeq(g.stack, LAMBDA m : m = n) ELSE Len(g.stack)
             stack == IF g.stack = <<>> THEN <<>> ELSE RemoveAt(g.stack, at)
             next == stack # <<>> /\ ~g.down
  <2>1. TreatOutNode(g, n) = [g EXCEPT !.stack = stack, !.index = @ \ {n},
                  !.node = IF next THEN Last(stack) ELSE @,
                  !.listens = @ /\ next]
    BY DEF TreatOutNode
  <2> HIDE DEF stack
  <2> QED
    BY <2>1 DEF Keeps, Inputs, Sight
<1> DEFINE lit == [h EXCEPT !.lit = @ \ {n}]
<1>2. Keeps(h, lit)
  BY DEF Keeps, Inputs, Sight
<1>3. OutNode(h, n) = IF h.threw THEN h ELSE TreatOutNode(Draw(lit), n)
  BY DEF OutNode
<1> HIDE DEF lit
<1>4. Keeps(h, Draw(lit))
  BY <1>2, DrawKeeps, KeepsAgain
<1> QED
  BY <1>1, <1>3, <1>4, KeepsAgain, KeepsSelf

(* The loop over the nodes of an event. *)
LEMMA ToldRounds ==
    ASSUME NEW h, NEW over, NEW list, Len(list) \in Nat
    PROVE  \E f : /\ Told(h, over, list) = f[Len(list)]
                  /\ f[0] = h
                  /\ \A i \in 1..Len(list) : f[i] = IF over THEN OverNode(f[i - 1], list[i])
                                                            ELSE OutNode(f[i - 1], list[i])
<1> DEFINE d == [over |-> over, list |-> list]
           Is(f) == f = [i \in 0 .. Len(list) |->
                IF i = 0 THEN h
                ELSE CHOOSE r \in {IF over THEN OverNode(x, list[i]) ELSE OutNode(x, list[i]) :
                                   x \in {f[i - 1]}} : TRUE]
           after == CHOOSE f : Is(f)
<1>1. \A f : LoopRounds(f, "told", h, d, Len(list)) <=> Is(f)
  <2>1. \A x, n : LoopRound("told", x, d, n)
                  = CHOOSE r \in {IF over THEN OverNode(v, list[n]) ELSE OutNode(v, list[n]) :
                                     v \in {x}} : TRUE
    BY DEF LoopRound, ToldRound
  <2> HIDE DEF d
  <2> QED
    BY <2>1 DEF LoopRounds
<1>2. \E f : Is(f)
  <2> HIDE DEF Is, d
  <2> QED
    BY <1>1, RoundsExist
<1>3. Told(h, over, list) = after[Len(list)]
  BY DEF Told
<1>4. Is(after)
  <2> HIDE DEF Is
  <2> QED
    BY <1>2
<1> HIDE DEF after
<1>5. LoopRounds(after, "told", h, d, Len(list))
  BY <1>1, <1>4
<1>6. \A x, i : LoopRound("told", x, d, i) = IF over THEN OverNode(x, list[i]) ELSE OutNode(x, list[i])
  BY DEF LoopRound, ToldRound
<1> HIDE DEF d
<1>7. after[0] = h /\ \A i \in 1..Len(list) : after[i] = LoopRound("told", after[i - 1], d, i)
  BY <1>5, EachRound
<1>8. \A i \in 1..Len(list) : after[i] = IF over THEN OverNode(after[i - 1], list[i])
                                                 ELSE OutNode(after[i - 1], list[i])
  BY <1>6, <1>7
<1> QED
  BY <1>3, <1>7, <1>8

LEMMA ToldKeeps ==
    ASSUME NEW h, NEW over, NEW list, IsSeq(list)
    PROVE  Keeps(h, Told(h, over, list))
<1> DEFINE N == Len(list)
<1>1. N \in Nat
  BY DEF IsSeq
<1>2. PICK f : /\ Told(h, over, list) = f[N]
               /\ f[0] = h
               /\ \A i \in 1..N : f[i] = IF over THEN OverNode(f[i - 1], list[i])
                                                 ELSE OutNode(f[i - 1], list[i])
  BY <1>1, ToldRounds
<1> HIDE DEF N
<1> DEFINE G == {i \in 0..N : Keeps(h, f[i])}
<1>3. 0 \in G
  BY <1>1, <1>2, KeepsSelf
<1>4. \A i \in 1..N : i - 1 \in G => i \in G
  <2> TAKE i \in 1..N
  <2> HAVE i - 1 \in G
  <2>1. Keeps(h, f[i - 1]) /\ i \in 0..N
    BY <1>1
  <2>2. Keeps(f[i - 1], f[i])
    BY <1>2, OverNodeKeeps, OutNodeKeeps
  <2> QED
    BY <2>1, <2>2, KeepsAgain
<1>5. N \in G
  <2> HIDE DEF G
  <2> QED
    BY <1>1, <1>3, <1>4, RoundByRound
<1> QED
  BY <1>2, <1>5

\* The state has its fields, and what the captors are over is in lists.
Sound(h) == /\ Inputs \subseteq DOMAIN h
            /\ DOMAIN h.over = Captors
            /\ \A c \in Captors : IsSeq(h.over[c])

Alike(h, r) == Sound(r) /\ r.enabled = h.enabled /\ r.drags = h.drags /\ r.captor = h.captor

LEMMA KeepsIsAlike ==
    ASSUME NEW h, NEW r, Sound(h), Keeps(h, r)
    PROVE  Alike(h, r)
BY DEF Sound, Keeps, Alike, Inputs, Sight

LEMMA AlikeAgain ==
    ASSUME NEW h, NEW r, NEW s, Alike(h, r), Alike(r, s)
    PROVE  Alike(h, s)
BY DEF Alike

LEMMA JoinedSeq ==
    ASSUME NEW p, IsSeq(p), NEW q, IsSeq(q)
    PROVE  IsSeq(p \o q)
<1>1. PICK S : p \in Seq(S)
  BY DEF IsSeq
<1>2. PICK T : q \in Seq(T)
  BY DEF IsSeq
<1> DEFINE U == S \cup T
<1>3. p \in Seq(U) /\ q \in Seq(U)
  BY <1>1, <1>2
<1> HIDE DEF U
<1>4. p \o q \in Seq(U)
  BY <1>3, ConcatProperties
<1> QED
  BY <1>4 DEF IsSeq

LEMMA SingleSeq ==
    ASSUME NEW x
    PROVE  IsSeq(<<x>>)
<1>1. <<x>> \in Seq({x})
  OBVIOUS
<1> QED
  BY <1>1 DEF IsSeq

LEMMA JoinedRange ==
    ASSUME NEW p, IsSeq(p), NEW q, IsSeq(q)
    PROVE  Range(p \o q) = Range(p) \cup Range(q)
<1>1. PICK S : p \in Seq(S)
  BY DEF IsSeq
<1>2. PICK T : q \in Seq(T)
  BY DEF IsSeq
<1> DEFINE U == S \cup T
           r == p \o q
<1>3. p \in Seq(U) /\ q \in Seq(U)
  BY <1>1, <1>2
<1> HIDE DEF U
<1>4. /\ DOMAIN p = 1..Len(p) /\ DOMAIN q = 1..Len(q) /\ DOMAIN r = 1..(Len(p) + Len(q))
      /\ Len(p) \in Nat /\ Len(q) \in Nat
      /\ \A i \in 1..(Len(p) + Len(q)) : r[i] = IF i <= Len(p) THEN p[i] ELSE q[i - Len(p)]
  BY <1>3, ConcatProperties
<1> HIDE DEF r
<1>5. \A i \in 1..Len(p) : r[i] = p[i] /\ i \in DOMAIN r
  BY <1>4
<1>6. \A i \in 1..Len(q) : r[i + Len(p)] = q[i] /\ i + Len(p) \in DOMAIN r
  BY <1>4
<1>7. \A i \in DOMAIN r : i \in 1..Len(p) \/ (i - Len(p) \in 1..Len(q) /\ r[i] = q[i - Len(p)])
  BY <1>4
<1>8. \A x : x \in Range(r) <=> x \in Range(p) \/ x \in Range(q)
  <2> TAKE x
  <2>1. x \in Range(r) => x \in Range(p) \/ x \in Range(q)
    BY <1>4, <1>5, <1>7 DEF Range
  <2>2. x \in Range(p) => x \in Range(r)
    BY <1>4, <1>5 DEF Range
  <2>3. x \in Range(q) => x \in Range(r)
    <3>1. ASSUME NEW i \in DOMAIN q, x = q[i]
          PROVE  x \in Range(r)
      <4>1. r[i + Len(p)] = q[i] /\ i + Len(p) \in DOMAIN r
        BY <1>4, <1>6
      <4> QED
        BY <3>1, <4>1 DEF Range
    <3> QED
      BY <3>1 DEF Range
  <2> QED
    BY <2>1, <2>2, <2>3
<1> QED
  BY <1>8 DEF r

(* What the mouse is over is a list of nodes at whose discs it is. *)
LEMMA GetNodesFound ==
    ASSUME NEW h
    PROVE  /\ IsSeq(GetNodes(h))
           /\ \A n \in Range(GetNodes(h)) : n \in Range(Order) /\ OnDisc(h, n)
<1> DEFINE p == Plus(h.at, h.cam)
           hit == Kept(Nodes(h), {n \in Present(h) \ h.hidden :
                           /\ OnDisc(h, n)
                           /\ RetrievedAt(SquareOf(h, n), p, Bounds(h), MaxLevel)})
           Is(f) == f = [i \in 0 .. Len(hit) |->
                            IF i = 0 THEN <<>> ELSE InsertBySize(f[i - 1], hit[i])]
           sorted == CHOOSE f : Is(f)
<1>1. GetNodes(h) = IF h.at = None THEN <<>> ELSE sorted[Len(hit)]
  BY DEF GetNodes
<1>2. /\ IsSeq(hit)
      /\ \A n \in Range(hit) : n \in Range(Order) /\ OnDisc(h, n)
  <2>1. IsSeq(Order)
    BY HoverAssumption DEF IsSeq
  <2>2. IsSeq(Nodes(h)) /\ Range(Nodes(h)) \subseteq Range(Order)
    BY <2>1, KeptSeq DEF Nodes
  <2> DEFINE here == {n \in Present(h) \ h.hidden :
                           /\ OnDisc(h, n)
                           /\ RetrievedAt(SquareOf(h, n), p, Bounds(h), MaxLevel)}
  <2>3. \A n \in here : OnDisc(h, n)
    OBVIOUS
  <2>4. hit = Kept(Nodes(h), here)
    OBVIOUS
  <2> HIDE DEF here, hit
  <2>5. IsSeq(hit) /\ Range(hit) = Range(Nodes(h)) \cap here
    BY <2>2, <2>4, KeptSeq
  <2> QED
    BY <2>2, <2>3, <2>5
<1> HIDE DEF hit
<1> DEFINE N == Len(hit)
<1>3. N \in Nat
  BY <1>2 DEF IsSeq
<1>4. \A f : LoopRounds(f, "size", <<>>, hit, N) <=> Is(f)
  BY DEF LoopRounds, LoopRound
<1>5. \E f : Is(f)
  <2> HIDE DEF Is
  <2> QED
    BY <1>3, <1>4, RoundsExist
<1>6. LoopRounds(sorted, "size", <<>>, hit, N)
  <2> HIDE DEF Is
  <2> QED
    BY <1>4, <1>5
<1> HIDE DEF sorted
<1>7. sorted[0] = <<>> /\ \A i \in 1..N : sorted[i] = InsertBySize(sorted[i - 1], hit[i])
  <2>1. sorted[0] = <<>> /\ \A i \in 1..N : sorted[i] = LoopRound("size", sorted[i - 1], hit, i)
    BY <1>3, <1>6, EachRound
  <2> QED
    BY <2>1 DEF LoopRound
<1> DEFINE G == {i \in 0..N : IsSeq(sorted[i]) /\ Range(sorted[i]) \subseteq Range(hit)}
<1>8. 0 \in G
  <2>1. IsSeq(<<>>) /\ Range(<<>>) = {}
    BY DEF IsSeq, Range
  <2> HIDE DEF N
  <2> QED
    BY <1>3, <1>7, <2>1
<1>9. \A i \in 1..N : i - 1 \in G => i \in G
  <2> TAKE i \in 1..N
  <2> HAVE i - 1 \in G
  <2>1. hit[i] \in Range(hit)
    BY <1>2 DEF Range, IsSeq
  <2> HIDE DEF N
  <2>2. IsSeq(sorted[i - 1]) /\ Range(sorted[i - 1]) \subseteq Range(hit) /\ i \in 0..N
    BY <1>3
  <2>3. ASSUME NEW s, IsSeq(s), NEW n
        PROVE  IsSeq(InsertBySize(s, n)) /\ Range(InsertBySize(s, n)) \subseteq Range(s) \cup {n}
    <3> DEFINE before == {m \in Range(s) : Size[m] >= Size[n]}
               one == <<n>>
               u == Kept(s, before)
               v == Kept(s, Range(s) \ before)
               w == u \o one
    <3>1. InsertBySize(s, n) = w \o v
      BY DEF InsertBySize
    <3>2. IsSeq(one) /\ Range(one) = {n}
      BY SingleSeq DEF Range
    <3> HIDE DEF before, one
    <3>3. IsSeq(u) /\ IsSeq(v) /\ Range(u) \subseteq Range(s) /\ Range(v) \subseteq Range(s)
      BY <2>3, KeptSeq
    <3> HIDE DEF u, v
    <3>4. IsSeq(w) /\ Range(w) = Range(u) \cup {n}
      BY <3>2, <3>3, JoinedSeq, JoinedRange
    <3> HIDE DEF w
    <3>5. IsSeq(w \o v) /\ Range(w \o v) = Range(w) \cup Range(v)
      BY <3>3, <3>4, JoinedSeq, JoinedRange
    <3> QED
      BY <3>1, <3>3, <3>4, <3>5
  <2>4. sorted[i] = InsertBySize(sorted[i - 1], hit[i])
    BY <1>7
  <2>5. IsSeq(sorted[i]) /\ Range(sorted[i]) \subseteq Range(sorted[i - 1]) \cup {hit[i]}
    BY <2>2, <2>3, <2>4
  <2> QED
    BY <2>1, <2>2, <2>5
<1>10. N \in G
  <2> HIDE DEF G, N
  <2> QED
    BY <1>3, <1>8, <1>9, RoundByRound
<1>11. IsSeq(<<>>) /\ Range(<<>>) = {}
  BY DEF IsSeq, Range
<1> QED
  BY <1>1, <1>2, <1>10, <1>11

LEMMA OnMoveNodesAlike ==
    ASSUME NEW h, Sound(h), NEW c \in Captors, NEW nodes, IsSeq(nodes)
    PROVE  Alike(h, OnMoveNodes(h, c, nodes))
<1> DEFINE newOver == Kept(nodes, Range(nodes) \ Range(h.over[c]))
           newOut == Kept(h.over[c], Range(h.over[c]) \ Range(nodes))
           still == Kept(h.over[c], Range(nodes))
           moved == [h EXCEPT !.over[c] = still \o newOver]
           told == Told(moved, TRUE, newOver)
<1>1. OnMoveNodes(h, c, nodes) = Told(told, FALSE, newOut)
  BY DEF OnMoveNodes
<1>2. IsSeq(newOver) /\ IsSeq(newOut) /\ IsSeq(still)
  BY KeptSeq DEF Sound
<1> HIDE DEF newOver, newOut, still
<1>3. IsSeq(still \o newOver)
  BY <1>2, JoinedSeq
<1>4. Alike(h, moved)
  <2> DEFINE new == still \o newOver
  <2> HIDE DEF new
  <2>1. Alike(h, [h EXCEPT !.over[c] = new])
    BY <1>3 DEF Alike, Sound, Inputs, Sight, new
  <2> QED
    BY <2>1 DEF new
<1> HIDE DEF moved
<1>5. Alike(moved, told)
  BY <1>2, <1>4, ToldKeeps, KeepsIsAlike DEF Alike
<1> HIDE DEF told
<1>6. Alike(told, Told(told, FALSE, newOut))
  BY <1>2, <1>5, ToldKeeps, KeepsIsAlike DEF Alike
<1> QED
  BY <1>1, <1>4, <1>5, <1>6, AlikeAgain

LEMMA OnOutAlike ==
    ASSUME NEW h, Sound(h), NEW c \in Captors
    PROVE  Alike(h, OnOut(h, c))
<1> DEFINE left == [h EXCEPT !.over[c] = <<>>, !.overEdge[c] = FALSE]
<1>1. OnOut(h, c) = Told(left, FALSE, h.over[c])
  BY DEF OnOut
<1>2. IsSeq(<<>>)
  BY DEF IsSeq
<1>3. Alike(h, left)
  BY <1>2 DEF Alike, Sound, Inputs, Sight
<1> HIDE DEF left
<1>4. IsSeq(h.over[c])
  BY DEF Sound
<1>5. Alike(left, Told(left, FALSE, h.over[c]))
  BY <1>3, <1>4, ToldKeeps, KeepsIsAlike DEF Alike
<1> QED
  BY <1>1, <1>3, <1>5, AlikeAgain

LEMMA OnMoveAlike ==
    ASSUME NEW h, Sound(h), NEW c \in Captors
    PROVE  Alike(h, OnMove(h, c))
<1> DEFINE nodes == GetNodes(h)
           x == OnMoveNodes(h, c, nodes)
           edge == GetEdges(h)
<1>1. OnMove(h, c) = IF h.threw THEN h ELSE OnMoveEdges(x, c, edge)
  <2>1. OnMove(h, c) = IF h.threw THEN h
                         ELSE CHOOSE r \in {OnMoveEdges(y, c, edge) :
                                 y \in {OnMoveNodes(h, c, ns) : ns \in {GetNodes(h)}}} : TRUE
    BY DEF OnMove
  <2>2. {OnMoveNodes(h, c, ns) : ns \in {GetNodes(h)}} = {x}
    OBVIOUS
  <2> HIDE DEF x
  <2>3. {OnMoveEdges(y, c, edge) : y \in {x}} = {OnMoveEdges(x, c, edge)}
    OBVIOUS
  <2> QED
    BY <2>1, <2>2, <2>3
<1>2. Alike(h, x)
  BY GetNodesFound, OnMoveNodesAlike
<1> HIDE DEF x, edge
<1>3. Keeps(x, OnMoveEdges(x, c, edge))
  <2> DEFINE told == [x EXCEPT !.overEdge[c] = edge, !.litEdge = edge]
  <2>1. OnMoveEdges(x, c, edge) = IF x.threw \/ x.overEdge[c] = edge THEN x ELSE Draw(told)
    BY DEF OnMoveEdges
  <2>2. Keeps(x, told)
    BY DEF Keeps, Inputs, Sight
  <2> HIDE DEF told
  <2> QED
    BY <2>1, <2>2, DrawKeeps, KeepsAgain, KeepsSelf
<1>4. Alike(h, OnMoveEdges(x, c, edge))
  BY <1>2, <1>3, KeepsIsAlike, AlikeAgain DEF Alike
<1> QED
  BY <1>1, <1>4, KeepsSelf, KeepsIsAlike

LEMMA RenderAlike ==
    ASSUME NEW h, Sound(h)
    PROVE  Alike(h, Render(h))
<1> DEFINE drawn == [h EXCEPT !.view = h.cam]
           x == OnMove(drawn, "mouse")
           y == OnMove(x, "touch")
<1>1. Render(h) = Draw(y)
  <2>1. Render(h) = CHOOSE r \in {Draw(u) : u \in {OnMove(v, "touch") : v \in {x}}} : TRUE
    BY DEF Render
  <2> HIDE DEF x
  <2>2. {OnMove(v, "touch") : v \in {x}} = {y}
    OBVIOUS
  <2> HIDE DEF y
  <2>3. {Draw(u) : u \in {y}} = {Draw(y)}
    OBVIOUS
  <2> QED
    BY <2>1, <2>2, <2>3
<1>2. "mouse" \in Captors /\ "touch" \in Captors
  BY DEF Captors
<1>3. Alike(h, drawn)
  BY DEF Alike, Sound, Inputs, Sight
<1> HIDE DEF drawn
<1>4. Alike(drawn, x)
  BY <1>2, <1>3, OnMoveAlike DEF Alike
<1> HIDE DEF x
<1>5. Alike(x, y)
  BY <1>2, <1>4, OnMoveAlike DEF Alike
<1> HIDE DEF y
<1>6. Alike(y, Draw(y))
  BY <1>5, DrawKeeps, KeepsIsAlike DEF Alike
<1> QED
  BY <1>1, <1>3, <1>4, <1>5, <1>6, AlikeAgain

(* The invariant: the mouse works except while a node is dragged, and who  *)
(* drags gives up with the button, or is a finger.                         *)
InputOK ==
    /\ Sound(page)
    /\ page.enabled = ~page.drags
    /\ page.drags \in BOOLEAN /\ button \in BOOLEAN
    /\ page.drags => button
    /\ IF button THEN page.captor \in {"mouse", "touch", None} ELSE page.captor \in {"touch", None}

LEMMA FirstInputOK ==
    ASSUME Init
    PROVE  InputOK
<1>1. IsSeq(<<>>)
  BY DEF IsSeq
<1>2. Sound(Built)
  BY <1>1 DEF Sound, Inputs, Sight, Built, Captors
<1>3. Alike(Built, page)
  BY <1>2, RenderAlike DEF Init
<1>4. Built.enabled = TRUE /\ Built.drags = FALSE /\ Built.captor = None
  BY DEF Built
<1> QED
  BY <1>3, <1>4 DEF InputOK, Alike, Init

(* Moving the mouse: over nodes, the stage, or a node. *)
LEMMA MouseMoveOK ==
    ASSUME InputOK, MouseMove
    PROVE  InputOK' /\ (page'.drags => page.drags)
<1>1. PICK q \in Mouse \ {mouse} :
         \E h \in {IF page.enabled THEN OnMove([page EXCEPT !.at = q], "mouse") ELSE page} :
            LET to == Minus(h.startCam, Minus(q, h.startAt))
            IN  page' = CASE h.enabled /\ h.captor = "mouse" /\ to # h.cam -> GoTo(h, to)
                            [] ~h.enabled /\ h.drags -> DragTo(h, q)
                            [] OTHER -> h
  BY DEF MouseMove
<1> DEFINE at == [page EXCEPT !.at = q]
           h == IF page.enabled THEN OnMove(at, "mouse") ELSE page
           to == Minus(h.startCam, Minus(q, h.startAt))
<1>2. page' = CASE h.enabled /\ h.captor = "mouse" /\ to # h.cam -> GoTo(h, to)
                  [] ~h.enabled /\ h.drags -> DragTo(h, q)
                  [] OTHER -> h
  BY <1>1
<1>3. Alike(page, h)
  <2>1. Alike(page, at)
    BY DEF InputOK, Alike, Sound, Inputs, Sight
  <2> HIDE DEF at
  <2>2. "mouse" \in Captors
    BY DEF Captors
  <2>3. Alike(at, OnMove(at, "mouse"))
    BY <2>1, <2>2, OnMoveAlike DEF Alike
  <2>4. Alike(page, page)
    BY DEF InputOK, Alike
  <2> QED
    BY <2>1, <2>3, <2>4, AlikeAgain
<1> HIDE DEF h
<1>4. Alike(h, GoTo(h, to))
  BY <1>3 DEF Alike, Sound, Inputs, Sight, GoTo
<1>5. Alike(h, DragTo(h, q))
  <2> DEFINE ref == Nodes(h)[1]
             spot == Plus(Minus(q, Shown(h, ref)), h.place[ref])
             put == [h EXCEPT !.place[h.node] = spot]
  <2>1. DragTo(h, q) = Render(put)
    BY DEF DragTo
  <2> HIDE DEF spot
  <2>2. Alike(h, put)
    BY <1>3 DEF Alike, Sound, Inputs, Sight
  <2> HIDE DEF put
  <2> QED
    BY <2>1, <2>2, RenderAlike, AlikeAgain DEF Alike
<1>6. Alike(h, h)
  BY <1>3 DEF Alike
<1> HIDE DEF to
<1>7. Alike(h, page')
  BY <1>2, <1>4, <1>5, <1>6
<1>8. button' = button
  BY DEF MouseMove
<1> QED
  BY <1>3, <1>7, <1>8 DEF InputOK, Alike

(* The button goes down: on the stage, or on a node, which is then dragged. *)
LEMMA MouseDownOK ==
    ASSUME InputOK, MouseDown
    PROVE  InputOK'
<1> DEFINE begun == [page EXCEPT !.captor = "mouse", !.startCam = page.cam,
                                   !.startAt = mouse, !.at = mouse]
           h == IF page.enabled THEN OnMove(begun, "mouse") ELSE page
<1>1. /\ page' = IF page.listens /\ h.listens /\ ~h.threw THEN NodeMouseDown(h) ELSE h
      /\ ~button /\ button' = TRUE
  BY DEF MouseDown
<1>2. Sound(h) /\ h.drags = FALSE /\ h.enabled = TRUE /\ h.captor = "mouse"
  <2>1. Sound(begun) /\ begun.drags = FALSE /\ begun.enabled = TRUE /\ begun.captor = "mouse"
    BY <1>1 DEF InputOK, Sound, Inputs, Sight
  <2> HIDE DEF begun
  <2>2. "mouse" \in Captors
    BY DEF Captors
  <2>3. Alike(begun, OnMove(begun, "mouse"))
    BY <2>1, <2>2, OnMoveAlike
  <2>4. page.enabled = TRUE
    BY <1>1 DEF InputOK
  <2> QED
    BY <2>1, <2>3, <2>4 DEF Alike
<1> HIDE DEF h
<1>3. /\ Sound(NodeMouseDown(h)) /\ NodeMouseDown(h).captor = "mouse"
      /\ NodeMouseDown(h).drags \in BOOLEAN
      /\ NodeMouseDown(h).enabled = ~NodeMouseDown(h).drags
  <2> DEFINE down == [h EXCEPT !.down = TRUE]
             grabbed == [down EXCEPT !.listens = FALSE, !.drags = TRUE, !.enabled = FALSE]
  <2>1. NodeMouseDown(h) = IF h.node = None \/ Len(Nodes(h)) < 2 THEN down ELSE Render(grabbed)
    BY DEF NodeMouseDown
  <2>2. Alike(h, down)
    BY <1>2 DEF Alike, Sound, Inputs, Sight
  <2> HIDE DEF down
  <2>3. Sound(grabbed) /\ grabbed.captor = "mouse" /\ grabbed.drags = TRUE /\ grabbed.enabled = FALSE
    BY <1>2, <2>2 DEF Alike, Sound, Inputs, Sight
  <2> HIDE DEF grabbed
  <2>4. Alike(grabbed, Render(grabbed))
    BY <2>3, RenderAlike
  <2> QED
    BY <1>2, <2>1, <2>2, <2>3, <2>4 DEF Alike
<1>4. Sound(page') /\ page'.captor = "mouse" /\ page'.drags \in BOOLEAN /\ page'.enabled = ~page'.drags
  BY <1>1, <1>2, <1>3
<1> QED
  BY <1>1, <1>4 DEF InputOK, Sound

(* The button goes up: first the plugin lets go of its node. *)
LEMMA MouseUpOK ==
    ASSUME InputOK, MouseUp
    PROVE  InputOK' /\ (page'.drags => page.drags)
<1> DEFINE h == IF page.drags THEN NodeMouseUp(page) ELSE page
<1>1. PICK p : page' = LET up == UpHandler(h, p)
                         IN  IF mouse # None /\ up.enabled /\ ~up.threw THEN Click(up) ELSE up
  BY DEF MouseUp
<1>2. Sound(h) /\ h.drags = FALSE /\ h.enabled = TRUE /\ h.captor \in {"mouse", "touch", None}
  <2>1. Sound(page) /\ page.captor \in {"mouse", "touch", None}
    BY DEF InputOK
  <2>2. CASE ~page.drags
    BY <2>1, <2>2 DEF InputOK
  <2>3. CASE page.drags
    <3> DEFINE freed == [page EXCEPT !.down = FALSE, !.listens = TRUE, !.drags = FALSE, !.enabled = TRUE]
               x == Render(freed)
               r == [x EXCEPT !.node = None]
    <3>1. NodeMouseUp(page) = r
      <4>1. NodeMouseUp(page) = CHOOSE s \in {[v EXCEPT !.node = None] : v \in {x}} : TRUE
        BY DEF NodeMouseUp
      <4> HIDE DEF x
      <4>2. {[v EXCEPT !.node = None] : v \in {x}} = {r}
        OBVIOUS
      <4> HIDE DEF r
      <4> QED
        BY <4>1, <4>2
    <3>2. Sound(freed) /\ freed.drags = FALSE /\ freed.enabled = TRUE /\ freed.captor = page.captor
      BY <2>1 DEF Sound, Inputs, Sight
    <3> HIDE DEF freed
    <3>3. Alike(freed, x)
      BY <3>2, RenderAlike
    <3> HIDE DEF x
    <3>4. Alike(x, r)
      BY <3>3 DEF Alike, Sound, Inputs, Sight
    <3> HIDE DEF r
    <3>5. h = r
      BY <2>3, <3>1
    <3> HIDE DEF h
    <3> QED
      BY <2>1, <3>2, <3>3, <3>4, <3>5 DEF Alike
  <2> QED
    BY <2>2, <2>3
<1> HIDE DEF h
<1> DEFINE let == [h EXCEPT !.captor = None, !.at = p, !.pending = @ \/ h.startAt # p]
           up == UpHandler(h, p)
<1>3. page' = IF mouse # None /\ up.enabled /\ ~up.threw THEN Click(up) ELSE up
  BY <1>1
<1>4. Sound(up) /\ up.drags = FALSE /\ up.enabled = TRUE /\ up.captor \in {"touch", None}
  <2>1. Sound(let) /\ let.drags = FALSE /\ let.enabled = TRUE /\ let.captor = None
    BY <1>2 DEF Sound, Inputs, Sight
  <2> HIDE DEF let
  <2>2. "mouse" \in Captors
    BY DEF Captors
  <2>3. Alike(let, OnMove(let, "mouse"))
    BY <2>1, <2>2, OnMoveAlike
  <2>4. up = IF h.enabled /\ h.captor = "mouse" THEN OnMove(let, "mouse") ELSE h
    BY DEF UpHandler, let
  <2> HIDE DEF up
  <2> QED
    BY <1>2, <2>1, <2>3, <2>4 DEF Alike
<1> HIDE DEF up
<1>5. /\ Sound(Click(up)) /\ Click(up).drags = FALSE /\ Click(up).enabled = TRUE
      /\ Click(up).captor \in {"touch", None}
  <2> DEFINE node == IF up.stack = <<>> THEN None ELSE up.node
  <2>1. Click(up) = [up EXCEPT !.down = FALSE, !.drags = FALSE, !.node = node]
    BY DEF Click
  <2> HIDE DEF node
  <2> QED
    BY <1>4, <2>1 DEF Sound, Inputs, Sight
<1>6. Sound(page') /\ page'.drags = FALSE /\ page'.enabled = TRUE /\ page'.captor \in {"touch", None}
  BY <1>3, <1>4, <1>5
<1>7. button' = FALSE
  BY DEF MouseUp
<1> QED
  BY <1>6, <1>7 DEF InputOK, Sound

(* A step that only draws again, or does less, changes none of it. *)
LEMMA AlikeOK ==
    ASSUME InputOK, Alike(page, page'), button' = button
    PROVE  InputOK' /\ (page'.drags => page.drags)
BY DEF InputOK, Alike

LEMMA TouchOK ==
    ASSUME InputOK, TouchStart \/ TouchMove \/ TouchEnd
    PROVE  InputOK' /\ (page'.drags => page.drags)
<1>1. CASE TouchStart
  <2>1. PICK p : page' = [page EXCEPT !.captor = "touch", !.startCam = page.cam, !.startAt = p]
    BY <1>1 DEF TouchStart
  <2>2. ~button /\ button' = button
    BY <1>1 DEF TouchStart
  <2>3. Sound(page') /\ page'.captor = "touch" /\ page'.drags = page.drags /\ page'.enabled = page.enabled
    BY <2>1 DEF InputOK, Sound, Inputs, Sight
  <2> QED
    BY <2>2, <2>3 DEF InputOK
<1>2. CASE TouchMove
  <2>1. PICK q, to : page' = OnMove([GoTo(page, to) EXCEPT !.at = q], "touch")
    BY <1>2 DEF TouchMove
  <2> DEFINE gone == GoTo(page, to)
             at == [gone EXCEPT !.at = q]
  <2>2. Alike(page, gone)
    BY DEF InputOK, Alike, Sound, Inputs, Sight, GoTo
  <2> HIDE DEF gone
  <2>3. Alike(gone, at)
    BY <2>2 DEF Alike, Sound, Inputs, Sight
  <2>4. page' = OnMove(at, "touch")
    BY <2>1 DEF gone
  <2> HIDE DEF at
  <2>5. "touch" \in Captors
    BY DEF Captors
  <2>6. Alike(at, page')
    BY <2>3, <2>4, <2>5, OnMoveAlike DEF Alike
  <2>7. button' = button
    BY <1>2 DEF TouchMove
  <2> QED
    BY <2>2, <2>3, <2>6, <2>7, AlikeAgain, AlikeOK
<1>3. CASE TouchEnd
  <2>1. page' = [page EXCEPT !.captor = None] /\ button' = button
    BY <1>3 DEF TouchEnd
  <2>2. Sound(page') /\ page'.captor = None /\ page'.drags = page.drags /\ page'.enabled = page.enabled
    BY <2>1 DEF InputOK, Sound, Inputs, Sight
  <2> QED
    BY <2>1, <2>2 DEF InputOK
<1> QED
  BY <1>1, <1>2, <1>3

(* Steps that end with a render, and those of the mouse leaving and the camera. *)
LEMMA RedrawnOK ==
    ASSUME InputOK,
           MouseOut \/ Frame \/ Hides \/ DropsNode \/ MovesCamera
    PROVE  InputOK' /\ (page'.drags => page.drags)
<1>1. CASE MouseOut
  <2>1. page' = (IF page.enabled THEN OnOut(page, "mouse") ELSE page) /\ button' = button
    BY <1>1 DEF MouseOut
  <2>2. "mouse" \in Captors /\ Sound(page)
    BY DEF InputOK, Captors
  <2>3. Alike(page, OnOut(page, "mouse")) /\ Alike(page, page)
    BY <2>2, OnOutAlike DEF Alike
  <2> QED
    BY <2>1, <2>3, AlikeOK
<1>2. CASE Frame
  <2> DEFINE x == [page EXCEPT !.pending = FALSE]
  <2>1. page' = Render(x) /\ button' = button
    BY <1>2 DEF Frame
  <2>2. Alike(page, x)
    BY DEF InputOK, Alike, Sound, Inputs, Sight
  <2> HIDE DEF x
  <2> QED
    BY <2>1, <2>2, RenderAlike, AlikeAgain, AlikeOK DEF Alike
<1>3. CASE Hides
  <2>1. PICK hidden : page' = Render([page EXCEPT !.hidden = hidden])
    BY <1>3 DEF Hides
  <2> DEFINE x == [page EXCEPT !.hidden = hidden]
  <2>2. Alike(page, x)
    BY DEF InputOK, Alike, Sound, Inputs, Sight
  <2>3. page' = Render(x) /\ button' = button
    BY <1>3, <2>1 DEF Hides
  <2> HIDE DEF x
  <2> QED
    BY <2>2, <2>3, RenderAlike, AlikeAgain, AlikeOK DEF Alike
<1>4. CASE DropsNode
  <2>1. PICK gone : page' = Render([page EXCEPT !.gone = gone])
    BY <1>4 DEF DropsNode
  <2> DEFINE x == [page EXCEPT !.gone = gone]
  <2>2. Alike(page, x)
    BY DEF InputOK, Alike, Sound, Inputs, Sight
  <2>3. page' = Render(x) /\ button' = button
    BY <1>4, <2>1 DEF DropsNode
  <2> HIDE DEF x
  <2> QED
    BY <2>2, <2>3, RenderAlike, AlikeAgain, AlikeOK DEF Alike
<1>5. CASE MovesCamera
  <2>1. PICK c : page' = GoTo(page, c) /\ button' = button
    BY <1>5 DEF MovesCamera
  <2>2. Alike(page, page')
    BY <2>1 DEF InputOK, Alike, Sound, Inputs, Sight, GoTo
  <2> QED
    BY <2>1, <2>2, AlikeOK
<1> QED
  BY <1>1, <1>2, <1>3, <1>4, <1>5

LEMMA StepKeepsInput ==
    InputOK /\ [Next]_vars => InputOK'
<1> SUFFICES ASSUME InputOK, [Next]_vars
             PROVE  InputOK'
  OBVIOUS
<1>1. CASE UNCHANGED vars
  BY <1>1 DEF vars, InputOK
<1>2. CASE Next
  BY <1>2, MouseMoveOK, MouseDownOK, MouseUpOK, TouchOK, RedrawnOK DEF Next
<1> QED
  BY <1>1, <1>2

(* With the button up and no finger down the mouse works again and nothing *)
(* is dragged, whatever was over, out, dropped or hidden in the meantime    *)
(* (nodeMouseUp, upHandler).                                                *)
THEOREM InputComesBackAlways ==
    Spec => []InputComesBack
<1>1. Init => InputOK
  BY FirstInputOK
<1>2. InputOK /\ [Next]_vars => InputOK'
  BY StepKeepsInput
<1>3. InputOK => InputComesBack
  BY DEF InputOK, InputComesBack
<1> QED
  BY <1>1, <1>2, <1>3, PTL DEF Spec

-----------------------------------------------------------------------------
(* The stack of the plugin: the nodes that the mouse is over, as it heard.  *)

Members(h) == Range(h.stack)

Stacked(h) ==
    /\ {"stack", "index", "node", "down", "listens", "threw"} \subseteq DOMAIN h
    /\ IsSeq(h.stack)
    /\ \A i, j \in 1..Len(h.stack) : h.stack[i] = h.stack[j] => i = j
    /\ Members(h) \subseteq h.index

\* It listens to the button when it has a node, which is in the stack
Grip(h) == h.listens => h.node = None \/ h.node \in Members(h)

\* From h to r, the nodes of more may have come onto the stack, and, if nothing
\* threw, those of less are not there; a node that is held is not let go.
Acts(h, r, more, less) ==
    /\ Stacked(r)
    /\ r.down = h.down
    /\ h.down => r.node = h.node
    /\ Grip(h) => Grip(r)
    /\ h.threw => r.threw
    /\ Members(r) \subseteq Members(h) \cup more
    /\ ~r.threw => Members(r) \cap less = {}

LEMMA ActsSelf ==
    ASSUME NEW h, Stacked(h)
    PROVE  Acts(h, h, {}, {})
BY DEF Acts

LEMMA ActsAgain ==
    ASSUME NEW h, NEW r, NEW s, NEW m1, NEW m2, NEW l1, NEW l2,
           Acts(h, r, m1, l1), Acts(r, s, m2, l2)
    PROVE  Acts(h, s, m1 \cup m2, (l1 \ m2) \cup l2)
BY DEF Acts

LEMMA ActsLess ==
    ASSUME NEW h, NEW r, NEW m1, NEW m2, NEW l1, NEW l2,
           Acts(h, r, m1, l1), m1 \subseteq m2, l2 \subseteq l1
    PROVE  Acts(h, r, m2, l2)
BY DEF Acts

LEMMA DrawActs ==
    ASSUME NEW h, Stacked(h)
    PROVE  Acts(h, Draw(h), {}, {})
<1> DEFINE r == Draw(h)
<1>1. /\ DOMAIN r = DOMAIN h
      /\ r.stack = h.stack /\ r.index = h.index /\ r.node = h.node /\ r.down = h.down /\ r.listens = h.listens
  BY DEF Draw, Stacked
<1>2. h.threw => r.threw
  BY DEF Draw, Stacked
<1> HIDE DEF r
<1>3. Stacked(r) /\ Members(r) = Members(h) /\ Grip(r) = Grip(h)
  BY <1>1 DEF Stacked, Members, Grip
<1> QED
  BY <1>1, <1>2, <1>3 DEF Acts, r

LEMMA TakenOut ==
    ASSUME NEW s, IsSeq(s), NEW at \in 1..Len(s)
    PROVE  LET q == RemoveAt(s, at)
           IN  /\ IsSeq(q) /\ Range(q) \subseteq Range(s)
               /\ q # <<>> => Last(q) \in Range(q)
               /\ (\A i, j \in 1..Len(s) : s[i] = s[j] => i = j)
                  => /\ \A i, j \in 1..Len(q) : q[i] = q[j] => i = j
                     /\ s[at] \notin Range(q)
<1> DEFINE q == RemoveAt(s, at)
           p == SubSeq(s, 1, at - 1)
           t == SubSeq(s, at + 1, Len(s))
<1>1. PICK S : s \in Seq(S)
  BY DEF IsSeq
<1>2. Len(s) \in Nat /\ at \in Nat /\ at <= Len(s) /\ DOMAIN s = 1..Len(s)
  BY <1>1
<1>3. /\ p \in Seq(S) /\ Len(p) = at - 1
      /\ \A i \in 1..(at - 1) : p[i] = s[i]
  BY <1>1, <1>2, SubSeqProperties
<1>4. /\ t \in Seq(S) /\ Len(t) = Len(s) - at
      /\ \A i \in 1..(Len(s) - at) : t[i] = s[at + i]
  <2>1. \A i \in at + 1..Len(s) : s[i] \in S
    BY <1>1, <1>2
  <2>2. /\ t \in Seq(S)
        /\ Len(t) = IF at + 1 <= Len(s) THEN Len(s) - (at + 1) + 1 ELSE 0
        /\ \A i \in 1..(Len(s) - (at + 1) + 1) : t[i] = s[(at + 1) + i - 1]
    <3>1. at + 1 \in Int /\ Len(s) \in Int
      BY <1>2
    <3> QED
      BY <1>1, <1>2, <2>1, <3>1, SubSeqProperties
  <2> HIDE DEF t
  <2>3. Len(t) = Len(s) - at
    <3> DEFINE L == Len(s)
               K == Len(t)
    <3>1. L \in Nat /\ at \in Nat /\ at <= L /\ K = IF at + 1 <= L THEN L - (at + 1) + 1 ELSE 0
      BY <1>2, <2>2
    <3> HIDE DEF K, L
    <3>2. K = L - at
      BY <3>1
    <3> QED
      BY <3>2 DEF K, L
  <2>4. ASSUME NEW i \in 1..(Len(s) - at)
        PROVE  t[i] = s[at + i]
    <3>1. i \in 1..(Len(s) - (at + 1) + 1) /\ (at + 1) + i - 1 = at + i
      BY <1>2
    <3> QED
      BY <2>2, <3>1
  <2> QED
    BY <2>2, <2>3, <2>4
<1>5. q = p \o t
  BY DEF RemoveAt
<1> HIDE DEF p, t, q
<1>6. /\ q \in Seq(S) /\ Len(q) = Len(s) - 1 /\ DOMAIN q = 1..(Len(s) - 1)
      /\ \A i \in 1..(Len(s) - 1) : q[i] = IF i < at THEN s[i] ELSE s[i + 1]
  <2>1. /\ q \in Seq(S) /\ Len(q) = Len(p) + Len(t)
        /\ \A i \in 1..(Len(p) + Len(t)) : q[i] = IF i <= Len(p) THEN p[i] ELSE t[i - Len(p)]
    BY <1>3, <1>4, <1>5, ConcatProperties
  <2>2. Len(p) + Len(t) = Len(s) - 1
    BY <1>2, <1>3, <1>4
  <2>3. ASSUME NEW i \in 1..(Len(s) - 1)
        PROVE  q[i] = IF i < at THEN s[i] ELSE s[i + 1]
    <3>1. CASE i < at
      <4>1. i \in 1..(at - 1) /\ i <= Len(p)
        BY <1>2, <1>3, <3>1
      <4> QED
        BY <2>1, <2>2, <3>1, <4>1, <1>3
    <3>2. CASE ~(i < at)
      <4>1. i - Len(p) \in 1..(Len(s) - at) /\ ~(i <= Len(p)) /\ at + (i - Len(p)) = i + 1
        BY <1>2, <1>3, <3>2
      <4>2. q[i] = t[i - Len(p)]
        BY <2>1, <2>2, <4>1
      <4>3. t[i - Len(p)] = s[at + (i - Len(p))]
        BY <1>4, <4>1
      <4> QED
        BY <3>2, <4>1, <4>2, <4>3
    <3> QED
      BY <3>1, <3>2
  <2> QED
    BY <2>1, <2>2, <2>3, LenProperties
<1>7. \A i \in 1..(Len(s) - 1) : \E k \in 1..Len(s) :
         k # at /\ q[i] = s[k] /\ k = IF i < at THEN i ELSE i + 1
  BY <1>2, <1>6
<1>8. IsSeq(q)
  BY <1>6 DEF IsSeq
<1>9. Range(q) \subseteq Range(s)
  BY <1>2, <1>6, <1>7 DEF Range
<1>10. q # <<>> => Last(q) \in Range(q)
  <2>1. q # <<>> => Len(q) \in DOMAIN q
    BY <1>6, <1>2
  <2> QED
    BY <2>1 DEF Last, Range
<1>11. ASSUME \A i, j \in 1..Len(s) : s[i] = s[j] => i = j
       PROVE  /\ \A i, j \in 1..Len(q) : q[i] = q[j] => i = j
              /\ s[at] \notin Range(q)
  <2>1. ASSUME NEW i \in 1..Len(q), NEW j \in 1..Len(q), q[i] = q[j]
        PROVE  i = j
    <3>1. PICK k \in 1..Len(s) : q[i] = s[k] /\ k = IF i < at THEN i ELSE i + 1
      BY <1>6, <1>7
    <3>2. PICK l \in 1..Len(s) : q[j] = s[l] /\ l = IF j < at THEN j ELSE j + 1
      BY <1>6, <1>7
    <3>3. k = l
      BY <1>11, <2>1, <3>1, <3>2
    <3> QED
      BY <1>2, <1>6, <3>1, <3>2, <3>3
  <2>2. \A i \in 1..(Len(s) - 1) : q[i] # s[at]
    BY <1>7, <1>11
  <2> QED
    BY <1>6, <2>1, <2>2 DEF Range
<1> QED
  BY <1>8, <1>9, <1>10, <1>11 DEF q

(* One node comes under the mouse, or leaves it. *)
LEMMA OverNodeActs ==
    ASSUME NEW h, Stacked(h), NEW n
    PROVE  Acts(h, OverNode(h, n), {n}, {})
<1>1. ASSUME NEW g, Stacked(g)
      PROVE  Acts(g, NodeMouseOver(g, n), {n}, {})
  <2>1. CASE n \in g.index
    BY <2>1, <1>1, ActsSelf, ActsLess DEF NodeMouseOver
  <2>2. CASE n \notin g.index
    <3> DEFINE top == Append(g.stack, n)
               node == IF g.down THEN g.node ELSE n
               r == [g EXCEPT !.stack = top, !.index = @ \cup {n}, !.node = node, !.listens = @ \/ ~g.down]
    <3>1. NodeMouseOver(g, n) = r
      BY <2>2 DEF NodeMouseOver
    <3>2. /\ IsSeq(top) /\ Range(top) = Range(g.stack) \cup {n}
          /\ \A i, j \in 1..Len(top) : top[i] = top[j] => i = j
      BY <2>2, <1>1, PutOnTop DEF Stacked, Members
    <3> HIDE DEF top, node
    <3>3. /\ DOMAIN r = DOMAIN g /\ r.stack = top /\ r.index = g.index \cup {n} /\ r.node = node
          /\ r.listens = (g.listens \/ ~g.down) /\ r.down = g.down /\ r.threw = g.threw
      BY <1>1 DEF Stacked
    <3> HIDE DEF r
    <3>4. Stacked(r) /\ Members(r) = Members(g) \cup {n}
      BY <1>1, <3>2, <3>3 DEF Stacked, Members
    <3>5. Grip(g) => Grip(r)
      BY <3>3, <3>4 DEF Grip, node
    <3> QED
      BY <3>1, <3>3, <3>4, <3>5 DEF Acts, node
  <2> QED
    BY <2>1, <2>2
<1> DEFINE lit == [h EXCEPT !.lit = @ \cup {n}]
           drawn == IF n \in h.hidden THEN h ELSE Draw(lit)
<1>2. OverNode(h, n) = IF h.threw THEN h ELSE NodeMouseOver(drawn, n)
  BY DEF OverNode
<1>3. Acts(h, lit, {}, {})
  BY DEF Acts, Stacked, Members, Grip
<1> HIDE DEF lit
<1>4. Acts(lit, Draw(lit), {}, {})
  BY <1>3, DrawActs DEF Acts
<1>5. Acts(h, drawn, {}, {})
  <2>1. Acts(h, Draw(lit), {} \cup {}, ({} \ {}) \cup {})
    BY <1>3, <1>4, ActsAgain
  <2>2. Acts(h, Draw(lit), {}, {})
    BY <2>1, ActsLess
  <2> QED
    BY <2>2, ActsSelf
<1> HIDE DEF drawn
<1>6. Acts(drawn, NodeMouseOver(drawn, n), {n}, {})
  BY <1>1, <1>5 DEF Acts
<1>7. Acts(h, NodeMouseOver(drawn, n), {n}, {})
  <2>1. Acts(h, NodeMouseOver(drawn, n), {} \cup {n}, ({} \ {n}) \cup {})
    BY <1>5, <1>6, ActsAgain
  <2> QED
    BY <2>1, ActsLess
<1> QED
  BY <1>2, <1>7, ActsSelf, ActsLess

LEMMA OutNodeActs ==
    ASSUME NEW h, Stacked(h), NEW n
    PROVE  Acts(h, OutNode(h, n), {}, {n})
<1>1. ASSUME NEW g, Stacked(g)
      PROVE  Acts(g, TreatOutNode(g, n), {}, {n})
  <2> DEFINE at == IF Contains(g.stack, n) THEN SelectInSeq(g.stack, LAMBDA m : m = n) ELSE Len(g.stack)
             stack == IF g.stack = <<>> THEN <<>> ELSE RemoveAt(g.stack, at)
             next == stack # <<>> /\ ~g.down
             node == IF next THEN Last(stack) ELSE g.node
             r == [g EXCEPT !.stack = stack, !.index = @ \ {n}, !.node = node, !.listens = @ /\ next]
  <2>1. TreatOutNode(g, n) = r
    BY DEF TreatOutNode
  <2>2. DOMAIN g.stack = 1..Len(g.stack) /\ Len(g.stack) \in Nat
    BY <1>1 DEF Stacked, IsSeq
  <2>3. g.stack # <<>> => /\ at \in 1..Len(g.stack)
                          /\ n \in Members(g) => g.stack[at] = n
    <3> DEFINE I == {i \in 1..Len(g.stack) : g.stack[i] = n}
    <3>1. SelectInSeq(g.stack, LAMBDA m : m = n) = IF I # {} THEN Min(I) ELSE 0
      BY DEF SelectInSeq
    <3>2. I # {} => Min(I) \in I
      <4> SUFFICES ASSUME I # {}
                   PROVE  Min(I) \in I
        OBVIOUS
      <4>1. I \in SUBSET Nat
        OBVIOUS
      <4> HIDE DEF I
      <4>2. \E i \in I : \A j \in I : i <= j
        BY <4>1, LeastExists
      <4> QED
        BY <4>2 DEF Min
    <3>3. Contains(g.stack, n) <=> I # {}
      BY DEF Contains
    <3>4. n \in Members(g) <=> I # {}
      BY <2>2 DEF Members, Range
    <3>5. at = IF I # {} THEN Min(I) ELSE Len(g.stack)
      BY <3>1, <3>3
    <3>6. g.stack # <<>> => Len(g.stack) \in 1..Len(g.stack)
      BY <1>1, <2>2 DEF Stacked, IsSeq
    <3> HIDE DEF at
    <3>7. CASE I # {}
      <4>1. at \in I
        BY <3>2, <3>5, <3>7
      <4> QED
        BY <4>1
    <3>8. CASE I = {}
      <4> HIDE DEF I
      <4> QED
        BY <3>4, <3>5, <3>6, <3>8
    <3> QED
      BY <3>7, <3>8
  <2> HIDE DEF at
  <2>4. /\ IsSeq(stack) /\ Range(stack) \subseteq Members(g) \ {n}
        /\ \A i, j \in 1..Len(stack) : stack[i] = stack[j] => i = j
        /\ stack # <<>> => Last(stack) \in Range(stack)
    <3>1. CASE g.stack = <<>>
      <4>1. stack = <<>>
        BY <3>1
      <4>2. IsSeq(<<>>) /\ Range(<<>>) = {} /\ Len(<<>>) = 0
        BY DEF IsSeq, Range
      <4> HIDE DEF stack
      <4> QED
        BY <4>1, <4>2
    <3>2. CASE g.stack # <<>>
      <4>1. stack = RemoveAt(g.stack, at)
        BY <3>2
      <4>2. at \in 1..Len(g.stack) /\ (n \in Members(g) => g.stack[at] = n)
        BY <2>3, <3>2
      <4>3. IsSeq(g.stack) /\ \A i, j \in 1..Len(g.stack) : g.stack[i] = g.stack[j] => i = j
        BY <1>1 DEF Stacked
      <4> HIDE DEF stack
      <4>4. /\ IsSeq(stack) /\ Range(stack) \subseteq Range(g.stack)
            /\ stack # <<>> => Last(stack) \in Range(stack)
            /\ \A i, j \in 1..Len(stack) : stack[i] = stack[j] => i = j
            /\ g.stack[at] \notin Range(stack)
        BY <4>1, <4>2, <4>3, TakenOut
      <4> QED
        BY <4>2, <4>4 DEF Members
    <3> QED
      BY <3>1, <3>2
  <2> HIDE DEF stack, node
  <2>5. /\ DOMAIN r = DOMAIN g /\ r.stack = stack /\ r.index = g.index \ {n} /\ r.node = node
        /\ r.listens = (g.listens /\ next) /\ r.down = g.down /\ r.threw = g.threw
    BY <1>1 DEF Stacked
  <2> HIDE DEF r
  <2>6. Stacked(r) /\ Members(r) \subseteq Members(g) \ {n}
    BY <1>1, <2>4, <2>5 DEF Stacked, Members
  <2>7. Grip(r)
    BY <2>4, <2>5 DEF Grip, Members, node
  <2> QED
    BY <2>1, <2>5, <2>6, <2>7 DEF Acts, node
<1> DEFINE lit == [h EXCEPT !.lit = @ \ {n}]
<1>2. OutNode(h, n) = IF h.threw THEN h ELSE TreatOutNode(Draw(lit), n)
  BY DEF OutNode
<1>3. Acts(h, lit, {}, {})
  BY DEF Acts, Stacked, Members, Grip
<1> HIDE DEF lit
<1> DEFINE drawn == Draw(lit)
<1>4. Acts(lit, drawn, {}, {})
  BY <1>3, DrawActs DEF Acts
<1> HIDE DEF drawn
<1>5. Acts(drawn, TreatOutNode(drawn, n), {}, {n})
  BY <1>1, <1>4 DEF Acts
<1>6. Acts(h, drawn, {} \cup {}, ({} \ {}) \cup {})
  BY <1>3, <1>4, ActsAgain
<1>7. Acts(h, TreatOutNode(drawn, n), ({} \cup {}) \cup {}, ((({} \ {}) \cup {}) \ {}) \cup {n})
  BY <1>5, <1>6, ActsAgain
<1>8. Acts(h, TreatOutNode(drawn, n), {}, {n})
  BY <1>7, ActsLess
<1>9. h.threw => Acts(h, h, {}, {n})
  BY ActsSelf DEF Acts
<1> QED
  BY <1>2, <1>8, <1>9 DEF drawn

(* The nodes of a list, one after the other. *)
LEMMA ToldActs ==
    ASSUME NEW h, Stacked(h), NEW over, NEW list, IsSeq(list)
    PROVE  Acts(h, Told(h, over, list), IF over THEN Range(list) ELSE {}, IF over THEN {} ELSE Range(list))
<1> DEFINE N == Len(list)
           more == IF over THEN Range(list) ELSE {}
           Less(i) == IF over THEN {} ELSE {list[k] : k \in 1..i}
<1>1. N \in Nat /\ Range(list) = {list[k] : k \in 1..N}
  BY DEF IsSeq, Range
<1>2. PICK f : /\ Told(h, over, list) = f[N]
               /\ f[0] = h
               /\ \A i \in 1..N : f[i] = IF over THEN OverNode(f[i - 1], list[i])
                                                 ELSE OutNode(f[i - 1], list[i])
  BY <1>1, ToldRounds
<1> HIDE DEF N
<1> DEFINE G == {i \in 0..N : Acts(h, f[i], more, Less(i))}
<1>3. 0 \in G
  <2>1. Acts(h, f[0], {}, {})
    BY <1>2, ActsSelf
  <2>2. Less(0) = {}
    OBVIOUS
  <2> HIDE DEF more, Less
  <2>3. Acts(h, f[0], more, Less(0))
    BY <2>1, <2>2, ActsLess
  <2> QED
    BY <1>1, <2>3
<1>4. \A i \in 1..N : i - 1 \in G => i \in G
  <2> TAKE i \in 1..N
  <2> HAVE i - 1 \in G
  <2>1. Acts(h, f[i - 1], more, Less(i - 1)) /\ i \in 0..N /\ Stacked(f[i - 1])
    BY <1>1 DEF Acts
  <2>2. CASE over
    <3>1. Acts(f[i - 1], f[i], {list[i]}, {})
      BY <1>2, <2>1, <2>2, OverNodeActs
    <3>2. Acts(h, f[i], more \cup {list[i]}, (Less(i - 1) \ {list[i]}) \cup {})
      BY <2>1, <3>1, ActsAgain
    <3>3. more \cup {list[i]} \subseteq more /\ Less(i) = {}
      BY <1>1, <2>2
    <3> HIDE DEF more, Less
    <3>4. Acts(h, f[i], more, Less(i))
      BY <3>2, <3>3, ActsLess
    <3> QED
      BY <2>1, <3>4
  <2>3. CASE ~over
    <3>1. Acts(f[i - 1], f[i], {}, {list[i]})
      BY <1>2, <2>1, <2>3, OutNodeActs
    <3>2. Acts(h, f[i], more \cup {}, (Less(i - 1) \ {}) \cup {list[i]})
      BY <2>1, <3>1, ActsAgain
    <3>3. Less(i) \subseteq (Less(i - 1) \ {}) \cup {list[i]}
      <4>1. \A k \in 1..i : k \in 1..(i - 1) \/ k = i
        BY <1>1
      <4> QED
        BY <2>3, <4>1
    <3> HIDE DEF more, Less
    <3>4. Acts(h, f[i], more, Less(i))
      BY <3>2, <3>3, ActsLess
    <3> QED
      BY <2>1, <3>4
  <2> QED
    BY <2>2, <2>3
<1>5. N \in G
  <2> HIDE DEF G
  <2> QED
    BY <1>1, <1>3, <1>4, RoundByRound
<1>6. Acts(h, Told(h, over, list), more, Less(N))
  BY <1>2, <1>5
<1>7. Less(N) = IF over THEN {} ELSE Range(list)
  BY <1>1
<1> HIDE DEF Less
<1> QED
  BY <1>6, <1>7

\* What r sees is what h sees, and the captors are over the same
Sees(h, r) == /\ \A f \in Sight : r[f] = h[f]
              /\ r.over = h.over /\ r.pending = h.pending

LEMMA KeepsSees ==
    ASSUME NEW h, NEW r, Sound(h), Keeps(h, r)
    PROVE  Sees(h, r)
BY DEF Sound, Keeps, Sees, Inputs, Sight

\* As Sees, when one captor is over other nodes
Looks(h, r) == (\A f \in Sight : r[f] = h[f]) /\ r.pending = h.pending

\* From h to r the captor c has come to be over the nodes of found
Moved(h, r, c, found) ==
    /\ Acts(h, r, found, Range(h.over[c]) \ found)
    /\ Looks(h, r)
    /\ Range(r.over[c]) = found
    /\ \A b \in Captors \ {c} : r.over[b] = h.over[b]

LEMMA OnMoveNodesActs ==
    ASSUME NEW h, Sound(h), Stacked(h), NEW c \in Captors, NEW nodes, IsSeq(nodes)
    PROVE  Moved(h, OnMoveNodes(h, c, nodes), c, Range(nodes))
<1> DEFINE newOver == Kept(nodes, Range(nodes) \ Range(h.over[c]))
           newOut == Kept(h.over[c], Range(h.over[c]) \ Range(nodes))
           still == Kept(h.over[c], Range(nodes))
           new == still \o newOver
           moved == [h EXCEPT !.over[c] = new]
           told == Told(moved, TRUE, newOver)
           r == Told(told, FALSE, newOut)
<1>1. OnMoveNodes(h, c, nodes) = r
  BY DEF OnMoveNodes
<1>2. /\ IsSeq(newOver) /\ IsSeq(newOut) /\ IsSeq(still)
      /\ Range(newOver) = Range(nodes) \ Range(h.over[c])
      /\ Range(newOut) = Range(h.over[c]) \ Range(nodes)
      /\ Range(still) = Range(h.over[c]) \cap Range(nodes)
  <2>1. IsSeq(h.over[c])
    BY DEF Sound
  <2> QED
    BY <2>1, KeptSeq
<1> HIDE DEF newOver, newOut, still
<1>3. IsSeq(new) /\ Range(new) = Range(nodes)
  <2>1. IsSeq(new)
    BY <1>2, JoinedSeq
  <2>2. Range(new) = Range(still) \cup Range(newOver)
    BY <1>2, JoinedRange
  <2> HIDE DEF new
  <2> QED
    BY <1>2, <2>1, <2>2
<1> HIDE DEF new
<1>4. /\ Sound(moved) /\ Looks(h, moved) /\ moved.over[c] = new
      /\ \A b \in Captors \ {c} : moved.over[b] = h.over[b]
  BY <1>3 DEF Sound, Inputs, Sight, Looks
<1>5. Acts(h, moved, {}, {})
  BY DEF Acts, Stacked, Members, Grip
<1> HIDE DEF moved
<1>6. Keeps(moved, told) /\ Acts(moved, told, Range(newOver), {})
  <2>1. Stacked(moved)
    BY <1>5 DEF Acts
  <2> QED
    BY <1>2, <2>1, ToldKeeps, ToldActs
<1> HIDE DEF told
<1>7. Keeps(told, r) /\ Acts(told, r, {}, Range(newOut))
  <2>1. Stacked(told)
    BY <1>6 DEF Acts
  <2> QED
    BY <1>2, <2>1, ToldKeeps, ToldActs
<1> HIDE DEF r
<1>8. Sees(moved, r)
  <2>1. Keeps(moved, r)
    BY <1>6, <1>7, KeepsAgain
  <2> QED
    BY <1>4, <2>1, KeepsSees
<1>9. Acts(h, r, Range(nodes), Range(h.over[c]) \ Range(nodes))
  <2>1. Acts(h, told, {} \cup Range(newOver), ({} \ Range(newOver)) \cup {})
    BY <1>5, <1>6, ActsAgain
  <2>2. Acts(h, told, Range(newOver), {})
    BY <2>1, ActsLess
  <2>3. Acts(h, r, Range(newOver) \cup {}, ({} \ {}) \cup Range(newOut))
    BY <1>7, <2>2, ActsAgain
  <2>4. /\ Range(newOver) \cup {} \subseteq Range(nodes)
        /\ Range(h.over[c]) \ Range(nodes) \subseteq ({} \ {}) \cup Range(newOut)
    BY <1>2
  <2> QED
    BY <2>3, <2>4, ActsLess
<1> QED
  BY <1>1, <1>3, <1>4, <1>8, <1>9 DEF Sees, Looks, Moved

LEMMA OnMoveActs ==
    ASSUME NEW h, Sound(h), Stacked(h), NEW c \in Captors
    PROVE  LET r == OnMove(h, c)
               found == Range(GetNodes(h))
           IN  /\ Acts(h, r, found, Range(h.over[c]) \ found)
               /\ Looks(h, r)
               /\ ~r.threw => Range(r.over[c]) = found
               /\ \A b \in Captors \ {c} : r.over[b] = h.over[b]
<1> DEFINE nodes == GetNodes(h)
           found == Range(nodes)
           x == OnMoveNodes(h, c, nodes)
           edge == GetEdges(h)
           r == OnMoveEdges(x, c, edge)
<1>1. OnMove(h, c) = IF h.threw THEN h ELSE r
  <2>1. OnMove(h, c) = IF h.threw THEN h
                         ELSE CHOOSE s \in {OnMoveEdges(y, c, edge) :
                                 y \in {OnMoveNodes(h, c, ns) : ns \in {GetNodes(h)}}} : TRUE
    BY DEF OnMove
  <2>2. {OnMoveNodes(h, c, ns) : ns \in {GetNodes(h)}} = {x}
    OBVIOUS
  <2> HIDE DEF x
  <2>3. {OnMoveEdges(y, c, edge) : y \in {x}} = {r}
    OBVIOUS
  <2> QED
    BY <2>1, <2>2, <2>3
<1>2. /\ Acts(h, x, found, Range(h.over[c]) \ found)
      /\ Looks(h, x)
      /\ Range(x.over[c]) = found
      /\ \A b \in Captors \ {c} : x.over[b] = h.over[b]
      /\ Sound(x)
  <2>1. IsSeq(nodes)
    BY GetNodesFound
  <2> HIDE DEF nodes
  <2>2. Sound(x)
    BY <2>1, OnMoveNodesAlike DEF Alike
  <2>3. Moved(h, x, c, Range(nodes))
    BY <2>1, OnMoveNodesActs
  <2> QED
    BY <2>2, <2>3 DEF Moved
<1> HIDE DEF x, edge, found
<1>4. Keeps(x, r) /\ Acts(x, r, {}, {})
  <2> DEFINE told == [x EXCEPT !.overEdge[c] = edge, !.litEdge = edge]
  <2>1. r = IF x.threw \/ x.overEdge[c] = edge THEN x ELSE Draw(told)
    BY DEF OnMoveEdges
  <2>2. Stacked(x)
    BY <1>2 DEF Acts
  <2>3. Keeps(x, told) /\ Acts(x, told, {}, {})
    BY <2>2 DEF Keeps, Inputs, Sight, Acts, Stacked, Members, Grip
  <2> HIDE DEF told
  <2>4. Keeps(x, Draw(told)) /\ Acts(told, Draw(told), {}, {})
    BY <2>3, DrawKeeps, DrawActs, KeepsAgain DEF Acts
  <2>5. Acts(x, Draw(told), {} \cup {}, ({} \ {}) \cup {})
    BY <2>3, <2>4, ActsAgain
  <2>6. Acts(x, Draw(told), {}, {})
    BY <2>5, ActsLess
  <2> QED
    BY <2>1, <2>2, <2>4, <2>6, KeepsSelf, ActsSelf
<1> HIDE DEF r
<1>5. Acts(h, r, found, Range(h.over[c]) \ found)
  <2>1. Acts(h, r, found \cup {}, ((Range(h.over[c]) \ found) \ {}) \cup {})
    BY <1>2, <1>4, ActsAgain
  <2> QED
    BY <2>1, ActsLess
<1>6. Looks(h, r) /\ r.over = x.over
  BY <1>2, <1>4, KeepsSees DEF Sees, Looks
<1>7. CASE h.threw
  <2>1. Acts(h, h, found, Range(h.over[c]) \ found)
    BY <1>7, ActsSelf DEF Acts
  <2> QED
    BY <1>1, <1>7, <2>1 DEF Looks, found
<1>8. CASE ~h.threw
  BY <1>1, <1>2, <1>5, <1>6, <1>8 DEF found
<1> QED
  BY <1>7, <1>8

(* The hit test depends on nothing else. *)
LEMMA SameNodesFound ==
    ASSUME NEW h, NEW r, \A f \in Sight : r[f] = h[f]
    PROVE  GetNodes(r) = GetNodes(h)
<1>1. /\ r.place = h.place /\ r.view = h.view /\ r.at = h.at /\ r.cam = h.cam
      /\ r.gone = h.gone /\ r.hidden = h.hidden /\ Present(r) = Present(h)
  BY DEF Sight, Present
<1>2. Nodes(r) = Nodes(h)
  BY <1>1 DEF Nodes
<1>3. Bounds(r) = Bounds(h)
  BY <1>1, <1>2 DEF Bounds
<1>4. \A n : SquareOf(r, n) = SquareOf(h, n) /\ OnDisc(r, n) = OnDisc(h, n)
  BY <1>1 DEF SquareOf, OnDisc, Shown
<1> DEFINE Here(g) == {n \in Present(g) \ g.hidden :
                         /\ OnDisc(g, n)
                         /\ RetrievedAt(SquareOf(g, n), Plus(g.at, g.cam), Bounds(g), MaxLevel)}
           Hit(g) == Kept(Nodes(g), Here(g))
           Sorted(q) == LET sorted[i \in 0 .. Len(q)] ==
                               IF i = 0 THEN <<>> ELSE InsertBySize(sorted[i - 1], q[i])
                        IN  sorted[Len(q)]
<1>5. /\ GetNodes(h) = IF h.at = None THEN <<>> ELSE Sorted(Hit(h))
      /\ GetNodes(r) = IF r.at = None THEN <<>> ELSE Sorted(Hit(r))
  BY DEF GetNodes
<1> HIDE DEF Sorted
<1>6. Here(r) = Here(h)
  BY <1>1, <1>2, <1>3, <1>4
<1> HIDE DEF Here
<1> QED
  BY <1>1, <1>2, <1>5, <1>6

\* The nodes of the stack are under the mouse, or the finger
OfBoth(h) == Members(h) \subseteq Range(h.over["mouse"]) \cup Range(h.over["touch"])
OfMouse(h) == Members(h) \subseteq Range(h.over["mouse"])

\* When no render is due they are under the mouse
Fine(h) == /\ Sound(h) /\ Stacked(h)
           /\ ~h.threw => OfBoth(h) /\ (~h.pending => OfMouse(h))

\* What Acts says of the node to drag
Holds(h, r) == /\ r.down = h.down
               /\ h.down => r.node = h.node
               /\ Grip(h) => Grip(r)
               /\ h.threw => r.threw

LEMMA MouseFine ==
    ASSUME NEW h, Fine(h)
    PROVE  LET r == OnMove(h, "mouse")
           IN  Fine(r) /\ Looks(h, r) /\ Holds(h, r)
<1> DEFINE r == OnMove(h, "mouse")
           found == Range(GetNodes(h))
<1>1. "mouse" \in Captors /\ "touch" \in Captors \ {"mouse"}
  BY DEF Captors
<1>2. /\ Acts(h, r, found, Range(h.over["mouse"]) \ found)
      /\ Looks(h, r)
      /\ ~r.threw => Range(r.over["mouse"]) = found
      /\ r.over["touch"] = h.over["touch"]
      /\ Sound(r)
  BY <1>1, OnMoveActs, OnMoveAlike DEF Fine, Alike
<1> HIDE DEF r, found
<1>3. ~r.threw => OfBoth(r)
  BY <1>2 DEF Fine, Acts, OfBoth
<1>4. ~r.threw /\ ~r.pending => OfMouse(r)
  BY <1>2 DEF Fine, Acts, OfMouse, Looks
<1> QED
  BY <1>2, <1>3, <1>4 DEF Fine, Acts, Holds, r

LEMMA TouchFine ==
    ASSUME NEW h, Fine(h), h.pending
    PROVE  LET r == OnMove(h, "touch")
           IN  Fine(r) /\ Looks(h, r) /\ Holds(h, r)
<1> DEFINE r == OnMove(h, "touch")
           found == Range(GetNodes(h))
<1>1. "touch" \in Captors /\ "mouse" \in Captors \ {"touch"}
  BY DEF Captors
<1>2. /\ Acts(h, r, found, Range(h.over["touch"]) \ found)
      /\ Looks(h, r)
      /\ ~r.threw => Range(r.over["touch"]) = found
      /\ r.over["mouse"] = h.over["mouse"]
      /\ Sound(r)
  BY <1>1, OnMoveActs, OnMoveAlike DEF Fine, Alike
<1> HIDE DEF r, found
<1>3. ~r.threw => OfBoth(r)
  BY <1>2 DEF Fine, Acts, OfBoth
<1>4. r.pending
  BY <1>2 DEF Looks
<1> QED
  BY <1>2, <1>3, <1>4 DEF Fine, Acts, Holds, r
LEMMA HoldsAgain ==
    ASSUME NEW h, NEW r, NEW s, Holds(h, r), Holds(r, s)
    PROVE  Holds(h, s)
BY DEF Holds

LEMMA RenderFine ==
    ASSUME NEW h, Sound(h), Stacked(h), ~h.threw => OfBoth(h)
    PROVE  Fine(Render(h)) /\ Holds(h, Render(h))
<1> DEFINE drawn == [h EXCEPT !.view = h.cam]
           x == OnMove(drawn, "mouse")
           y == OnMove(x, "touch")
           found == Range(GetNodes(drawn))
<1>1. Render(h) = Draw(y)
  <2>1. Render(h) = CHOOSE r \in {Draw(u) : u \in {OnMove(v, "touch") : v \in {x}}} : TRUE
    BY DEF Render
  <2> HIDE DEF x
  <2>2. {OnMove(v, "touch") : v \in {x}} = {y}
    OBVIOUS
  <2> HIDE DEF y
  <2>3. {Draw(u) : u \in {y}} = {Draw(y)}
    OBVIOUS
  <2> QED
    BY <2>1, <2>2, <2>3
<1>2. /\ "mouse" \in Captors /\ "touch" \in Captors \ {"mouse"}
      /\ "touch" \in Captors /\ "mouse" \in Captors \ {"touch"}
  BY DEF Captors
<1>3. /\ Sound(drawn) /\ Stacked(drawn) /\ Holds(h, drawn)
      /\ ~drawn.threw => OfBoth(drawn)
  BY DEF Sound, Stacked, Holds, Grip, Members, OfBoth, Inputs, Sight
<1> HIDE DEF drawn
<1>4. /\ Acts(drawn, x, found, Range(drawn.over["mouse"]) \ found)
      /\ Looks(drawn, x)
      /\ ~x.threw => Range(x.over["mouse"]) = found
      /\ x.over["touch"] = drawn.over["touch"]
      /\ Sound(x)
  BY <1>2, <1>3, OnMoveActs, OnMoveAlike DEF Alike
<1> HIDE DEF x
<1>5. /\ Acts(x, y, found, Range(x.over["touch"]) \ found)
      /\ ~y.threw => Range(y.over["touch"]) = found
      /\ y.over["mouse"] = x.over["mouse"]
      /\ Sound(y)
  <2>1. GetNodes(x) = GetNodes(drawn)
    BY <1>4, SameNodesFound DEF Looks
  <2>2. Stacked(x)
    BY <1>4 DEF Acts
  <2>3. /\ Acts(x, y, Range(GetNodes(x)), Range(x.over["touch"]) \ Range(GetNodes(x)))
        /\ ~y.threw => Range(y.over["touch"]) = Range(GetNodes(x))
        /\ y.over["mouse"] = x.over["mouse"]
    BY <1>2, <1>4, <2>2, OnMoveActs
  <2>4. Sound(y)
    BY <1>2, <1>4, OnMoveAlike DEF Alike
  <2> QED
    BY <2>1, <2>3, <2>4
<1> HIDE DEF y, found
<1>6. Stacked(y) /\ (~y.threw => OfMouse(y) /\ OfBoth(y))
  <2>1. ~y.threw => ~x.threw /\ ~drawn.threw
    BY <1>4, <1>5 DEF Acts
  <2>2. ~x.threw => Members(x) \subseteq found \cup Range(x.over["touch"])
    BY <1>3, <1>4, <2>1 DEF Acts, OfBoth
  <2>3. ~y.threw => Members(y) \subseteq found /\ Range(y.over["mouse"]) = found
    BY <1>4, <1>5, <2>1, <2>2 DEF Acts
  <2> QED
    BY <1>5, <2>3 DEF Acts, OfMouse, OfBoth
<1>7. Holds(h, y)
  <2>1. Holds(drawn, x) /\ Holds(x, y)
    BY <1>4, <1>5 DEF Acts, Holds
  <2> QED
    BY <1>3, <2>1, HoldsAgain
<1>8. Acts(y, Draw(y), {}, {}) /\ Keeps(y, Draw(y))
  BY <1>6, DrawActs, DrawKeeps
<1> DEFINE r == Draw(y)
<1> HIDE DEF r
<1>9. Sound(r) /\ r.over = y.over
  BY <1>5, <1>8, KeepsIsAlike, KeepsSees DEF Alike, Sees, r
<1>10. Acts(y, r, {}, {})
  BY <1>8 DEF r
<1>11. ~r.threw => OfMouse(r) /\ OfBoth(r)
  BY <1>6, <1>9, <1>10 DEF Acts, OfMouse, OfBoth
<1>12. Holds(h, r)
  <2>1. Holds(y, r)
    BY <1>10 DEF Acts, Holds
  <2> QED
    BY <1>7, <2>1, HoldsAgain
<1> QED
  BY <1>1, <1>9, <1>10, <1>11, <1>12 DEF Fine, Acts, r

LEMMA OnOutFine ==
    ASSUME NEW h, Fine(h)
    PROVE  Fine(OnOut(h, "mouse")) /\ Holds(h, OnOut(h, "mouse"))
<1> DEFINE left == [h EXCEPT !.over["mouse"] = <<>>, !.overEdge["mouse"] = FALSE]
           r == Told(left, FALSE, h.over["mouse"])
<1>1. OnOut(h, "mouse") = r
  BY DEF OnOut
<1>2. IsSeq(<<>>) /\ Range(<<>>) = {}
  BY DEF IsSeq, Range
<1>3. "mouse" \in Captors /\ "touch" \in Captors /\ "mouse" # "touch"
  BY DEF Captors
<1>4. /\ Sound(left) /\ Stacked(left) /\ Holds(h, left) /\ Members(left) = Members(h)
      /\ left.threw = h.threw /\ left.pending = h.pending
      /\ left.over["mouse"] = <<>> /\ left.over["touch"] = h.over["touch"]
  BY <1>2, <1>3 DEF Fine, Sound, Stacked, Holds, Grip, Members, Inputs, Sight
<1>5. IsSeq(h.over["mouse"])
  BY <1>3 DEF Fine, Sound
<1> HIDE DEF left
<1>6. Keeps(left, r)
  BY <1>5, ToldKeeps
<1>7. Acts(left, r, {}, Range(h.over["mouse"]))
  <2>1. Acts(left, r, IF FALSE THEN Range(h.over["mouse"]) ELSE {}, IF FALSE THEN {} ELSE Range(h.over["mouse"]))
    BY <1>4, <1>5, ToldActs
  <2> QED
    BY <2>1
<1> HIDE DEF r
<1>8. Sound(r) /\ r.over = left.over /\ r.pending = left.pending
  BY <1>4, <1>6, KeepsIsAlike, KeepsSees DEF Alike, Sees
<1>9. ~r.threw => ~h.threw /\ Members(r) \subseteq Members(h) \ Range(h.over["mouse"])
  BY <1>4, <1>7 DEF Acts
<1>10. ~r.threw => OfBoth(r) /\ (~r.pending => OfMouse(r))
  BY <1>4, <1>8, <1>9 DEF Fine, OfBoth, OfMouse
<1>11. Holds(h, r)
  <2>1. Holds(left, r)
    BY <1>7 DEF Acts, Holds
  <2> QED
    BY <1>4, <2>1, HoldsAgain
<1> QED
  BY <1>1, <1>7, <1>8, <1>10, <1>11 DEF Fine, Acts

\* The fields that Fine and Grip speak of
Hand == {"stack", "index", "threw", "over"}

LEMMA SameHand ==
    ASSUME NEW h, NEW r, Fine(h), DOMAIN r = DOMAIN h, \A f \in Hand : r[f] = h[f],
           ~r.pending => ~h.pending
    PROVE  Fine(r)
<1>1. r.stack = h.stack /\ r.index = h.index /\ r.threw = h.threw /\ r.over = h.over
  BY DEF Hand
<1> QED
  BY <1>1 DEF Fine, Sound, Stacked, Members, OfBoth, OfMouse

(* The invariant: the stack is under the mouse when no render is due, and   *)
(* the node to drag is in it while the plugin listens to the button.        *)
GrabOK == Fine(page) /\ Grip(page)

LEMMA FirstGrabOK ==
    ASSUME Init
    PROVE  GrabOK
<1>1. IsSeq(<<>>) /\ Range(<<>>) = {} /\ Len(<<>>) = 0
  BY DEF IsSeq, Range
<1>2. Sound(Built)
  BY <1>1 DEF Sound, Inputs, Sight, Built, Captors
<1>3. Stacked(Built)
  BY <1>1 DEF Stacked, Members, Built
<1>4. OfBoth(Built) /\ Grip(Built)
  BY <1>1 DEF OfBoth, Grip, Members, Built
<1>5. page = Render(Built)
  BY DEF Init
<1> QED
  BY <1>2, <1>3, <1>4, <1>5, RenderFine DEF GrabOK, Holds

LEMMA MouseMoveGrab ==
    ASSUME GrabOK, MouseMove
    PROVE  GrabOK'
<1>1. PICK q \in Mouse \ {mouse} :
         \E h \in {IF page.enabled THEN OnMove([page EXCEPT !.at = q], "mouse") ELSE page} :
            LET to == Minus(h.startCam, Minus(q, h.startAt))
            IN  page' = CASE h.enabled /\ h.captor = "mouse" /\ to # h.cam -> GoTo(h, to)
                            [] ~h.enabled /\ h.drags -> DragTo(h, q)
                            [] OTHER -> h
  BY DEF MouseMove
<1> DEFINE at == [page EXCEPT !.at = q]
           h == IF page.enabled THEN OnMove(at, "mouse") ELSE page
           to == Minus(h.startCam, Minus(q, h.startAt))
<1>2. page' = CASE h.enabled /\ h.captor = "mouse" /\ to # h.cam -> GoTo(h, to)
                  [] ~h.enabled /\ h.drags -> DragTo(h, q)
                  [] OTHER -> h
  BY <1>1
<1>3. Fine(h) /\ Grip(h)
  <2>1. DOMAIN at = DOMAIN page /\ (\A f \in Hand : at[f] = page[f]) /\ at.pending = page.pending
    BY DEF Hand
  <2>2. Grip(at)
    BY DEF GrabOK, Grip, Members
  <2> HIDE DEF at
  <2>3. Fine(at)
    BY <2>1, SameHand DEF GrabOK
  <2>4. Fine(OnMove(at, "mouse")) /\ Grip(OnMove(at, "mouse"))
    BY <2>2, <2>3, MouseFine DEF Holds
  <2> QED
    BY <2>4 DEF GrabOK
<1> HIDE DEF h
<1>4. Fine(GoTo(h, to)) /\ Grip(GoTo(h, to))
  <2> DEFINE r == GoTo(h, to)
  <2>1. DOMAIN r = DOMAIN h /\ (\A f \in Hand : r[f] = h[f]) /\ (r.pending <=> TRUE)
    BY <1>3 DEF GoTo, Hand, Fine, Sound, Inputs
  <2>2. Grip(r)
    BY <1>3 DEF GoTo, Grip, Members
  <2> HIDE DEF r
  <2>3. Fine(r)
    BY <1>3, <2>1, SameHand
  <2> QED
    BY <2>2, <2>3 DEF r
<1>5. Fine(DragTo(h, q)) /\ Grip(DragTo(h, q))
  <2> DEFINE ref == Nodes(h)[1]
             spot == Plus(Minus(q, Shown(h, ref)), h.place[ref])
             put == [h EXCEPT !.place[h.node] = spot]
  <2>1. DragTo(h, q) = Render(put)
    BY DEF DragTo
  <2> HIDE DEF spot
  <2>2. DOMAIN put = DOMAIN h /\ (\A f \in Hand : put[f] = h[f]) /\ put.pending = h.pending
    BY DEF Hand
  <2>3. Grip(put)
    BY <1>3 DEF Grip, Members
  <2> HIDE DEF put
  <2>4. Fine(put)
    BY <1>3, <2>2, SameHand
  <2> QED
    BY <2>1, <2>3, <2>4, RenderFine DEF Fine, Holds
<1> HIDE DEF to
<1> QED
  BY <1>2, <1>3, <1>4, <1>5 DEF GrabOK

(* What the captor and then the plugin make of the button going down. *)
LEMMA DownFine ==
    ASSUME NEW h, Fine(h), Grip(h)
    PROVE  LET r == NodeMouseDown(h)
           IN  /\ Fine(r) /\ Grip(r)
               /\ r.drags => h.drags \/ (r.node = h.node /\ h.node # None)
<1> DEFINE down == [h EXCEPT !.down = TRUE]
           grabbed == [down EXCEPT !.listens = FALSE, !.drags = TRUE, !.enabled = FALSE]
<1>1. NodeMouseDown(h) = IF h.node = None \/ Len(Nodes(h)) < 2 THEN down ELSE Render(grabbed)
  BY DEF NodeMouseDown
<1>2. Fine(down) /\ Grip(down)
  <2>1. DOMAIN down = DOMAIN h /\ (\A f \in Hand : down[f] = h[f]) /\ down.pending = h.pending
    BY DEF Hand
  <2>2. Grip(down)
    BY DEF Grip, Members
  <2> HIDE DEF down
  <2> QED
    BY <2>1, <2>2, SameHand
<1>3. down.drags = h.drags /\ down.node = h.node /\ down.down = TRUE
  BY DEF Fine, Sound, Stacked, Inputs
<1> HIDE DEF down
<1>4. Fine(grabbed) /\ Grip(grabbed) /\ grabbed.down = TRUE /\ grabbed.node = h.node
  <2>1. /\ DOMAIN grabbed = DOMAIN down /\ (\A f \in Hand : grabbed[f] = down[f])
        /\ grabbed.pending = down.pending /\ grabbed.down = TRUE /\ grabbed.node = h.node
    BY <1>3 DEF Hand
  <2>2. Grip(grabbed)
    BY <1>2 DEF Grip, Fine, Stacked
  <2> HIDE DEF grabbed
  <2> QED
    BY <1>2, <2>1, <2>2, SameHand
<1> HIDE DEF grabbed
<1>5. /\ Fine(Render(grabbed)) /\ Grip(Render(grabbed))
      /\ Render(grabbed).node = h.node
  BY <1>4, RenderFine DEF Fine, Holds
<1> QED
  BY <1>1, <1>2, <1>3, <1>5

LEMMA MouseDownGrab ==
    ASSUME InputOK, GrabOK, MouseDown
    PROVE  /\ GrabOK'
           /\ page'.drags /\ ~page.pending =>
                /\ page'.node \in Range(Order)
                /\ Distance2(mouse, Shown(page, page'.node))
                      < Size[page'.node] * Size[page'.node]
<1> DEFINE begun == [page EXCEPT !.captor = "mouse", !.startCam = page.cam,
                                   !.startAt = mouse, !.at = mouse]
           h == OnMove(begun, "mouse")
           found == Range(GetNodes(begun))
<1>1. /\ page.enabled = TRUE /\ page.drags = FALSE
      /\ page' = IF page.listens /\ h.listens /\ ~h.threw THEN NodeMouseDown(h) ELSE h
  BY DEF InputOK, MouseDown
<1>2. Fine(begun) /\ Grip(begun)
  <2>1. DOMAIN begun = DOMAIN page /\ (\A f \in Hand : begun[f] = page[f]) /\ begun.pending = page.pending
    BY DEF Hand
  <2>2. Grip(begun)
    BY DEF GrabOK, Grip, Members
  <2> HIDE DEF begun
  <2> QED
    BY <2>1, <2>2, SameHand DEF GrabOK
<1>3. /\ begun.at = mouse /\ begun.place = page.place /\ begun.view = page.view
      /\ begun.pending = page.pending /\ begun.drags = page.drags
  BY DEF GrabOK, Fine, Sound, Inputs, Sight
<1>4. \A n \in found :
         /\ n \in Range(Order)
         /\ Distance2(mouse, Shown(page, n)) < Size[n] * Size[n]
  <2>1. \A n : OnDisc(begun, n) => Distance2(mouse, Shown(page, n)) < Size[n] * Size[n]
    BY <1>3 DEF OnDisc, Shown
  <2> HIDE DEF begun
  <2> QED
    BY <2>1, GetNodesFound
<1> HIDE DEF begun
<1>5. /\ Fine(h) /\ Grip(h) /\ h.pending = page.pending /\ h.drags = FALSE
      /\ ~h.threw => Range(h.over["mouse"]) = found
  <2>1. "mouse" \in Captors
    BY DEF Captors
  <2>2. Fine(h) /\ Looks(begun, h) /\ Holds(begun, h)
    BY <1>2, MouseFine
  <2>3. ~h.threw => Range(h.over["mouse"]) = found
    BY <1>2, <2>1, OnMoveActs DEF Fine
  <2>4. Alike(begun, h)
    BY <1>2, <2>1, OnMoveAlike DEF Fine
  <2> HIDE DEF h, found
  <2> QED
    BY <1>1, <1>2, <1>3, <2>2, <2>3, <2>4 DEF Looks, Holds, Alike
<1> HIDE DEF h, found
<1>6. GrabOK'
  BY <1>1, <1>5, DownFine DEF GrabOK
<1>7. ASSUME page'.drags, ~page.pending
      PROVE  page'.node \in found
  <2>1. page' = NodeMouseDown(h) /\ h.listens /\ ~h.threw
    BY <1>1, <1>5, <1>7
  <2>2. page'.node = h.node /\ h.node # None
    BY <1>5, <1>7, <2>1, DownFine
  <2>3. h.node \in Members(h)
    BY <1>5, <2>1, <2>2 DEF Grip
  <2>4. Members(h) \subseteq found
    BY <1>5, <1>7, <2>1 DEF Fine, OfMouse
  <2> QED
    BY <2>2, <2>3, <2>4
<1> QED
  BY <1>4, <1>6, <1>7

LEMMA MouseUpGrab ==
    ASSUME GrabOK, MouseUp
    PROVE  GrabOK'
<1> DEFINE h == IF page.drags THEN NodeMouseUp(page) ELSE page
<1>1. PICK p : page' = LET up == UpHandler(h, p)
                         IN  IF mouse # None /\ up.enabled /\ ~up.threw THEN Click(up) ELSE up
  BY DEF MouseUp
<1>2. Fine(h) /\ Grip(h)
  <2> DEFINE freed == [page EXCEPT !.down = FALSE, !.listens = TRUE, !.drags = FALSE, !.enabled = TRUE]
             x == Render(freed)
             r == [x EXCEPT !.node = None]
  <2>1. NodeMouseUp(page) = r
    <3>1. NodeMouseUp(page) = CHOOSE s \in {[v EXCEPT !.node = None] : v \in {x}} : TRUE
      BY DEF NodeMouseUp
    <3> HIDE DEF x
    <3>2. {[v EXCEPT !.node = None] : v \in {x}} = {r}
      OBVIOUS
    <3> HIDE DEF r
    <3> QED
      BY <3>1, <3>2
  <2>2. Fine(freed)
    <3>1. DOMAIN freed = DOMAIN page /\ (\A f \in Hand : freed[f] = page[f]) /\ freed.pending = page.pending
      BY DEF Hand
    <3> HIDE DEF freed
    <3> QED
      BY <3>1, SameHand DEF GrabOK
  <2> HIDE DEF freed
  <2>3. Fine(x)
    BY <2>2, RenderFine DEF Fine
  <2> HIDE DEF x
  <2>4. DOMAIN r = DOMAIN x /\ (\A f \in Hand : r[f] = x[f]) /\ r.pending = x.pending
    BY DEF Hand
  <2>5. Grip(r)
    BY <2>3 DEF Grip, Fine, Stacked
  <2> HIDE DEF r
  <2>6. Fine(r)
    BY <2>3, <2>4, SameHand
  <2> QED
    BY <2>1, <2>5, <2>6 DEF GrabOK
<1> HIDE DEF h
<1> DEFINE let == [h EXCEPT !.captor = None, !.at = p, !.pending = @ \/ h.startAt # p]
           up == UpHandler(h, p)
<1>3. page' = IF mouse # None /\ up.enabled /\ ~up.threw THEN Click(up) ELSE up
  BY <1>1
<1>4. Fine(up) /\ Grip(up)
  <2>1. Fine(let) /\ Grip(let)
    <3>1. DOMAIN let = DOMAIN h /\ (\A f \in Hand : let[f] = h[f]) /\ (~let.pending => ~h.pending)
      <4> DEFINE due == h.pending \/ h.startAt # p
                 r == [h EXCEPT !.captor = None, !.at = p, !.pending = due]
      <4>1. let = r /\ (~due => ~h.pending)
        OBVIOUS
      <4> HIDE DEF due, let
      <4>2. DOMAIN r = DOMAIN h /\ (\A f \in Hand : r[f] = h[f])
        BY DEF Hand
      <4>3. r.pending = due
        BY <1>2 DEF Fine, Sound, Inputs
      <4> HIDE DEF r
      <4> QED
        BY <4>1, <4>2, <4>3
    <3>2. Grip(let)
      BY <1>2 DEF Grip, Members
    <3> HIDE DEF let
    <3> QED
      BY <1>2, <3>1, <3>2, SameHand
  <2>2. up = IF h.enabled /\ h.captor = "mouse" THEN OnMove(let, "mouse") ELSE h
    BY DEF UpHandler, let
  <2> HIDE DEF let, up
  <2>3. Fine(OnMove(let, "mouse")) /\ Grip(OnMove(let, "mouse"))
    BY <2>1, MouseFine DEF Holds
  <2> QED
    BY <1>2, <2>2, <2>3
<1> HIDE DEF up
<1>5. Fine(Click(up)) /\ Grip(Click(up))
  <2> DEFINE node == IF up.stack = <<>> THEN None ELSE up.node
             r == [up EXCEPT !.down = FALSE, !.drags = FALSE, !.node = node]
  <2>1. Click(up) = r
    BY DEF Click
  <2>2. node = None \/ node = up.node
    OBVIOUS
  <2> HIDE DEF node
  <2>3. DOMAIN r = DOMAIN up /\ (\A f \in Hand : r[f] = up[f]) /\ r.pending = up.pending
    BY DEF Hand
  <2>4. Grip(r)
    BY <1>4, <2>2 DEF Grip, Members, Fine, Stacked
  <2> HIDE DEF r
  <2> QED
    BY <1>4, <2>1, <2>3, <2>4, SameHand
<1> QED
  BY <1>3, <1>4, <1>5 DEF GrabOK

LEMMA TouchGrab ==
    ASSUME GrabOK, TouchStart \/ TouchMove \/ TouchEnd
    PROVE  GrabOK'
<1>1. CASE TouchStart
  <2>1. PICK p : page' = [page EXCEPT !.captor = "touch", !.startCam = page.cam, !.startAt = p]
    BY <1>1 DEF TouchStart
  <2>2. /\ DOMAIN page' = DOMAIN page /\ (\A f \in Hand : page'[f] = page[f])
        /\ page'.pending = page.pending
    BY <2>1 DEF Hand
  <2>3. Grip(page')
    BY <2>1 DEF GrabOK, Grip, Members
  <2> QED
    BY <2>2, <2>3, SameHand DEF GrabOK
<1>2. CASE TouchMove
  <2>1. PICK q, to : page' = OnMove([GoTo(page, to) EXCEPT !.at = q], "touch")
    BY <1>2 DEF TouchMove
  <2> DEFINE at == [GoTo(page, to) EXCEPT !.at = q]
  <2>2. /\ DOMAIN at = DOMAIN page /\ (\A f \in Hand : at[f] = page[f])
        /\ (at.pending <=> TRUE) /\ Grip(at)
    BY DEF GrabOK, Fine, Sound, Inputs, Hand, Grip, Members, GoTo
  <2> HIDE DEF at
  <2>3. Fine(at)
    BY <2>2, SameHand DEF GrabOK
  <2>4. Fine(OnMove(at, "touch")) /\ Holds(at, OnMove(at, "touch"))
    BY <2>2, <2>3, TouchFine
  <2> QED
    BY <2>1, <2>2, <2>4 DEF GrabOK, Holds, at
<1>3. CASE TouchEnd
  <2>1. page' = [page EXCEPT !.captor = None]
    BY <1>3 DEF TouchEnd
  <2>2. /\ DOMAIN page' = DOMAIN page /\ (\A f \in Hand : page'[f] = page[f])
        /\ page'.pending = page.pending
    BY <2>1 DEF Hand
  <2>3. Grip(page')
    BY <2>1 DEF GrabOK, Grip, Members
  <2> QED
    BY <2>2, <2>3, SameHand DEF GrabOK
<1> QED
  BY <1>1, <1>2, <1>3

LEMMA RedrawnGrab ==
    ASSUME GrabOK,
           MouseOut \/ Frame \/ Hides \/ DropsNode \/ MovesCamera
    PROVE  GrabOK'
<1>1. CASE MouseOut
  <2>1. page' = IF page.enabled THEN OnOut(page, "mouse") ELSE page
    BY <1>1 DEF MouseOut
  <2> QED
    BY <2>1, OnOutFine DEF GrabOK, Holds
<1>2. ASSUME NEW x, DOMAIN x = DOMAIN page, \A f \in Hand : x[f] = page[f],
             x.listens = page.listens, x.node = page.node
      PROVE  Fine(Render(x)) /\ Grip(Render(x))
  <2>1. /\ x.stack = page.stack /\ x.index = page.index
        /\ x.threw = page.threw /\ x.over = page.over
    BY <1>2 DEF Hand
  <2>2. Sound(x) /\ Stacked(x) /\ (~x.threw => OfBoth(x)) /\ Grip(x)
    BY <1>2, <2>1 DEF GrabOK, Fine, Sound, Stacked, OfBoth, Grip, Members
  <2> QED
    BY <2>2, RenderFine DEF Holds
<1>3. CASE Frame
  <2> DEFINE x == [page EXCEPT !.pending = FALSE]
  <2>1. page' = Render(x)
    BY <1>3 DEF Frame
  <2>2. DOMAIN x = DOMAIN page /\ (\A f \in Hand : x[f] = page[f]) /\ x.listens = page.listens /\ x.node = page.node
    BY DEF Hand
  <2> HIDE DEF x
  <2> QED
    BY <1>2, <2>1, <2>2 DEF GrabOK
<1>4. CASE Hides
  <2>1. PICK hidden : page' = Render([page EXCEPT !.hidden = hidden])
    BY <1>4 DEF Hides
  <2> DEFINE x == [page EXCEPT !.hidden = hidden]
  <2>2. DOMAIN x = DOMAIN page /\ (\A f \in Hand : x[f] = page[f]) /\ x.listens = page.listens /\ x.node = page.node
    BY DEF Hand
  <2>3. page' = Render(x)
    BY <2>1
  <2> HIDE DEF x
  <2> QED
    BY <1>2, <2>2, <2>3 DEF GrabOK
<1>5. CASE DropsNode
  <2>1. PICK gone : page' = Render([page EXCEPT !.gone = gone])
    BY <1>5 DEF DropsNode
  <2> DEFINE x == [page EXCEPT !.gone = gone]
  <2>2. DOMAIN x = DOMAIN page /\ (\A f \in Hand : x[f] = page[f]) /\ x.listens = page.listens /\ x.node = page.node
    BY DEF Hand
  <2>3. page' = Render(x)
    BY <2>1
  <2> HIDE DEF x
  <2> QED
    BY <1>2, <2>2, <2>3 DEF GrabOK
<1>6. CASE MovesCamera
  <2>1. PICK c : page' = GoTo(page, c)
    BY <1>6 DEF MovesCamera
  <2>2. /\ DOMAIN page' = DOMAIN page /\ (\A f \in Hand : page'[f] = page[f])
        /\ (page'.pending <=> TRUE) /\ Grip(page')
    BY <2>1 DEF GrabOK, Fine, Sound, Inputs, Hand, Grip, Members, GoTo
  <2> QED
    BY <2>2, SameHand DEF GrabOK
<1> QED
  BY <1>1, <1>3, <1>4, <1>5, <1>6

LEMMA StepKeepsGrab ==
    InputOK /\ GrabOK /\ [Next]_vars => GrabOK'
<1> SUFFICES ASSUME InputOK, GrabOK, [Next]_vars
             PROVE  GrabOK'
  OBVIOUS
<1>1. CASE UNCHANGED vars
  BY <1>1 DEF vars, GrabOK
<1>2. CASE Next
  BY <1>2, MouseMoveGrab, MouseDownGrab, MouseUpGrab, TouchGrab, RedrawnGrab DEF Next
<1> QED
  BY <1>1, <1>2

(* The node that the plugin begins to drag is one that was drawn under the  *)
(* mouse when the button went down, if no render was due, whatever came     *)
(* over, went out, was hidden or dropped before (nodeMouseDown).            *)
THEOREM GrabsNodeUnderMouseAlways ==
    Spec => GrabsNodeUnderMouse
<1>1. Init => InputOK /\ GrabOK
  BY FirstInputOK, FirstGrabOK
<1>2. InputOK /\ GrabOK /\ [Next]_vars => InputOK' /\ GrabOK'
  BY StepKeepsInput, StepKeepsGrab
<1> DEFINE Under == /\ page'.node \in Range(Order)
                    /\ Distance2(mouse, Shown(page, page'.node))
                          < Size[page'.node] * Size[page'.node]
           Grabs == ~page.drags /\ page'.drags /\ ~page.pending => Under
<1>3. InputOK /\ GrabOK /\ [Next]_vars => [Grabs]_vars
  <2> SUFFICES ASSUME InputOK, GrabOK, Next
               PROVE  Grabs
    OBVIOUS
  <2>1. CASE MouseDown
    BY <2>1, MouseDownGrab
  <2>2. CASE ~MouseDown
    <3>1. page'.drags => page.drags
      BY <2>2, MouseMoveOK, MouseUpOK, TouchOK, RedrawnOK DEF Next
    <3> QED
      BY <3>1
  <2> QED
    BY <2>1, <2>2
<1> HIDE DEF Grabs
<1>4. Spec => [][Grabs]_vars
  BY <1>1, <1>2, <1>3, PTL DEF Spec
<1> QED
  BY <1>4 DEF Grabs, GrabsNodeUnderMouse
=============================================================================
