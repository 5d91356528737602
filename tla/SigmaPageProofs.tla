--------------------------- MODULE SigmaPageProofs ---------------------------
(***************************************************************************)
(* The scheduler of a page that shows a graph stays in order, for any      *)
(* graph, any list of renderers, batches and frames of any size, whatever  *)
(* the page and the user do and whichever job ends in an exception.        *)
(***************************************************************************)
EXTENDS SigmaPage, TLAPS, SequenceTheorems, FiniteSetTheorems, FunctionTheorems, WellFoundedInduction

-----------------------------------------------------------------------------
(* Loops: functions that say what has been computed after n rounds.        *)

(* A set of numbers that is not empty has a least one. *)
LEMMA LeastExists ==
    ASSUME NEW S \in SUBSET Nat, S # {}
    PROVE  \E i \in S : \A j \in S : i <= j
<1> DEFINE R == OpToRel(<, Nat)
<1>1. IsWellFoundedOn(R, Nat)
  BY NatLessThanWellFounded
<1>2. PICK i \in S : \A j \in S : ~ (<<j, i>> \in R)
  <2> HIDE DEF R
  <2> QED
    BY <1>1, WFMin
<1>3. \A j \in S : ~ (j < i)
  BY <1>2 DEF OpToRel
<1> QED
  BY <1>3

\* A round of each loop: from x, with the data d, the round n.
KeepRound(x, d, n) == IF d.list[n] \in d.set THEN Append(x, d.list[n]) ELSE x
RunRound(x, d, n) == CHOOSE t \in {C!ExecuteFirstJob(s, d[n]) : s \in {x}} : TRUE
RenderRound(x, d, n) == CHOOSE u \in {Render(v, Order[n], d) : v \in {x}} : TRUE
FrameRound(x, d, n) ==
    CHOOSE u \in {IF d.raf[n] = CameraFrame THEN [v EXCEPT !.frame = FALSE]
                  ELSE AnimationStep(v, d.raf[n], d.done, d.costs) : v \in {x}} : TRUE

Round(what, x, d, n) == CASE what = "keep" -> KeepRound(x, d, n)
                          [] what = "run" -> RunRound(x, d, n)
                          [] what = "render" -> RenderRound(x, d, n)
                          [] what = "frame" -> FrameRound(x, d, n)

Rounds(f, what, first, d, n) ==
    f = [i \in 0..n |-> IF i = 0 THEN first ELSE Round(what, f[i - 1], d, i)]

(* The function that a loop computes exists. *)
LEMMA RoundsExist ==
    ASSUME NEW what, NEW first, NEW d, NEW n \in Nat
    PROVE  \E f : Rounds(f, what, first, d, n)
<1> DEFINE Step(x, i) == Round(what, x, d, i)
           S == {i \in Nat : ~ \E f : Rounds(f, what, first, d, i)}
<1>1. CASE S = {}
  BY <1>1
<1>2. CASE S # {}
  <2>1. PICK i \in S : \A j \in S : i <= j
    <3>1. S \in SUBSET Nat
      OBVIOUS
    <3> HIDE DEF S
    <3> QED
      BY <1>2, <3>1, LeastExists
  <2>2. CASE i = 0
    <3> DEFINE f == [j \in 0..0 |-> first]
    <3>1. f = [j \in 0..0 |-> IF j = 0 THEN first ELSE Step(f[j - 1], j)]
      <4> HIDE DEF Step
      <4> QED
        OBVIOUS
    <3> HIDE DEF f
    <3>2. Rounds(f, what, first, d, i)
      BY <2>2, <3>1 DEF Rounds
    <3> QED
      BY <2>1, <3>2, Zenon
  <2>3. CASE i > 0
    <3>1. i - 1 \in Nat /\ i - 1 \notin S
      BY <2>1, <2>3
    <3>2. PICK f : Rounds(f, what, first, d, i - 1)
      BY <3>1
    <3>3. f = [j \in 0..(i - 1) |-> IF j = 0 THEN first ELSE Step(f[j - 1], j)]
      BY <3>2 DEF Rounds
    <3> HIDE DEF Step
    <3> DEFINE last == IF i = 0 THEN first ELSE Step(f[i - 1], i)
               h == [j \in 0..i |-> IF j = i THEN last ELSE f[j]]
    <3> HIDE DEF last
    <3>4. ASSUME NEW j \in 0..i
          PROVE  h[j] = IF j = 0 THEN first ELSE Step(h[j - 1], j)
      <4>1. CASE j < i
        <5>1. j \in 0..(i - 1) /\ j # i /\ j - 1 # i
          BY <4>1
        <5>2. h[j] = f[j] /\ (j # 0 => h[j - 1] = f[j - 1])
          BY <5>1
        <5>3. f[j] = IF j = 0 THEN first ELSE Step(f[j - 1], j)
          BY <3>3, <5>1
        <5> HIDE DEF h
        <5> QED
          BY <5>2, <5>3
      <4>2. CASE j = i
        <5>1. h[j] = last /\ (j # 0 => h[j - 1] = f[j - 1])
          BY <4>2
        <5> HIDE DEF h
        <5> QED
          BY <4>2, <5>1 DEF last
      <4>3. j < i \/ j = i
        BY <2>1
      <4> QED
        BY <4>1, <4>2, <4>3, Zenon
    <3>5. h = [j \in 0..i |-> h[j]]
      OBVIOUS
    <3> HIDE DEF h
    <3>6. h = [j \in 0..i |-> IF j = 0 THEN first ELSE Step(h[j - 1], j)]
      BY <3>4, <3>5, Zenon
    <3>7. Rounds(h, what, first, d, i)
      BY <3>6 DEF Rounds, Step
    <3> QED
      BY <2>1, <3>7
  <2> QED
    BY <2>1, <2>2, <2>3
<1> QED
  BY <1>1, <1>2

(* Its values, round after round. *)
LEMMA EachRound ==
    ASSUME NEW f, NEW what, NEW first, NEW d, NEW n \in Nat, Rounds(f, what, first, d, n)
    PROVE  f[0] = first /\ \A i \in 1..n : f[i] = Round(what, f[i - 1], d, i)
<1> DEFINE Step(x, i) == Round(what, x, d, i)
<1>1. f = [i \in 0..n |-> IF i = 0 THEN first ELSE Step(f[i - 1], i)]
  BY DEF Rounds
<1> HIDE DEF Step
<1>2. f[0] = first /\ \A i \in 1..n : f[i] = Step(f[i - 1], i)
  BY <1>1
<1> QED
  BY <1>2 DEF Step

(* The loops of the model. *)
LEMMA KeepRounds ==
    ASSUME NEW list, NEW set, Len(list) \in Nat
    PROVE  \E f : /\ C!Kept(list, set) = f[Len(list)]
                  /\ f[0] = <<>>
                  /\ \A i \in 1..Len(list) : f[i] = IF list[i] \in set THEN Append(f[i - 1], list[i]) ELSE f[i - 1]
<1> DEFINE Is(f) == f = [n \in 0 .. Len(list) |-> IF n = 0 THEN <<>>
                ELSE IF list[n] \in set THEN Append(f[n - 1], list[n]) ELSE f[n - 1]]
           d == [list |-> list, set |-> set]
           kept == CHOOSE f : Is(f)
<1>1. \A f : Rounds(f, "keep", <<>>, d, Len(list)) <=> Is(f)
  <2>1. \A x, n : Round("keep", x, d, n) = IF list[n] \in set THEN Append(x, list[n]) ELSE x
    BY DEF Round, KeepRound
  <2> HIDE DEF d
  <2> QED
    BY <2>1 DEF Rounds
<1>2. \E f : Is(f)
  BY <1>1, RoundsExist
<1>3. C!Kept(list, set) = kept[Len(list)]
  BY DEF C!Kept
<1>4. Is(kept)
  <2> HIDE DEF Is
  <2> QED
    BY <1>2
<1> HIDE DEF kept
<1>5. /\ kept[0] = <<>>
      /\ \A i \in 1..Len(list) : kept[i] = IF list[i] \in set THEN Append(kept[i - 1], list[i]) ELSE kept[i - 1]
  <2>1. /\ kept[0] = <<>>
        /\ \A i \in 1..Len(list) : kept[i] = Round("keep", kept[i - 1], d, i)
    <3>1. Rounds(kept, "keep", <<>>, d, Len(list))
      BY <1>1, <1>4
    <3> HIDE DEF d
    <3> QED
      BY <3>1, EachRound
  <2> QED
    BY <2>1 DEF Round, KeepRound
<1> QED
  BY <1>3, <1>5

-----------------------------------------------------------------------------
(* Lists of jobs *)

Ids == Renderers \cup {Task}
JobRecords == [id : Ids, after : Ids \cup {C!NoJob}, count : Nat, done : Nat, time : Nat]

\* The job of a renderer ends itself.
Jobs == {j \in JobRecords : j.id # Task => j.count = 0}

\* q has the members of the first n of the list that are in the set, in their order:
\* h says where each of them was.
Picks(h, q, list, set, n) ==
    /\ h \in [1..Len(q) -> 1..n]
    /\ \A i, j \in 1..Len(q) : i < j => h[i] < h[j]
    /\ \A i \in 1..Len(q) : q[i] = list[h[i]] /\ list[h[i]] \in set
    /\ \A k \in 1..n : list[k] \in set => \E i \in 1..Len(q) : h[i] = k

LEMMA PicksNothing ==
    ASSUME NEW list, NEW set
    PROVE  \E h : Picks(h, <<>>, list, set, 0)
<1> DEFINE h == [i \in 1..0 |-> 0]
<1>1. Picks(h, <<>>, list, set, 0)
  BY DEF Picks
<1> QED
  BY <1>1

LEMMA PicksNext ==
    ASSUME NEW T, NEW list \in Seq(T), NEW set, NEW n \in 1..Len(list),
           NEW q \in Seq(T), NEW h, Picks(h, q, list, set, n - 1)
    PROVE  LET r == IF list[n] \in set THEN Append(q, list[n]) ELSE q
           IN  r \in Seq(T) /\ \E g : Picks(g, r, list, set, n)
<1>1. Len(q) \in Nat /\ list[n] \in T /\ n \in Nat
  BY ElementOfSeq
<1>2. CASE list[n] \in set
  <2> DEFINE r == Append(q, list[n])
             g == [i \in 1..(Len(q) + 1) |-> IF i <= Len(q) THEN h[i] ELSE n]
  <2>1. /\ r \in Seq(T) /\ Len(r) = Len(q) + 1
        /\ \A i \in 1..Len(q) : r[i] = q[i]
        /\ r[Len(q) + 1] = list[n]
    BY <1>1, AppendProperties
  <2> HIDE DEF r
  <2>2. /\ \A i \in 1..Len(q) : g[i] = h[i] /\ h[i] \in 1..(n - 1)
        /\ g[Len(q) + 1] = n
        /\ g \in [1..Len(r) -> 1..n]
    BY <1>1, <2>1, SMTT(20) DEF Picks
  <2> HIDE DEF g
  <2>3. \A i, j \in 1..Len(r) : i < j => g[i] < g[j]
    <3> TAKE i, j \in 1..Len(r)
    <3> HAVE i < j
    <3>1. i \in 1..Len(q) /\ g[i] \in 1..(n - 1)
      <4>1. i \in Nat /\ j \in Nat /\ 1 <= i /\ j <= Len(q) + 1
        BY <1>1, <2>1
      <4>2. i \in 1..Len(q)
        BY <4>1, <1>1
      <4> QED
        BY <4>2, <2>2
    <3>2. CASE j \in 1..Len(q)
      BY <3>1, <3>2, <2>2 DEF Picks
    <3>3. CASE j = Len(q) + 1
      BY <3>1, <3>3, <2>2, <1>1
    <3>4. j \in 1..Len(q) \/ j = Len(q) + 1
      BY <2>1, <1>1
    <3> QED
      BY <3>2, <3>3, <3>4
  <2>4. \A i \in 1..Len(r) : r[i] = list[g[i]] /\ list[g[i]] \in set
    <3> TAKE i \in 1..Len(r)
    <3>1. CASE i \in 1..Len(q)
      BY <3>1, <2>1, <2>2 DEF Picks
    <3>2. CASE i = Len(q) + 1
      BY <3>2, <2>1, <2>2, <1>2
    <3> QED
      BY <3>1, <3>2, <2>1, <1>1
  <2>5. \A k \in 1..n : list[k] \in set => \E i \in 1..Len(r) : g[i] = k
    <3> TAKE k \in 1..n
    <3>1. CASE k = n
      BY <3>1, <2>1, <2>2, <1>1
    <3>2. CASE k # n
      <4>1. k \in 1..(n - 1)
        BY <3>2
      <4>2. list[k] \in set => \E i \in 1..Len(q) : h[i] = k
        BY <4>1 DEF Picks
      <4> QED
        BY <4>2, <2>1, <2>2, <1>1
    <3> QED
      BY <3>1, <3>2
  <2>6. Picks(g, r, list, set, n)
    BY <2>2, <2>3, <2>4, <2>5 DEF Picks
  <2> QED
    BY <1>2, <2>1, <2>6 DEF r
<1>3. CASE list[n] \notin set
  <2>1. Picks(h, q, list, set, n)
    BY <1>1, <1>3 DEF Picks
  <2> QED
    BY <1>3, <2>1
<1> QED
  BY <1>2, <1>3

(* What Kept returns. *)
LEMMA KeptPicks ==
    ASSUME NEW T, NEW list \in Seq(T), NEW set
    PROVE  /\ C!Kept(list, set) \in Seq(T)
           /\ \E h : Picks(h, C!Kept(list, set), list, set, Len(list))
<1>1. Len(list) \in Nat
  OBVIOUS
<1>2. PICK f : /\ C!Kept(list, set) = f[Len(list)]
               /\ f[0] = <<>>
               /\ \A i \in 1..Len(list) : f[i] = IF list[i] \in set THEN Append(f[i - 1], list[i]) ELSE f[i - 1]
  BY <1>1, KeepRounds
<1> DEFINE Good(n) == f[n] \in Seq(T) /\ \E h : Picks(h, f[n], list, set, n)
           S == {n \in 0..Len(list) : ~Good(n)}
<1>3. Good(0)
  BY <1>2, PicksNothing
<1>4. \A n \in 1..Len(list) : Good(n - 1) => Good(n)
  <2> TAKE n \in 1..Len(list)
  <2> HAVE Good(n - 1)
  <2>1. PICK h : Picks(h, f[n - 1], list, set, n - 1)
    OBVIOUS
  <2>2. f[n] = IF list[n] \in set THEN Append(f[n - 1], list[n]) ELSE f[n - 1]
    BY <1>2
  <2> QED
    BY <2>1, <2>2, PicksNext
<1>5. S = {}
  <2> SUFFICES ASSUME S # {} PROVE FALSE
    OBVIOUS
  <2> HIDE DEF Good
  <2>1. S \in SUBSET Nat
    BY <1>1
  <2>2. PICK n \in S : \A m \in S : n <= m
    <3> HIDE DEF S
    <3> QED
      BY <2>1, LeastExists
  <2>3. n \in 1..Len(list) /\ n - 1 \in 0..Len(list) /\ n - 1 \notin S
    BY <1>1, <1>3, <2>2
  <2> QED
    BY <1>4, <2>2, <2>3
<1>6. Good(Len(list))
  <2> HIDE DEF Good
  <2> QED
    BY <1>1, <1>5
<1> QED
  BY <1>2, <1>6

\* No two jobs with one id; the jobs in order of the time they used.
Distinct(q) == \A i, j \in 1..Len(q) : q[i].id = q[j].id => i = j
ByTime(q) == \A i, j \in 1..Len(q) : i < j => q[i].time <= q[j].time

(* What Kept keeps of a list of jobs. *)
LEMMA KeptFacts ==
    ASSUME NEW list \in Seq(Jobs), NEW set
    PROVE  /\ C!Kept(list, set) \in Seq(Jobs)
           /\ C!IdsOf(C!Kept(list, set)) = {j.id : j \in {list[i] : i \in 1..Len(list)} \cap set}
           /\ Distinct(list) => Distinct(C!Kept(list, set))
           /\ ByTime(list) => ByTime(C!Kept(list, set))
<1> DEFINE q == C!Kept(list, set)
<1>1. q \in Seq(Jobs) /\ \E h : Picks(h, q, list, set, Len(list))
  BY KeptPicks, Zenon
<1> HIDE DEF q
<1>2. PICK h : Picks(h, q, list, set, Len(list))
  BY <1>1
<1>3. /\ Len(q) \in Nat /\ DOMAIN q = 1..Len(q) /\ Len(list) \in Nat
      /\ \A i \in 1..Len(q) : h[i] \in 1..Len(list)
  <2>1. Len(q) \in Nat /\ DOMAIN q = 1..Len(q) /\ Len(list) \in Nat
    BY <1>1, LenProperties, Zenon
  <2> QED
    BY <1>2, <2>1 DEF Picks
<1>4. C!IdsOf(q) = {j.id : j \in {list[i] : i \in 1..Len(list)} \cap set}
  <2>1. \A i \in 1..Len(q) : q[i] \in {list[k] : k \in 1..Len(list)} \cap set
    BY <1>2, <1>3 DEF Picks
  <2>2. \A j \in {list[k] : k \in 1..Len(list)} \cap set : \E i \in 1..Len(q) : q[i] = j
    <3> TAKE j \in {list[k] : k \in 1..Len(list)} \cap set
    <3>1. PICK k \in 1..Len(list) : j = list[k] /\ list[k] \in set
      OBVIOUS
    <3>2. PICK i \in 1..Len(q) : h[i] = k
      BY <1>2, <3>1 DEF Picks
    <3> QED
      BY <1>2, <3>1, <3>2 DEF Picks
  <2>3. C!IdsOf(q) = {q[i].id : i \in 1..Len(q)}
    BY <1>3 DEF C!IdsOf
  <2> DEFINE M == {list[k] : k \in 1..Len(list)} \cap set
  <2> HIDE DEF M
  <2>4. /\ \A i \in 1..Len(q) : q[i] \in M
        /\ \A j \in M : \E i \in 1..Len(q) : q[i] = j
    BY <2>1, <2>2 DEF M
  <2>5. C!IdsOf(q) = {j.id : j \in M}
    BY <2>3, <2>4
  <2> QED
    BY <2>5 DEF M
<1>5. Distinct(list) => Distinct(q)
  <2> SUFFICES ASSUME Distinct(list), NEW i \in 1..Len(q), NEW j \in 1..Len(q), q[i].id = q[j].id
               PROVE  i = j
    BY DEF Distinct
  <2>1. h[i] = h[j]
    BY <1>2, <1>3 DEF Picks, Distinct
  <2>2. (i < j => h[i] < h[j]) /\ (j < i => h[j] < h[i])
    BY <1>2 DEF Picks
  <2> QED
    BY <2>1, <2>2, <1>3
<1>6. ByTime(list) => ByTime(q)
  BY <1>2, <1>3, SMTT(20) DEF Picks, ByTime
<1> QED
  BY <1>1, <1>4, <1>5, <1>6 DEF q

LEMMA JobsAreRecords == Jobs \subseteq JobRecords
  BY DEF Jobs

(* A job that has used another time. *)
LEMMA OtherTime ==
    ASSUME NEW j \in Jobs, NEW t \in Nat
    PROVE  /\ [j EXCEPT !.time = t] \in Jobs
           /\ [j EXCEPT !.time = t].id = j.id /\ [j EXCEPT !.time = t].time = t
  BY DEF Jobs, JobRecords

(* A job that has run once more. *)
LEMMA OtherStats ==
    ASSUME NEW j \in Jobs, NEW n \in Nat, NEW t \in Nat
    PROVE  [j EXCEPT !.done = n, !.time = t] \in Jobs /\ [j EXCEPT !.done = n, !.time = t].id = j.id
<1> DEFINE k == [j EXCEPT !.done = n, !.time = t]
<1>1. j \in JobRecords /\ (j.id # Task => j.count = 0)
  BY DEF Jobs
<1>2. /\ k \in JobRecords /\ k.id = j.id /\ k.count = j.count
  BY <1>1 DEF JobRecords
<1> QED
  BY <1>1, <1>2 DEF Jobs

(* The ids of a list of jobs. *)
LEMMA IdsOfSeq ==
    ASSUME NEW q \in Seq(Jobs)
    PROVE  /\ C!IdsOf(q) = {q[i].id : i \in 1..Len(q)}
           /\ C!IdsOf(q) \subseteq Ids
           /\ q = <<>> <=> C!IdsOf(q) = {}
           /\ Len(q) \in Nat /\ DOMAIN q = 1..Len(q)
           /\ \A i \in 1..Len(q) : q[i] \in Jobs
           /\ C!ToSet(q) = {q[i] : i \in 1..Len(q)}
<1>1. Len(q) \in Nat /\ DOMAIN q = 1..Len(q) /\ \A i \in 1..Len(q) : q[i] \in Jobs
  BY LenProperties, ElementOfSeq
<1>2. C!IdsOf(q) = {q[i].id : i \in 1..Len(q)}
  BY <1>1 DEF C!IdsOf
<1>3. C!IdsOf(q) \subseteq Ids
  BY <1>1, <1>2 DEF Jobs, JobRecords
<1>4. q = <<>> <=> Len(q) = 0
  BY <1>1, EmptySeq
<1>5. Len(q) = 0 <=> C!IdsOf(q) = {}
  <2>1. CASE Len(q) = 0
    BY <2>1, <1>2
  <2>2. CASE Len(q) # 0
    <3>1. 1 \in 1..Len(q)
      BY <2>2, <1>1
    <3>2. q[1].id \in C!IdsOf(q)
      BY <3>1, <1>2
    <3> QED
      BY <2>2, <3>2
  <2> QED
    BY <2>1, <2>2
<1>6. C!ToSet(q) = {q[i] : i \in 1..Len(q)}
  BY <1>1 DEF C!ToSet
<1> QED
  BY <1>1, <1>2, <1>3, <1>4, <1>5, <1>6

LEMMA EmptyList == /\ <<>> \in Seq(Jobs) /\ C!IdsOf(<<>>) = {} /\ Distinct(<<>>) /\ ByTime(<<>>)
<1>1. <<>> \in Seq(Jobs) /\ Len(<<>>) = 0
  BY EmptySeq
<1>2. C!IdsOf(<<>>) = {}
  BY <1>1, IdsOfSeq
<1>3. Distinct(<<>>) /\ ByTime(<<>>)
  BY <1>1 DEF Distinct, ByTime
<1> QED
  BY <1>1, <1>2, <1>3

(* One list after another. *)
LEMMA JoinedLists ==
    ASSUME NEW p \in Seq(Jobs), NEW q \in Seq(Jobs), Distinct(p), Distinct(q),
           C!IdsOf(p) \cap C!IdsOf(q) = {}
    PROVE  /\ p \o q \in Seq(Jobs) /\ Distinct(p \o q)
           /\ C!IdsOf(p \o q) = C!IdsOf(p) \cup C!IdsOf(q)
<1> DEFINE r == p \o q
<1>1. /\ r \in Seq(Jobs) /\ Len(r) = Len(p) + Len(q)
      /\ \A i \in 1..Len(p) + Len(q) : r[i] = IF i <= Len(p) THEN p[i] ELSE q[i - Len(p)]
  BY ConcatProperties, Zenon
<1> HIDE DEF r
<1>2. Len(p) \in Nat /\ Len(q) \in Nat
  BY IdsOfSeq
<1>3. \A k \in 1..Len(p) : k \in 1..Len(r) /\ r[k] = p[k]
  BY <1>1, <1>2
<1>4. \A k \in 1..Len(q) : k + Len(p) \in 1..Len(r) /\ r[k + Len(p)] = q[k]
  <2> TAKE k \in 1..Len(q)
  <2>1. k + Len(p) \in 1..(Len(p) + Len(q)) /\ ~ (k + Len(p) <= Len(p)) /\ k + Len(p) - Len(p) = k
    BY <1>2
  <2> QED
    BY <2>1, <1>1
<1>5. \A i \in 1..Len(r) : i \in 1..Len(p) \/ \E k \in 1..Len(q) : i = k + Len(p)
  <2> TAKE i \in 1..Len(r)
  <2>1. i \notin 1..Len(p) => i - Len(p) \in 1..Len(q) /\ i = (i - Len(p)) + Len(p)
    BY <1>1, <1>2
  <2> QED
    BY <2>1
<1> DEFINE P == C!IdsOf(p)
           Q == C!IdsOf(q)
           R == C!IdsOf(r)
<1>6. /\ P = {p[i].id : i \in 1..Len(p)} /\ Q = {q[i].id : i \in 1..Len(q)}
      /\ R = {r[i].id : i \in 1..Len(r)}
  BY <1>1, IdsOfSeq
<1>7. P \cap Q = {}
  OBVIOUS
<1> HIDE DEF P, Q, R
<1>8. R = P \cup Q
  <2>1. \A i \in 1..Len(r) : r[i].id \in P \cup Q
    <3> TAKE i \in 1..Len(r)
    <3>1. CASE i \in 1..Len(p)
      BY <3>1, <1>3, <1>6
    <3>2. ASSUME NEW k \in 1..Len(q), i = k + Len(p) PROVE r[i].id \in P \cup Q
      BY <3>2, <1>4, <1>6
    <3> QED
      BY <3>1, <3>2, <1>5
  <2>2. \A k \in 1..Len(p) : p[k].id \in R
    BY <1>3, <1>6
  <2>3. \A k \in 1..Len(q) : q[k].id \in R
    <3> TAKE k \in 1..Len(q)
    <3>1. k + Len(p) \in 1..Len(r) /\ r[k + Len(p)].id = q[k].id
      BY <1>4
    <3> QED
      BY <3>1, <1>6
  <2> QED
    BY <2>1, <2>2, <2>3, <1>6, ZenonT(30)
<1>9. Distinct(r)
  <2> SUFFICES ASSUME NEW i \in 1..Len(r), NEW j \in 1..Len(r), r[i].id = r[j].id
               PROVE  i = j
    BY DEF Distinct
  <2>1. CASE i \in 1..Len(p) /\ j \in 1..Len(p)
    BY <2>1, <1>3 DEF Distinct
  <2>2. ASSUME NEW k \in 1..Len(q), i = k + Len(p), NEW l \in 1..Len(q), j = l + Len(p)
        PROVE  i = j
    <3>1. q[k].id = q[l].id
      BY <2>2, <1>4
    <3> QED
      BY <3>1, <2>2 DEF Distinct
  <2>3. ASSUME NEW x \in 1..Len(r), NEW y \in 1..Len(r), r[x].id = r[y].id,
               x \in 1..Len(p), NEW l \in 1..Len(q), y = l + Len(p)
        PROVE  FALSE
    <3>1. r[x].id \in P
      BY <2>3, <1>3, <1>6
    <3>2. r[y].id \in Q
      BY <2>3, <1>4, <1>6
    <3> QED
      BY <3>1, <3>2, <2>3, <1>7
  <2> QED
    BY <2>1, <2>2, <2>3, <1>5
<1> QED
  BY <1>1, <1>8, <1>9 DEF r, P, Q, R

(* The jobs of a list without one, and its two parts. *)
LEMMA OtherFacts ==
    ASSUME NEW list \in Seq(Jobs), NEW id
    PROVE  /\ C!Other(list, id) \in Seq(Jobs)
           /\ C!IdsOf(C!Other(list, id)) = C!IdsOf(list) \ {id}
           /\ Distinct(list) => Distinct(C!Other(list, id))
           /\ ByTime(list) => ByTime(C!Other(list, id))
<1> DEFINE set == {j \in C!ToSet(list) : j.id # id}
<1>1. C!Other(list, id) = C!Kept(list, set)
  BY DEF C!Other
<1> DEFINE M == {list[i] : i \in 1..Len(list)}
<1>2. {j.id : j \in M \cap set} = C!IdsOf(list) \ {id}
  <2>1. C!IdsOf(list) = {j.id : j \in M} /\ C!ToSet(list) = M
    BY IdsOfSeq
  <2> HIDE DEF M
  <2> QED
    BY <2>1
<1> HIDE DEF set
<1> QED
  BY <1>1, <1>2, KeptFacts

LEMMA PartFacts ==
    ASSUME NEW list \in Seq(Jobs), Distinct(list), NEW set \in SUBSET C!ToSet(list)
    PROVE  LET p == C!Kept(list, set)
               q == C!Kept(list, C!ToSet(list) \ set)
           IN  /\ p \in Seq(Jobs) /\ q \in Seq(Jobs) /\ Distinct(p) /\ Distinct(q)
               /\ C!IdsOf(p) \cap C!IdsOf(q) = {}
               /\ C!IdsOf(p) \cup C!IdsOf(q) = C!IdsOf(list)
<1> DEFINE M == {list[i] : i \in 1..Len(list)}
<1>1. C!IdsOf(list) = {j.id : j \in M} /\ C!ToSet(list) = M
  BY IdsOfSeq
<1>2. \A x, y \in M : x.id = y.id => x = y
  BY DEF Distinct
<1>3. /\ C!IdsOf(C!Kept(list, set)) = {j.id : j \in M \cap set}
      /\ C!IdsOf(C!Kept(list, C!ToSet(list) \ set)) = {j.id : j \in M \cap (C!ToSet(list) \ set)}
      /\ C!Kept(list, set) \in Seq(Jobs) /\ C!Kept(list, C!ToSet(list) \ set) \in Seq(Jobs)
      /\ Distinct(C!Kept(list, set)) /\ Distinct(C!Kept(list, C!ToSet(list) \ set))
  BY KeptFacts
<1>4. set \subseteq M
  BY <1>1
<1> HIDE DEF M
<1>5. {j.id : j \in M \cap set} \cap {j.id : j \in M \cap (M \ set)} = {}
  BY <1>2
<1>6. {j.id : j \in M \cap set} \cup {j.id : j \in M \cap (M \ set)} = {j.id : j \in M}
  BY <1>4
<1> QED
  BY <1>1, <1>3, <1>5, <1>6
-----------------------------------------------------------------------------
(* The scheduler *)

SchedFields == {"jobs", "waiting", "running", "sorted", "isRunning", "timers"}

Added(c) == C!IdsOf(c.jobs)
Waiting(c) == C!IdsOf(c.waiting)
Line(c) == C!IdsOf(c.sorted)
Known(c) == Added(c) \cup c.running \cup Waiting(c)

\* Its lists, and a job in one of them only.
ListsOK(c) ==
    /\ DOMAIN c = SchedFields
    /\ c.jobs \in Seq(Jobs) /\ c.waiting \in Seq(Jobs) /\ c.sorted \in Seq(Jobs)
    /\ Distinct(c.jobs) /\ Distinct(c.waiting) /\ Distinct(c.sorted)
    /\ ByTime(c.sorted) /\ Line(c) \subseteq c.running /\ c.running \subseteq Ids
    /\ c.running \cap Added(c) = {} /\ c.running \cap Waiting(c) = {}
    /\ Added(c) \cap Waiting(c) = {}

\* The jobs behind those in the line, with the time of the last.
StartTime(c) == IF c.sorted = <<>> THEN 0 ELSE C!Last(c.sorted).time
Behind(c, list) == [i \in DOMAIN list |-> [list[i] EXCEPT !.time = StartTime(c)]]

LEMMA StartIsLast ==
    ASSUME NEW c, c.sorted \in Seq(Jobs), ByTime(c.sorted)
    PROVE  /\ StartTime(c) \in Nat
           /\ \A i \in 1..Len(c.sorted) : c.sorted[i].time <= StartTime(c) /\ c.sorted[i].time \in Nat
<1> DEFINE q == c.sorted
<1>1. /\ Len(q) \in Nat /\ (q = <<>> <=> Len(q) = 0)
      /\ \A i \in 1..Len(q) : q[i].time \in Nat
  BY IdsOfSeq, EmptySeq DEF Jobs, JobRecords
<1>2. CASE Len(q) = 0
  BY <1>1, <1>2 DEF StartTime
<1>3. CASE Len(q) # 0
  <2>1. StartTime(c) = q[Len(q)].time
    BY <1>1, <1>3 DEF StartTime, C!Last
  <2>2. Len(q) \in 1..Len(q)
    BY <1>1, <1>3
  <2> HIDE DEF q
  <2>3. \A i \in 1..Len(q) : q[i].time <= q[Len(q)].time
    <3> TAKE i \in 1..Len(q)
    <3>1. i = Len(q) \/ i < Len(q)
      BY <1>1
    <3>2. i < Len(q) => q[i].time <= q[Len(q)].time
      BY <2>2 DEF ByTime, q
    <3> QED
      BY <1>1, <2>2, <3>1, <3>2
  <2> QED
    BY <1>1, <2>1, <2>2, <2>3 DEF q
<1> QED
  BY <1>2, <1>3

LEMMA BehindFacts ==
    ASSUME NEW c, c.sorted \in Seq(Jobs), ByTime(c.sorted), NEW list \in Seq(Jobs)
    PROVE  /\ Behind(c, list) \in Seq(Jobs)
           /\ C!IdsOf(Behind(c, list)) = C!IdsOf(list)
           /\ Distinct(list) => Distinct(Behind(c, list))
           /\ \A i \in 1..Len(Behind(c, list)) : Behind(c, list)[i].time = StartTime(c)
<1> DEFINE q == Behind(c, list)
           t == StartTime(c)
<1>1. t \in Nat
  BY StartIsLast, Zenon
<1>2. q = [i \in DOMAIN list |-> [list[i] EXCEPT !.time = t]]
  BY DEF Behind
<1> HIDE DEF q, t
<1>3. /\ DOMAIN list = 1..Len(list) /\ Len(list) \in Nat /\ \A i \in 1..Len(list) : list[i] \in Jobs
      /\ C!IdsOf(list) = {list[i].id : i \in 1..Len(list)}
  BY IdsOfSeq
<1>4. /\ DOMAIN q = 1..Len(list)
      /\ \A i \in 1..Len(list) : q[i] \in Jobs /\ q[i].id = list[i].id /\ q[i].time = t
  BY <1>1, <1>2, <1>3, OtherTime
<1>5. q \in Seq(Jobs) /\ Len(q) = Len(list)
  <2>1. q = [i \in 1..Len(list) |-> q[i]]
    BY <1>2, <1>3
  <2>2. q \in [1..Len(list) -> Jobs]
    BY <1>4, <2>1
  <2> QED
    BY <2>2, <1>3
<1>6. C!IdsOf(q) = C!IdsOf(list)
  <2>1. C!IdsOf(q) = {q[i].id : i \in 1..Len(list)}
    BY <1>5, IdsOfSeq
  <2> QED
    BY <2>1, <1>3, <1>4
<1>7. Distinct(list) => Distinct(q)
  BY <1>4, <1>5 DEF Distinct
<1> QED
  BY <1>4, <1>5, <1>6, <1>7 DEF q, t

(* Jobs that the scheduler does not know are activated. *)
LEMMA ActivateOK ==
    ASSUME NEW c, ListsOK(c), NEW list \in Seq(Jobs), Distinct(list), C!IdsOf(list) \cap Known(c) = {}
    PROVE  LET d == C!Activate(c, list)
           IN  /\ ListsOK(d)
               /\ d.jobs = c.jobs /\ d.waiting = c.waiting
               /\ d.isRunning = c.isRunning /\ d.timers = c.timers
               /\ d.running = c.running \cup C!IdsOf(list)
               /\ Line(d) = Line(c) \cup C!IdsOf(list)
<1> DEFINE d == C!Activate(c, list)
           q == Behind(c, list)
           L == C!IdsOf(list)
           s == c.sorted
<1>1. d = [c EXCEPT !.running = @ \cup L, !.sorted = @ \o q]
  BY DEF C!Activate, Behind, StartTime
<1>2. c.sorted \in Seq(Jobs) /\ ByTime(c.sorted) /\ DOMAIN c = SchedFields
  BY DEF ListsOK
<1>3. /\ q \in Seq(Jobs) /\ C!IdsOf(q) = L /\ Distinct(q)
      /\ \A i \in 1..Len(q) : q[i].time = StartTime(c)
  BY <1>2, BehindFacts
<1> HIDE DEF d, q
<1>4. DOMAIN d = SchedFields
  BY <1>1, <1>2
<1>5. d.jobs = c.jobs /\ d.waiting = c.waiting
  BY <1>1, <1>2 DEF SchedFields
<1>6. d.isRunning = c.isRunning /\ d.timers = c.timers
  BY <1>1, <1>2 DEF SchedFields
<1>7. d.running = c.running \cup L
  BY <1>1, <1>2 DEF SchedFields
<1>8. d.sorted = s \o q
  BY <1>1, <1>2 DEF SchedFields
<1>9. C!IdsOf(s) \cap C!IdsOf(q) = {}
  BY <1>3 DEF ListsOK, Known, Line
<1>10. /\ d.sorted \in Seq(Jobs) /\ Distinct(d.sorted)
       /\ C!IdsOf(d.sorted) = C!IdsOf(s) \cup L
  <2>1. Distinct(s)
    BY DEF ListsOK
  <2> QED
    BY <1>2, <1>3, <1>8, <1>9, <2>1, JoinedLists
<1>11. ByTime(d.sorted)
  <2>1. /\ Len(s \o q) = Len(s) + Len(q)
        /\ \A i \in 1 .. Len(s) + Len(q) : (s \o q)[i] = IF i <= Len(s) THEN s[i] ELSE q[i - Len(s)]
    BY <1>2, <1>3, ConcatProperties, ZenonT(30)
  <2>2. /\ StartTime(c) \in Nat
        /\ \A i \in 1..Len(s) : s[i].time <= StartTime(c) /\ s[i].time \in Nat
    BY <1>2, StartIsLast
  <2>3. Len(s) \in Nat /\ Len(q) \in Nat
    BY <1>2, <1>3
  <2> DEFINE r == s \o q
             t == StartTime(c)
  <2>4. /\ \A i \in 1..Len(s) : r[i] = s[i]
        /\ \A i \in 1..Len(r) : i \notin 1..Len(s) => r[i].time = t
    <3>1. \A i \in 1..Len(r) : i \notin 1..Len(s) => i - Len(s) \in 1..Len(q) /\ r[i] = q[i - Len(s)]
      BY <2>1, <2>3
    <3> HIDE DEF r, t
    <3>2. \A i \in 1..Len(s) : r[i] = s[i]
      BY <2>1, <2>3 DEF r
    <3> QED
      BY <3>1, <3>2, <1>3 DEF t
  <2> HIDE DEF r, t, s
  <2>5. ASSUME NEW i \in 1..Len(r), NEW j \in 1..Len(r), i < j
        PROVE  r[i].time <= r[j].time
    <3>1. CASE j \in 1..Len(s)
      <4>1. i \in 1..Len(s)
        BY <3>1, <2>5, <2>3
      <4> QED
        BY <4>1, <3>1, <2>4, <2>5, <1>2 DEF ByTime, s
    <3>2. CASE j \notin 1..Len(s) /\ i \in 1..Len(s)
      BY <3>2, <2>2, <2>4 DEF s, t
    <3>3. CASE j \notin 1..Len(s) /\ i \notin 1..Len(s)
      BY <3>3, <2>2, <2>4 DEF t
    <3> QED
      BY <3>1, <3>2, <3>3
  <2> QED
    BY <2>5, <1>8 DEF ByTime, r, s
<1>12. L \subseteq Ids
  BY IdsOfSeq
<1>13. ListsOK(d)
  <2>1. Added(d) = Added(c) /\ Waiting(d) = Waiting(c) /\ Line(d) = Line(c) \cup L
    BY <1>5, <1>10 DEF Added, Waiting, Line
  <2>2. c.running \subseteq Ids /\ Line(c) \subseteq c.running
    BY DEF ListsOK
  <2>3. /\ L \cap Added(c) = {} /\ L \cap Waiting(c) = {}
        /\ c.running \cap Added(c) = {} /\ c.running \cap Waiting(c) = {}
        /\ Added(c) \cap Waiting(c) = {}
    BY DEF ListsOK, Known
  <2>4. /\ d.jobs \in Seq(Jobs) /\ d.waiting \in Seq(Jobs)
        /\ Distinct(d.jobs) /\ Distinct(d.waiting)
    BY <1>5 DEF ListsOK
  <2> HIDE DEF L
  <2>5. /\ Line(d) \subseteq d.running /\ d.running \subseteq Ids
        /\ d.running \cap Added(d) = {} /\ d.running \cap Waiting(d) = {}
        /\ Added(d) \cap Waiting(d) = {}
    BY <1>7, <1>12, <2>1, <2>2, <2>3
  <2> QED
    BY <1>4, <1>10, <1>11, <2>4, <2>5, Zenon DEF ListsOK
<1> QED
  BY <1>5, <1>6, <1>7, <1>10, <1>13 DEF d, Line

(* A job is killed. *)
LEMMA KillOK ==
    ASSUME NEW c, ListsOK(c), NEW id
    PROVE  LET d == C!KillJob(c, id)
           IN  /\ ListsOK(d)
               /\ d.isRunning = c.isRunning /\ d.timers = c.timers
               /\ d.running = c.running \ {id} /\ Line(d) = Line(c) \ {id}
               /\ Added(d) = Added(c) \ {id} /\ Waiting(d) = Waiting(c) \ {id}
               /\ Known(d) = Known(c) \ {id}
<1> DEFINE d == C!KillJob(c, id)
<1>1. d = [c EXCEPT !.jobs = C!Other(c.jobs, id), !.waiting = C!Other(c.waiting, id),
                    !.running = c.running \ {id}, !.sorted = C!Other(c.sorted, id)]
  BY DEF C!KillJob
<1>2. DOMAIN c = SchedFields
  BY DEF ListsOK
<1> HIDE DEF d
<1>3. DOMAIN d = SchedFields
  BY <1>1, <1>2
<1>4. d.jobs = C!Other(c.jobs, id)
  BY <1>1, <1>2 DEF SchedFields
<1>5. d.waiting = C!Other(c.waiting, id)
  BY <1>1, <1>2 DEF SchedFields
<1>6. d.running = c.running \ {id}
  BY <1>1, <1>2 DEF SchedFields
<1>7. d.sorted = C!Other(c.sorted, id)
  BY <1>1, <1>2 DEF SchedFields
<1>8. d.isRunning = c.isRunning /\ d.timers = c.timers
  BY <1>1, <1>2 DEF SchedFields
<1>9. d.jobs \in Seq(Jobs) /\ Distinct(d.jobs) /\ Added(d) = Added(c) \ {id}
  BY <1>4, OtherFacts DEF ListsOK, Added
<1>10. d.waiting \in Seq(Jobs) /\ Distinct(d.waiting) /\ Waiting(d) = Waiting(c) \ {id}
  BY <1>5, OtherFacts DEF ListsOK, Waiting
<1>11. d.sorted \in Seq(Jobs) /\ Distinct(d.sorted) /\ ByTime(d.sorted) /\ Line(d) = Line(c) \ {id}
  BY <1>7, OtherFacts DEF ListsOK, Line
<1>12. /\ Line(d) \subseteq d.running /\ d.running \subseteq Ids
       /\ d.running \cap Added(d) = {} /\ d.running \cap Waiting(d) = {}
       /\ Added(d) \cap Waiting(d) = {}
  <2>1. /\ Line(c) \subseteq c.running /\ c.running \subseteq Ids
        /\ c.running \cap Added(c) = {} /\ c.running \cap Waiting(c) = {}
        /\ Added(c) \cap Waiting(c) = {}
    BY DEF ListsOK
  <2> QED
    BY <2>1, <1>6, <1>9, <1>10, <1>11
<1>13. ListsOK(d)
  BY <1>3, <1>9, <1>10, <1>11, <1>12, Zenon DEF ListsOK
<1>14. Known(d) = Known(c) \ {id}
  BY <1>6, <1>9, <1>10 DEF Known
<1> QED
  BY <1>6, <1>8, <1>9, <1>10, <1>11, <1>13, <1>14 DEF d

(* Only differences of times matter. *)
LEMMA SettleOK ==
    ASSUME NEW list \in Seq(Jobs), Distinct(list), ByTime(list)
    PROVE  LET q == C!Settle(list)
           IN  q \in Seq(Jobs) /\ Distinct(q) /\ ByTime(q) /\ C!IdsOf(q) = C!IdsOf(list)
<1>1. CASE list = <<>>
  BY <1>1 DEF C!Settle
<1>2. CASE list # <<>>
  <2> DEFINE T == {list[i].time : i \in DOMAIN list}
             Low(t) == \A i \in DOMAIN list : t <= list[i].time
             least == CHOOSE t \in T : Low(t)
             q == [i \in DOMAIN list |-> [list[i] EXCEPT !.time = @ - least]]
  <2>1. C!Settle(list) = q
    BY <1>2 DEF C!Settle
  <2>2. /\ DOMAIN list = 1..Len(list) /\ Len(list) \in Nat /\ \A i \in 1..Len(list) : list[i] \in Jobs
        /\ C!IdsOf(list) = {list[i].id : i \in 1..Len(list)}
    BY IdsOfSeq
  <2>3. \A i \in 1..Len(list) : list[i].time \in Nat
    BY <2>2 DEF Jobs, JobRecords
  <2>4. T \in SUBSET Nat /\ T # {}
    <3>1. Len(list) # 0
      BY <1>2, EmptySeq
    <3>2. 1 \in DOMAIN list
      BY <2>2, <3>1
    <3> QED
      BY <2>2, <2>3, <3>2
  <2>5. \E t \in T : Low(t)
    <3>1. PICK t \in T : \A u \in T : t <= u
      <4> HIDE DEF T
      <4> QED
        BY <2>4, LeastExists
    <3> QED
      BY <3>1
  <2>6. least \in T /\ Low(least)
    <3> HIDE DEF T, Low
    <3> QED
      BY <2>5
  <2>7. least \in Nat /\ \A i \in 1..Len(list) : least <= list[i].time
    BY <2>2, <2>4, <2>6
  <2> HIDE DEF least
  <2>8. \A i \in 1..Len(list) : /\ list[i].time - least \in Nat
                                /\ q[i] = [list[i] EXCEPT !.time = list[i].time - least]
    BY <2>2, <2>3, <2>7
  <2>9. DOMAIN q = 1..Len(list)
    BY <2>2
  <2>10. \A i \in 1..Len(list) : /\ q[i] \in Jobs /\ q[i].id = list[i].id
                                 /\ q[i].time = list[i].time - least
    <3> TAKE i \in 1..Len(list)
    <3> DEFINE t == list[i].time - least
               j == list[i]
    <3>1. j \in Jobs /\ t \in Nat /\ q[i] = [j EXCEPT !.time = t]
      BY <2>2, <2>8
    <3> HIDE DEF q, j, t
    <3>2. q[i] \in Jobs /\ q[i].id = j.id /\ q[i].time = t
      BY <3>1, OtherTime
    <3> QED
      BY <3>2 DEF j, t
  <2>11. q \in Seq(Jobs) /\ Len(q) = Len(list)
    <3>1. q = [i \in 1..Len(list) |-> q[i]]
      BY <2>2
    <3> HIDE DEF q
    <3>2. q \in [1..Len(list) -> Jobs]
      BY <2>10, <3>1
    <3> QED
      BY <3>2, <2>2
  <2> HIDE DEF q
  <2>12. C!IdsOf(q) = C!IdsOf(list)
    <3>1. C!IdsOf(q) = {q[i].id : i \in 1..Len(list)}
      BY <2>11, IdsOfSeq
    <3> QED
      BY <3>1, <2>2, <2>10
  <2>13. Distinct(q)
    BY <2>10, <2>11 DEF Distinct
  <2>14. ByTime(q)
    <3> SUFFICES ASSUME NEW i \in 1..Len(q), NEW j \in 1..Len(q), i < j
                 PROVE  q[i].time <= q[j].time
      BY DEF ByTime
    <3>1. list[i].time <= list[j].time
      BY <2>11 DEF ByTime
    <3> QED
      BY <3>1, <2>3, <2>7, <2>10, <2>11
  <2> QED
    BY <2>1, <2>11, <2>12, <2>13, <2>14
<1> QED
  BY <1>1, <1>2

(* The place where a job goes back. *)
LEMMA PlaceFound ==
    ASSUME NEW list \in Seq(Jobs), ByTime(list), NEW t \in Nat
    PROVE  LET later == {i \in DOMAIN list : list[i].time > t}
               before == IF later = {} THEN Len(list)
                                       ELSE (CHOOSE i \in later : \A j \in later : i <= j) - 1
           IN  /\ before \in 0..Len(list)
               /\ \A i \in 1..Len(list) : IF i <= before THEN list[i].time <= t ELSE t <= list[i].time
<1> DEFINE later == {i \in DOMAIN list : list[i].time > t}
           first == CHOOSE i \in later : \A j \in later : i <= j
<1>1. /\ DOMAIN list = 1..Len(list) /\ Len(list) \in Nat
      /\ \A i \in 1..Len(list) : list[i].time \in Nat
  BY IdsOfSeq DEF Jobs, JobRecords
<1>2. CASE later = {}
  BY <1>1, <1>2
<1>3. CASE later # {}
  <2>1. later \in SUBSET Nat
    BY <1>1
  <2>2. first \in later /\ \A j \in later : first <= j
    <3> HIDE DEF later
    <3> QED
      BY <1>3, <2>1, LeastExists
  <2> HIDE DEF first
  <2>3. first \in 1..Len(list) /\ list[first].time > t
    BY <1>1, <2>2
  <2>4. \A i \in 1..Len(list) : i < first => list[i].time <= t
    BY <1>1, <2>2, <2>3
  <2>5. \A i \in 1..Len(list) : i >= first => t <= list[i].time
    <3> TAKE i \in 1..Len(list)
    <3> HAVE i >= first
    <3>1. i # first => list[first].time <= list[i].time
      BY <2>3, <1>1 DEF ByTime
    <3> QED
      BY <3>1, <2>3, <1>1
  <2>6. first - 1 \in 0..Len(list)
    BY <2>3, <1>1
  <2>7. \A i \in 1..Len(list) : IF i <= first - 1 THEN list[i].time <= t ELSE t <= list[i].time
    BY <2>3, <2>4, <2>5, <1>1
  <2> QED
    BY <1>3, <2>6, <2>7 DEF first
<1> QED
  BY <1>2, <1>3

\* The list with a job after the first b.
Inserted(list, job, b) == SubSeq(list, 1, b) \o <<job>> \o SubSeq(list, b + 1, Len(list))

LEMMA InsertedAt ==
    ASSUME NEW list \in Seq(Jobs), NEW job \in Jobs, NEW b \in 0..Len(list)
    PROVE  LET r == Inserted(list, job, b)
           IN  /\ r \in Seq(Jobs) /\ Len(r) = Len(list) + 1
               /\ \A i \in 1..b : r[i] = list[i]
               /\ r[b + 1] = job
               /\ \A i \in (b + 1)..Len(list) : r[i + 1] = list[i]
<1> DEFINE p == SubSeq(list, 1, b)
           q == SubSeq(list, b + 1, Len(list))
           o == <<job>>
           n == Len(list)
<1>1. Len(list) \in Nat /\ b \in Int /\ \A i \in 1..Len(list) : list[i] \in Jobs
  BY IdsOfSeq
<1>2. p \in Seq(Jobs) /\ Len(p) = b /\ \A i \in 1..b : p[i] = list[i]
  <2>1. \A i \in 1..b : list[i] \in Jobs
    BY <1>1
  <2>2. /\ p \in Seq(Jobs) /\ Len(p) = (IF 1 <= b THEN b - 1 + 1 ELSE 0)
        /\ \A i \in 1..(b - 1 + 1) : p[i] = list[1 + i - 1]
    BY <1>1, <2>1, SubSeqProperties
  <2> HIDE DEF p
  <2> QED
    BY <2>2, <1>1
<1>3. q \in Seq(Jobs) /\ Len(q) = n - b /\ \A i \in 1..(n - b) : q[i] = list[i + b]
  <2>1. \A i \in (b + 1)..n : list[i] \in Jobs
    BY <1>1
  <2>2. /\ q \in Seq(Jobs) /\ Len(q) = (IF b + 1 <= n THEN n - (b + 1) + 1 ELSE 0)
        /\ \A i \in 1..(n - (b + 1) + 1) : q[i] = list[(b + 1) + i - 1]
    BY <1>1, <2>1, SubSeqProperties
  <2> HIDE DEF q
  <2>3. n - (b + 1) + 1 = n - b /\ \A i \in 1..(n - b) : (b + 1) + i - 1 = i + b
    BY <1>1
  <2>4. Len(q) = n - b
    BY <2>2, <1>1
  <2>5. \A i \in 1..(n - b) : q[i] = list[i + b]
    <3> TAKE i \in 1..(n - b)
    <3>1. i \in 1..(n - (b + 1) + 1)
      BY <2>3
    <3>2. q[i] = list[(b + 1) + i - 1]
      BY <2>2, <3>1
    <3> QED
      BY <2>3, <3>2
  <2> QED
    BY <2>2, <2>4, <2>5
<1>4. o \in Seq(Jobs) /\ Len(o) = 1 /\ o[1] = job
  OBVIOUS
<1> HIDE DEF p, q, o
<1>5. /\ p \o o \in Seq(Jobs) /\ Len(p \o o) = b + 1
      /\ \A i \in 1..b + 1 : (p \o o)[i] = IF i <= b THEN p[i] ELSE o[i - b]
  <2>1. /\ p \o o \in Seq(Jobs) /\ Len(p \o o) = Len(p) + Len(o)
        /\ \A i \in 1..Len(p) + Len(o) : (p \o o)[i] = IF i <= Len(p) THEN p[i] ELSE o[i - Len(p)]
    BY <1>2, <1>4, ConcatProperties, Zenon
  <2> QED
    BY <2>1, <1>2, <1>4
<1> DEFINE po == p \o o
           r == po \o q
<1>6. /\ \A i \in 1..b : po[i] = list[i]
      /\ po[b + 1] = job
  BY <1>1, <1>2, <1>4, <1>5
<1>7. po \in Seq(Jobs) /\ Len(po) = b + 1
  BY <1>5
<1> HIDE DEF po
<1>8. /\ r \in Seq(Jobs) /\ Len(r) = (b + 1) + (n - b)
      /\ \A i \in 1..(b + 1) + (n - b) : r[i] = IF i <= b + 1 THEN po[i] ELSE q[i - (b + 1)]
  <2>1. /\ r \in Seq(Jobs) /\ Len(r) = Len(po) + Len(q)
        /\ \A i \in 1..Len(po) + Len(q) : r[i] = IF i <= Len(po) THEN po[i] ELSE q[i - Len(po)]
    BY <1>3, <1>7, ConcatProperties, Zenon
  <2> HIDE DEF r
  <2> QED
    BY <2>1, <1>3, <1>7
<1> HIDE DEF r
<1>9. Len(r) = n + 1
  BY <1>1, <1>8
<1>10. \A i \in 1..b : r[i] = list[i]
  <2> TAKE i \in 1..b
  <2>1. i \in 1..(b + 1) + (n - b) /\ i <= b + 1
    BY <1>1
  <2> QED
    BY <1>6, <1>8, <2>1
<1>11. r[b + 1] = job
  <2>1. b + 1 \in 1..(b + 1) + (n - b) /\ b + 1 <= b + 1
    BY <1>1
  <2> QED
    BY <1>6, <1>8, <2>1
<1>12. \A i \in (b + 1)..n : r[i + 1] = list[i]
  <2> TAKE i \in (b + 1)..n
  <2>1. i + 1 \in 1..(b + 1) + (n - b) /\ ~ (i + 1 <= b + 1) /\ i + 1 - (b + 1) = i - b
    BY <1>1
  <2>2. i - b \in 1..(n - b) /\ i - b + b = i
    BY <1>1
  <2> QED
    BY <2>1, <2>2, <1>3, <1>8
<1>13. r = Inserted(list, job, b)
  BY DEF r, po, p, o, q, Inserted
<1> QED
  BY <1>8, <1>9, <1>10, <1>11, <1>12, <1>13

(* A job that is not in the line goes back to its place. *)
LEMMA ReinsertOK ==
    ASSUME NEW list \in Seq(Jobs), Distinct(list), ByTime(list),
           NEW job \in Jobs, job.id \notin C!IdsOf(list)
    PROVE  LET r == C!Reinsert(list, job)
           IN  /\ r \in Seq(Jobs) /\ Distinct(r) /\ ByTime(r)
               /\ C!IdsOf(r) = C!IdsOf(list) \cup {job.id}
<1>1. PICK b : /\ b \in 0..Len(list) /\ C!Reinsert(list, job) = Inserted(list, job, b)
               /\ \A i \in 1..Len(list) :
                     IF i <= b THEN list[i].time <= job.time ELSE job.time <= list[i].time
  <2> DEFINE later == {i \in DOMAIN list : list[i].time > job.time}
             before == IF later = {} THEN Len(list)
                                     ELSE (CHOOSE i \in later : \A j \in later : i <= j) - 1
  <2>1. job.time \in Nat
    BY DEF Jobs, JobRecords
  <2>2. /\ before \in 0..Len(list)
        /\ \A i \in 1..Len(list) :
              IF i <= before THEN list[i].time <= job.time ELSE job.time <= list[i].time
    BY <2>1, PlaceFound
  <2>3. C!Reinsert(list, job) = Inserted(list, job, before)
    BY DEF C!Reinsert, Inserted
  <2> HIDE DEF before
  <2> QED
    BY <2>2, <2>3
<1> DEFINE r == Inserted(list, job, b)
           n == Len(list)
<1>2. /\ r \in Seq(Jobs) /\ Len(r) = n + 1
      /\ \A i \in 1..b : r[i] = list[i]
      /\ r[b + 1] = job
      /\ \A i \in (b + 1)..n : r[i + 1] = list[i]
  BY <1>1, InsertedAt, ZenonT(30)
<1> HIDE DEF r
<1>3. /\ n \in Nat /\ \A i \in 1..n : list[i].time \in Nat
      /\ job.time \in Nat
  BY IdsOfSeq DEF Jobs, JobRecords
\* Every place of r has the job or a member of the list.
<1> DEFINE old(i) == IF i <= b THEN i ELSE i - 1
<1>4. \A i \in 1..Len(r) : i # b + 1 => old(i) \in 1..n /\ r[i] = list[old(i)]
  <2> TAKE i \in 1..Len(r)
  <2> HAVE i # b + 1
  <2>1. CASE i <= b
    BY <1>1, <1>2, <1>3, <2>1
  <2>2. CASE ~ (i <= b)
    <3>1. i - 1 \in (b + 1)..n /\ i - 1 + 1 = i
      BY <1>1, <1>2, <1>3, <2>2
    <3> QED
      BY <3>1, <2>2, <1>1, <1>2, <1>3
  <2> QED
    BY <2>1, <2>2
<1>5. \A i, j \in 1..Len(r) : i # b + 1 /\ j # b + 1 =>
            (i < j => old(i) < old(j)) /\ (old(i) = old(j) => i = j)
  BY <1>1, <1>2, <1>3
<1>6. C!IdsOf(list) = {list[i].id : i \in 1..n} /\ C!IdsOf(r) = {r[i].id : i \in 1..Len(r)}
  BY <1>2, IdsOfSeq
<1>7. C!IdsOf(r) = C!IdsOf(list) \cup {job.id}
  <2>1. \A i \in 1..Len(r) : r[i].id \in C!IdsOf(list) \cup {job.id}
    <3> HIDE DEF old
    <3> QED
      BY <1>2, <1>4, <1>6
  <2>2. \A i \in 1..n : list[i].id \in C!IdsOf(r)
    <3> TAKE i \in 1..n
    <3>1. CASE i \in 1..b
      <4>1. i \in 1..Len(r) /\ r[i] = list[i]
        BY <1>1, <1>2, <1>3, <3>1
      <4> QED
        BY <4>1, <1>6
    <3>2. CASE i \in (b + 1)..n
      <4>1. i + 1 \in 1..Len(r) /\ r[i + 1] = list[i]
        BY <1>1, <1>2, <1>3, <3>2
      <4> QED
        BY <4>1, <1>6
    <3> QED
      BY <3>1, <3>2, <1>1, <1>3
  <2>3. job.id \in C!IdsOf(r)
    <3>1. b + 1 \in 1..Len(r)
      BY <1>1, <1>2, <1>3
    <3> QED
      BY <3>1, <1>2, <1>6
  <2> QED
    BY <2>1, <2>2, <2>3, <1>6
<1> HIDE DEF old
<1>8. Distinct(r)
  <2> SUFFICES ASSUME NEW i \in 1..Len(r), NEW j \in 1..Len(r), r[i].id = r[j].id
               PROVE  i = j
    BY DEF Distinct
  <2>1. CASE i # b + 1 /\ j # b + 1
    <3>1. old(i) = old(j)
      BY <2>1, <1>4 DEF Distinct
    <3> QED
      BY <2>1, <3>1, <1>5
  <2>2. \A k \in 1..Len(r) : k # b + 1 => r[k].id # job.id
    BY <1>4, <1>6
  <2> QED
    BY <2>1, <2>2, <1>2
<1>9. ByTime(r)
  <2> SUFFICES ASSUME NEW i \in 1..Len(r), NEW j \in 1..Len(r), i < j
               PROVE  r[i].time <= r[j].time
    BY DEF ByTime
  <2>1. CASE i # b + 1 /\ j # b + 1
    <3>1. old(i) < old(j) /\ old(i) \in 1..n /\ old(j) \in 1..n
      BY <2>1, <1>4, <1>5
    <3> QED
      BY <2>1, <3>1, <1>4 DEF ByTime
  <2>2. CASE i = b + 1
    <3>1. j # b + 1 /\ ~ (old(j) <= b)
      BY <2>2, <1>1, <1>2, <1>3 DEF old
    <3> QED
      BY <3>1, <2>2, <1>1, <1>2, <1>4
  <2>3. CASE j = b + 1
    <3>1. i # b + 1 /\ old(i) <= b
      BY <2>3, <1>1, <1>2, <1>3 DEF old
    <3> QED
      BY <3>1, <2>3, <1>1, <1>2, <1>4
  <2> QED
    BY <2>1, <2>2, <2>3
<1> QED
  BY <1>1, <1>2, <1>7, <1>8, <1>9 DEF r

\* All that a job list says is what is in it.
Whole(c) ==
    /\ Line(c) = c.running
    /\ c.isRunning \in BOOLEAN /\ c.timers = IF c.isRunning THEN 1 ELSE 0
    /\ Added(c) \cup Line(c) # {} => c.isRunning = TRUE

(* The beginning of the loop. *)
LEMMA TakeInOK ==
    ASSUME NEW c, ListsOK(c)
    PROVE  LET d == C!TakeIn(c)
           IN  /\ ListsOK(d) /\ Known(d) = Known(c) /\ Added(d) = {}
               /\ d.timers = c.timers
               /\ d.isRunning \in BOOLEAN /\ (d.isRunning = TRUE <=> Line(d) # {})
               /\ Line(c) = c.running => Line(d) = d.running
<1> DEFINE free == {j \in C!ToSet(c.jobs) : j.after = C!NoJob}
           p == C!Kept(c.jobs, free)
           q == C!Kept(c.jobs, C!ToSet(c.jobs) \ free)
           b == [c EXCEPT !.jobs = <<>>, !.waiting = c.waiting \o q]
           t == C!Activate(b, p)
           d == C!TakeIn(c)
<1>1. d = [t EXCEPT !.isRunning = t.sorted # <<>>]
  BY DEF C!TakeIn
<1>2. /\ p \in Seq(Jobs) /\ q \in Seq(Jobs) /\ Distinct(p) /\ Distinct(q)
      /\ C!IdsOf(p) \cap C!IdsOf(q) = {}
      /\ C!IdsOf(p) \cup C!IdsOf(q) = Added(c)
  <2>1. free \in SUBSET C!ToSet(c.jobs)
    OBVIOUS
  <2> HIDE DEF free
  <2>2. c.jobs \in Seq(Jobs) /\ Distinct(c.jobs)
    BY DEF ListsOK
  <2> QED
    BY <2>1, <2>2, PartFacts DEF Added
<1> HIDE DEF d, t, p, q
<1>3. DOMAIN c = SchedFields
  BY DEF ListsOK
<1> HIDE DEF b
<1>4. /\ DOMAIN b = SchedFields /\ b.jobs = <<>> /\ b.waiting = c.waiting \o q
      /\ b.running = c.running /\ b.sorted = c.sorted
  BY <1>3 DEF b, SchedFields
<1>5. b.isRunning = c.isRunning /\ b.timers = c.timers
  BY <1>3 DEF b, SchedFields
<1>6. Added(b) = {} /\ Line(b) = Line(c)
  BY <1>4, EmptyList DEF Added, Line
<1>7. b.waiting \in Seq(Jobs) /\ Distinct(b.waiting) /\ Waiting(b) = Waiting(c) \cup C!IdsOf(q)
  <2>1. c.waiting \in Seq(Jobs) /\ Distinct(c.waiting)
    BY DEF ListsOK
  <2>2. C!IdsOf(c.waiting) \cap C!IdsOf(q) = {}
    BY <1>2 DEF ListsOK, Waiting
  <2> QED
    BY <2>1, <2>2, <1>2, <1>4, JoinedLists DEF Waiting
<1>8. ListsOK(b)
  <2>1. b.jobs \in Seq(Jobs) /\ Distinct(b.jobs)
    BY <1>4, EmptyList
  <2>2. b.sorted \in Seq(Jobs) /\ Distinct(b.sorted) /\ ByTime(b.sorted)
    BY <1>4 DEF ListsOK
  <2>3. /\ Line(b) \subseteq b.running /\ b.running \subseteq Ids
        /\ b.running \cap Added(b) = {} /\ b.running \cap Waiting(b) = {}
        /\ Added(b) \cap Waiting(b) = {}
    <3>1. /\ Line(c) \subseteq c.running /\ c.running \subseteq Ids
          /\ c.running \cap Added(c) = {} /\ c.running \cap Waiting(c) = {}
      BY DEF ListsOK
    <3> QED
      BY <3>1, <1>2, <1>4, <1>6, <1>7
  <2> QED
    BY <1>4, <1>7, <2>1, <2>2, <2>3, Zenon DEF ListsOK
<1>9. C!IdsOf(p) \cap Known(b) = {}
  <2>1. c.running \cap Added(c) = {} /\ Added(c) \cap Waiting(c) = {}
    BY DEF ListsOK
  <2> QED
    BY <2>1, <1>2, <1>4, <1>6, <1>7 DEF Known
<1>10. /\ ListsOK(t) /\ t.jobs = b.jobs /\ t.waiting = b.waiting /\ t.timers = b.timers
       /\ t.running = b.running \cup C!IdsOf(p) /\ Line(t) = Line(b) \cup C!IdsOf(p)
  BY <1>2, <1>8, <1>9, ActivateOK DEF t
<1>11. DOMAIN t = SchedFields /\ t.sorted \in Seq(Jobs)
  BY <1>10 DEF ListsOK
<1>12. /\ DOMAIN d = SchedFields /\ d.jobs = t.jobs /\ d.waiting = t.waiting
       /\ d.running = t.running /\ d.sorted = t.sorted
  BY <1>1, <1>11 DEF SchedFields
<1>13. d.timers = t.timers /\ d.isRunning = (t.sorted # <<>>)
  BY <1>1, <1>11 DEF SchedFields
<1>14. Added(d) = Added(t) /\ Waiting(d) = Waiting(t) /\ Line(d) = Line(t)
  BY <1>12 DEF Added, Waiting, Line
<1>15. ListsOK(d)
  BY <1>10, <1>12, <1>14, Zenon DEF ListsOK
<1>16. Added(t) = Added(b) /\ Waiting(t) = Waiting(b)
  BY <1>10 DEF Added, Waiting
<1>17. Known(d) = Known(c)
  BY <1>2, <1>4, <1>6, <1>7, <1>10, <1>12, <1>14, <1>16 DEF Known
<1>18. d.isRunning \in BOOLEAN /\ (d.isRunning = TRUE <=> Line(d) # {})
  <2>1. (t.sorted # <<>>) <=> Line(d) # {}
    BY <1>11, <1>14, IdsOfSeq DEF Line
  <2> QED
    BY <2>1, <1>13
<1>19. Line(c) = c.running => Line(d) = d.running
  BY <1>4, <1>6, <1>10, <1>12, <1>14
<1> QED
  BY <1>5, <1>6, <1>10, <1>13, <1>14, <1>15, <1>16, <1>17, <1>18, <1>19 DEF d

(* The jobs that waited for another are activated. *)
LEMMA AwakeOK ==
    ASSUME NEW c, ListsOK(c), NEW id
    PROVE  LET d == C!Awake(c, id)
           IN  /\ ListsOK(d) /\ Known(d) = Known(c) /\ Added(d) = Added(c)
               /\ d.isRunning = c.isRunning /\ d.timers = c.timers
               /\ Line(c) = c.running => Line(d) = d.running
<1> DEFINE ready == {j \in C!ToSet(c.waiting) : j.after = id}
           p == C!Kept(c.waiting, ready)
           q == C!Kept(c.waiting, C!ToSet(c.waiting) \ ready)
           b == [c EXCEPT !.waiting = q]
           d == C!Awake(c, id)
<1>1. d = C!Activate(b, p)
  BY DEF C!Awake
<1>2. /\ p \in Seq(Jobs) /\ q \in Seq(Jobs) /\ Distinct(p) /\ Distinct(q)
      /\ C!IdsOf(p) \cap C!IdsOf(q) = {}
      /\ C!IdsOf(p) \cup C!IdsOf(q) = Waiting(c)
  <2>1. ready \in SUBSET C!ToSet(c.waiting)
    OBVIOUS
  <2> HIDE DEF ready
  <2>2. c.waiting \in Seq(Jobs) /\ Distinct(c.waiting)
    BY DEF ListsOK
  <2> QED
    BY <2>1, <2>2, PartFacts DEF Waiting
<1> HIDE DEF d, p, q
<1>3. DOMAIN c = SchedFields
  BY DEF ListsOK
<1> HIDE DEF b
<1>4. /\ DOMAIN b = SchedFields /\ b.jobs = c.jobs /\ b.waiting = q
      /\ b.running = c.running /\ b.sorted = c.sorted
  BY <1>3 DEF b, SchedFields
<1>5. b.isRunning = c.isRunning /\ b.timers = c.timers
  BY <1>3 DEF b, SchedFields
<1>6. Added(b) = Added(c) /\ Line(b) = Line(c) /\ Waiting(b) = C!IdsOf(q)
  BY <1>4 DEF Added, Line, Waiting
<1>7. /\ Line(c) \subseteq c.running /\ c.running \subseteq Ids
      /\ c.running \cap Added(c) = {} /\ c.running \cap Waiting(c) = {}
      /\ Added(c) \cap Waiting(c) = {}
  BY DEF ListsOK
<1>8. ListsOK(b)
  <2>1. /\ b.jobs \in Seq(Jobs) /\ Distinct(b.jobs)
        /\ b.sorted \in Seq(Jobs) /\ Distinct(b.sorted) /\ ByTime(b.sorted)
    BY <1>4 DEF ListsOK
  <2>2. b.waiting \in Seq(Jobs) /\ Distinct(b.waiting)
    BY <1>2, <1>4
  <2>3. /\ Line(b) \subseteq b.running /\ b.running \subseteq Ids
        /\ b.running \cap Added(b) = {} /\ b.running \cap Waiting(b) = {}
        /\ Added(b) \cap Waiting(b) = {}
    BY <1>2, <1>4, <1>6, <1>7
  <2> QED
    BY <1>4, <2>1, <2>2, <2>3, Zenon DEF ListsOK
<1>9. C!IdsOf(p) \cap Known(b) = {}
  BY <1>2, <1>4, <1>6, <1>7 DEF Known
<1>10. /\ ListsOK(d) /\ d.jobs = b.jobs /\ d.waiting = b.waiting
       /\ d.isRunning = b.isRunning /\ d.timers = b.timers
       /\ d.running = b.running \cup C!IdsOf(p) /\ Line(d) = Line(b) \cup C!IdsOf(p)
  BY <1>1, <1>2, <1>8, <1>9, ActivateOK
<1>11. Added(d) = Added(b) /\ Waiting(d) = Waiting(b)
  BY <1>10 DEF Added, Waiting
<1>12. Known(d) = Known(c)
  BY <1>2, <1>4, <1>6, <1>10, <1>11 DEF Known
<1> QED
  BY <1>4, <1>5, <1>6, <1>10, <1>11, <1>12 DEF d

(* The rest of the line. *)
LEMMA TailFacts ==
    ASSUME NEW q \in Seq(Jobs), q # <<>>, Distinct(q), ByTime(q)
    PROVE  /\ Tail(q) \in Seq(Jobs) /\ Distinct(Tail(q)) /\ ByTime(Tail(q))
           /\ Head(q) \in Jobs /\ Head(q).id \in C!IdsOf(q)
           /\ C!IdsOf(Tail(q)) = C!IdsOf(q) \ {Head(q).id}
<1> DEFINE t == Tail(q)
           h == Head(q)
<1>1. /\ h \in Jobs /\ t \in Seq(Jobs) /\ Len(t) = Len(q) - 1
      /\ \A i \in 1..Len(t) : t[i] = q[i + 1]
  BY HeadTailProperties
<1>2. h = q[1]
  OBVIOUS
<1>3. Len(q) \in Nat /\ Len(q) # 0
  BY EmptySeq, IdsOfSeq
<1>4. C!IdsOf(q) = {q[i].id : i \in 1..Len(q)} /\ C!IdsOf(t) = {t[i].id : i \in 1..Len(t)}
  BY <1>1, IdsOfSeq
<1> HIDE DEF t, h
<1>5. /\ 1 \in 1..Len(q)
      /\ \A i \in 1..Len(t) : i + 1 \in 1..Len(q) /\ i + 1 # 1
      /\ \A i \in 1..Len(q) : i # 1 => i - 1 \in 1..Len(t) /\ (i - 1) + 1 = i
  BY <1>1, <1>3
<1>6. h.id \in C!IdsOf(q)
  BY <1>2, <1>4, <1>5
<1>7. C!IdsOf(t) = C!IdsOf(q) \ {h.id}
  <2>1. \A i \in 1..Len(t) : t[i].id \in C!IdsOf(q) \ {h.id}
    BY <1>1, <1>2, <1>4, <1>5 DEF Distinct
  <2>2. \A i \in 1..Len(q) : q[i].id # h.id => q[i].id \in C!IdsOf(t)
    <3> TAKE i \in 1..Len(q)
    <3> HAVE q[i].id # h.id
    <3>1. i # 1
      BY <1>2
    <3>2. i - 1 \in 1..Len(t) /\ t[i - 1] = q[(i - 1) + 1] /\ (i - 1) + 1 = i
      BY <1>1, <1>5, <3>1
    <3>3. t[i - 1].id = q[i].id
      BY <3>2
    <3> QED
      BY <3>2, <3>3, <1>4
  <2> QED
    BY <2>1, <2>2, <1>4
<1>8. Distinct(t)
  <2> SUFFICES ASSUME NEW i \in 1..Len(t), NEW j \in 1..Len(t), t[i].id = t[j].id
               PROVE  i = j
    BY DEF Distinct
  <2>1. i + 1 = j + 1
    BY <1>1, <1>5 DEF Distinct
  <2> QED
    BY <2>1, <1>1, <1>3
<1>9. ByTime(t)
  <2> SUFFICES ASSUME NEW i \in 1..Len(t), NEW j \in 1..Len(t), i < j
               PROVE  t[i].time <= t[j].time
    BY DEF ByTime
  <2>1. i + 1 < j + 1
    BY <1>1, <1>3
  <2> QED
    BY <2>1, <1>1, <1>5 DEF ByTime
<1> QED
  BY <1>1, <1>6, <1>7, <1>8, <1>9 DEF t, h

\* The line of the scheduler is replaced.
LEMMA LineReplaced ==
    ASSUME NEW c, ListsOK(c), NEW q \in Seq(Jobs), Distinct(q), ByTime(q), C!IdsOf(q) \subseteq c.running
    PROVE  LET d == [c EXCEPT !.sorted = q]
           IN  /\ ListsOK(d) /\ d.isRunning = c.isRunning /\ d.timers = c.timers
               /\ d.running = c.running /\ Line(d) = C!IdsOf(q)
               /\ Added(d) = Added(c) /\ Known(d) = Known(c)
<1> DEFINE d == [c EXCEPT !.sorted = q]
<1>1. DOMAIN c = SchedFields
  BY DEF ListsOK
<1>2. /\ DOMAIN d = SchedFields /\ d.jobs = c.jobs /\ d.waiting = c.waiting
      /\ d.running = c.running /\ d.sorted = q
  BY <1>1 DEF SchedFields
<1>3. d.isRunning = c.isRunning /\ d.timers = c.timers
  BY <1>1 DEF SchedFields
<1> HIDE DEF d
<1>4. Added(d) = Added(c) /\ Waiting(d) = Waiting(c) /\ Line(d) = C!IdsOf(q)
  BY <1>2 DEF Added, Waiting, Line
<1>5. ListsOK(d)
  <2>1. /\ d.jobs \in Seq(Jobs) /\ Distinct(d.jobs)
        /\ d.waiting \in Seq(Jobs) /\ Distinct(d.waiting)
        /\ d.running \subseteq Ids
    BY <1>2 DEF ListsOK
  <2>2. /\ d.running \cap Added(d) = {} /\ d.running \cap Waiting(d) = {}
        /\ Added(d) \cap Waiting(d) = {} /\ Line(d) \subseteq d.running
    BY <1>2, <1>4 DEF ListsOK
  <2>3. d.sorted \in Seq(Jobs) /\ Distinct(d.sorted) /\ ByTime(d.sorted)
    BY <1>2
  <2> QED
    BY <1>2, <2>1, <2>2, <2>3, Zenon DEF ListsOK
<1>6. Known(d) = Known(c)
  BY <1>2, <1>4 DEF Known
<1> QED
  BY <1>2, <1>3, <1>4, <1>5, <1>6 DEF d

(* A job is taken from the line; an exception leaves it so. *)
LEMMA PoppedOK ==
    ASSUME NEW c, ListsOK(c), c.sorted # <<>>
    PROVE  LET d == C!Popped(c)
           IN  /\ ListsOK(d) /\ d.isRunning = c.isRunning /\ d.timers = c.timers
               /\ d.running = c.running /\ Line(d) = Line(c) \ {Head(c.sorted).id}
               /\ Added(d) = Added(c) /\ Known(d) = Known(c)
<1> DEFINE t == Tail(c.sorted)
<1>1. /\ t \in Seq(Jobs) /\ Distinct(t) /\ ByTime(t)
      /\ C!IdsOf(t) = Line(c) \ {Head(c.sorted).id}
  BY TailFacts DEF ListsOK, Line
<1>2. C!IdsOf(t) \subseteq c.running
  BY <1>1 DEF ListsOK
<1>3. C!Popped(c) = [c EXCEPT !.sorted = t]
  BY DEF C!Popped
<1> HIDE DEF t
<1>4. /\ ListsOK([c EXCEPT !.sorted = t])
      /\ [c EXCEPT !.sorted = t].isRunning = c.isRunning /\ [c EXCEPT !.sorted = t].timers = c.timers
      /\ [c EXCEPT !.sorted = t].running = c.running /\ Line([c EXCEPT !.sorted = t]) = C!IdsOf(t)
      /\ Added([c EXCEPT !.sorted = t]) = Added(c) /\ Known([c EXCEPT !.sorted = t]) = Known(c)
  BY <1>1, <1>2, LineReplaced
<1> QED
  BY <1>1, <1>3, <1>4

(* A job comes back. *)
LEMMA ReturnedOK ==
    ASSUME NEW c, ListsOK(c), c.sorted # <<>>, NEW cost \in Nat, NEW again
    PROVE  LET d == C!Returned(c, cost, again)
               job == Head(c.sorted)
           IN  /\ ListsOK(d) /\ d.isRunning = c.isRunning /\ d.timers = c.timers
               /\ Added(d) \subseteq Added(c) /\ Known(d) \subseteq Known(c)
               /\ Line(c) = c.running => Line(d) = d.running
               /\ job.id # Task /\ job.id \in Known(d) => again
<1> DEFINE job == Head(c.sorted)
           t == Tail(c.sorted)
           run == [job EXCEPT !.done = IF job.count = 0 THEN 0 ELSE @ + 1, !.time = @ + cost]
           dead == IF job.count > 0 THEN job.count <= run.done ELSE ~again
           d == C!Returned(c, cost, again)
<1>1. d = IF dead THEN C!Awake(C!KillJob(C!Popped(c), job.id), job.id)
                  ELSE [c EXCEPT !.sorted = C!Settle(C!Reinsert(t, run))]
  BY DEF C!Returned
<1>2. /\ t \in Seq(Jobs) /\ Distinct(t) /\ ByTime(t)
      /\ job \in Jobs /\ job.id \in Line(c) /\ C!IdsOf(t) = Line(c) \ {job.id}
  BY TailFacts DEF ListsOK, Line
<1>3. run \in Jobs /\ run.id = job.id
  <2>1. job \in JobRecords
    BY <1>2, JobsAreRecords
  <2> DEFINE n == IF job.count = 0 THEN 0 ELSE job.done + 1
             u == job.time + cost
  <2>2. n \in Nat /\ u \in Nat
    BY <2>1 DEF JobRecords
  <2>3. run = [job EXCEPT !.done = n, !.time = u]
    OBVIOUS
  <2> HIDE DEF job, n, u, run
  <2> QED
    BY <1>2, <2>2, <2>3, OtherStats
<1>4. job.id # Task => (dead <=> ~again)
  BY <1>2 DEF Jobs
<1> HIDE DEF job, t, run, dead, d
<1>5. CASE dead
  <2> DEFINE p == C!Popped(c)
             k == C!KillJob(p, job.id)
  <2>1. /\ ListsOK(p) /\ p.isRunning = c.isRunning /\ p.timers = c.timers
        /\ p.running = c.running /\ Line(p) = Line(c) \ {job.id}
        /\ Added(p) = Added(c) /\ Known(p) = Known(c)
    BY PoppedOK DEF job
  <2> HIDE DEF p
  <2>2. /\ ListsOK(k) /\ k.isRunning = p.isRunning /\ k.timers = p.timers
        /\ k.running = p.running \ {job.id} /\ Line(k) = Line(p) \ {job.id}
        /\ Added(k) = Added(p) \ {job.id} /\ Known(k) = Known(p) \ {job.id}
    BY <2>1, KillOK
  <2> HIDE DEF k
  <2>3. d = C!Awake(k, job.id)
    BY <1>1, <1>5 DEF k, p
  <2>4. /\ ListsOK(d) /\ Known(d) = Known(k) /\ Added(d) = Added(k)
        /\ d.isRunning = k.isRunning /\ d.timers = k.timers
        /\ Line(k) = k.running => Line(d) = d.running
    BY <2>2, <2>3, AwakeOK
  <2>5. Line(c) = c.running => Line(k) = k.running
    BY <2>1, <2>2
  <2>6. job.id \notin Known(d) /\ Known(d) \subseteq Known(c) /\ Added(d) \subseteq Added(c)
    BY <2>1, <2>2, <2>4
  <2>7. d.isRunning = c.isRunning /\ d.timers = c.timers
    BY <2>1, <2>2, <2>4
  <2> QED
    BY <2>4, <2>5, <2>6, <2>7 DEF d, job
<1>6. CASE ~dead
  <2> DEFINE r == C!Reinsert(t, run)
             q == C!Settle(r)
  <2>1. run.id \notin C!IdsOf(t)
    BY <1>2, <1>3
  <2>2. r \in Seq(Jobs) /\ Distinct(r) /\ ByTime(r) /\ C!IdsOf(r) = C!IdsOf(t) \cup {run.id}
    BY <1>2, <1>3, <2>1, ReinsertOK
  <2> HIDE DEF r
  <2>3. q \in Seq(Jobs) /\ Distinct(q) /\ ByTime(q) /\ C!IdsOf(q) = C!IdsOf(r)
    BY <2>2, SettleOK
  <2>4. C!IdsOf(q) = Line(c)
    BY <1>2, <1>3, <2>2, <2>3
  <2>5. Line(c) \subseteq c.running
    BY DEF ListsOK
  <2>6. d = [c EXCEPT !.sorted = q]
    BY <1>1, <1>6 DEF q, r
  <2> HIDE DEF q
  <2>7. /\ ListsOK(d) /\ d.isRunning = c.isRunning /\ d.timers = c.timers
        /\ d.running = c.running /\ Line(d) = C!IdsOf(q)
        /\ Added(d) = Added(c) /\ Known(d) = Known(c)
    <3>1. C!IdsOf(q) \subseteq c.running
      BY <2>4, <2>5
    <3> QED
      BY <2>3, <2>6, <3>1, LineReplaced
  <2>8. job.id # Task => again
    BY <1>4, <1>6
  <2> QED
    BY <2>4, <2>7, <2>8 DEF d, job
<1> QED
  BY <1>5, <1>6
-----------------------------------------------------------------------------
(* The jobs of the renderers *)

PageFields == {"g", "hidden", "indexed", "cam", "frame", "raf", "running", "sched", "threw", "view"}
ViewFields == {"alive", "at", "nodes", "edges", "pending", "batch", "arrays"}

Shape(w) ==
    /\ DOMAIN w = PageFields /\ DOMAIN w.view = Renderers
    /\ \A r \in Renderers : DOMAIN w.view[r] = ViewFields

\* What the scheduler knows of is under way.
JobsPending(c, w) == \A r \in Renderers : r \in Known(c) => w.view[r].pending = TRUE

(* A renderer keeps something else. *)
LEMMA WithViewFacts ==
    ASSUME NEW w, Shape(w), NEW r \in Renderers, NEW v, DOMAIN v = ViewFields
    PROVE  LET u == WithView(w, r, v)
           IN  /\ Shape(u) /\ u.sched = w.sched /\ u.threw = w.threw /\ u.raf = w.raf
               /\ u.view[r] = v /\ \A q \in Renderers \ {r} : u.view[q] = w.view[q]
<1> DEFINE u == WithView(w, r, v)
           x == [w.view EXCEPT ![r] = v]
<1>1. u = [w EXCEPT !.view = x]
  BY DEF WithView
<1>2. DOMAIN w = PageFields /\ DOMAIN w.view = Renderers /\ \A q \in Renderers : DOMAIN w.view[q] = ViewFields
  BY DEF Shape
<1>3. /\ DOMAIN x = Renderers /\ x[r] = v /\ \A q \in Renderers \ {r} : x[q] = w.view[q]
  BY <1>2
<1> HIDE DEF u, x
<1>4. DOMAIN u = PageFields /\ u.view = x /\ u.sched = w.sched /\ u.threw = w.threw /\ u.raf = w.raf
  BY <1>1, <1>2 DEF PageFields
<1>5. \A q \in Renderers : DOMAIN u.view[q] = ViewFields
  BY <1>2, <1>3, <1>4
<1> QED
  BY <1>3, <1>4, <1>5 DEF Shape, u

\* What a job does: j is the result of the job id.
JobDone(id, w, j) ==
    /\ Shape(j.w) /\ j.w.sched = w.sched /\ j.w.threw = w.threw /\ j.w.raf = w.raf
    /\ \A q \in Renderers \ {id} : j.w.view[q] = w.view[q]
    /\ j.threw \in BOOLEAN
    /\ id \in Renderers =>
          IF j.threw THEN j.w.view[id].pending = w.view[id].pending
                     ELSE j.again => j.w.view[id].pending = TRUE

LEMMA CanvasJobDone ==
    ASSUME NEW w, Shape(w), NEW r \in Renderers
    PROVE  JobDone(r, w, CanvasJob(r, w))
<1> DEFINE v == w.view[r]
           b == v.batch
           part == SubSeq(b.edges, b.start + 1, b.end)
           over == b.end = Len(b.edges)
           fails == \/ ~v.alive
                    \/ \E i \in DOMAIN part : ~({part[i].source, part[i].target} \subseteq NodeIds(w.g))
           edges == v.edges \o [i \in DOMAIN part |-> part[i].id]
           next == b.end + 1
           batch == IF over THEN NoBatch
                    ELSE [b EXCEPT !.start = next, !.end = Least(Len(b.edges), next + BatchSize)]
           drawn == [v EXCEPT !.edges = edges, !.pending = ~over, !.batch = batch]
           u == WithView(w, r, drawn)
           j == CanvasJob(r, w)
<1>1. j = [w |-> IF fails THEN w ELSE u, again |-> ~over /\ ~fails, threw |-> fails]
  BY DEF CanvasJob
<1>2. fails \in BOOLEAN /\ over \in BOOLEAN
  OBVIOUS
<1> HIDE DEF fails, over, edges, batch
<1>3. DOMAIN v = ViewFields
  BY DEF Shape
<1>4. DOMAIN drawn = ViewFields /\ drawn.pending = ~over
  <2> HIDE DEF v
  <2> QED
    BY <1>3 DEF ViewFields
<1> HIDE DEF drawn
<1>5. /\ Shape(u) /\ u.sched = w.sched /\ u.threw = w.threw /\ u.raf = w.raf
      /\ u.view[r] = drawn /\ \A q \in Renderers \ {r} : u.view[q] = w.view[q]
  BY <1>4, WithViewFacts
<1> HIDE DEF u, j
<1>6. CASE fails
  <2>1. j.w = w /\ j.threw = TRUE
    BY <1>1, <1>2, <1>6
  <2> QED
    BY <2>1 DEF JobDone, j
<1>7. CASE ~fails
  <2>1. j.w = u /\ j.threw = FALSE /\ j.again = ~over
    BY <1>1, <1>2, <1>7
  <2>2. j.again => u.view[r].pending = TRUE
    BY <2>1, <1>2, <1>4, <1>5
  <2> QED
    BY <2>1, <2>2, <1>5 DEF JobDone, j
<1> QED
  BY <1>6, <1>7

LEMMA WebglJobDone ==
    ASSUME NEW w, Shape(w), NEW r \in Renderers
    PROVE  JobDone(r, w, WebglJob(r, w))
<1> DEFINE v == w.view[r]
           b == v.batch
           part == SubSeq(b.edges, b.start + 1, b.end)
           exhausted == b.end >= Len(b.edges)
           over == exhausted /\ b.arrays = <<>>
           held == {a \in ToSet(v.arrays) : a.type = Head(b.arrays).type}
           fails == exhausted /\ ~over /\ held = {}
           edges == (CHOOSE a \in held : TRUE).edges
           next == IF exhausted
                   THEN [edges |-> edges, arrays |-> Tail(b.arrays), start |-> 0,
                         end |-> Least(BatchSize, Len(edges))]
                   ELSE [b EXCEPT !.start = b.end, !.end = Least(b.end + BatchSize, Len(b.edges))]
           drawing == v.edges \o Drawn(part)
           batch == IF over THEN NoBatch ELSE next
           drawn == [v EXCEPT !.edges = drawing]
           done == [drawn EXCEPT !.pending = ~over, !.batch = batch]
           x == IF fails THEN drawn ELSE done
           u == WithView(w, r, x)
           j == WebglJob(r, w)
<1>1. j = [w |-> u, again |-> ~over /\ ~fails, threw |-> fails]
  BY DEF WebglJob
<1>2. fails \in BOOLEAN /\ over \in BOOLEAN
  OBVIOUS
<1> HIDE DEF fails, over, drawing, batch
<1>3. DOMAIN v = ViewFields
  BY DEF Shape
<1>4. DOMAIN drawn = ViewFields /\ drawn.pending = v.pending
  <2> HIDE DEF v
  <2> QED
    BY <1>3 DEF ViewFields
<1>5. DOMAIN done = ViewFields /\ done.pending = ~over
  <2> HIDE DEF drawn
  <2> QED
    BY <1>4 DEF ViewFields
<1> HIDE DEF drawn, done
<1>6. DOMAIN x = ViewFields /\ x.pending = IF fails THEN v.pending ELSE ~over
  BY <1>4, <1>5
<1> HIDE DEF x
<1>7. /\ Shape(u) /\ u.sched = w.sched /\ u.threw = w.threw /\ u.raf = w.raf
      /\ u.view[r] = x /\ \A q \in Renderers \ {r} : u.view[q] = w.view[q]
  BY <1>6, WithViewFacts
<1> HIDE DEF u, j
<1>8. CASE fails
  <2>1. j.w = u /\ j.threw = TRUE /\ u.view[r].pending = w.view[r].pending
    BY <1>1, <1>2, <1>6, <1>7, <1>8
  <2> QED
    BY <2>1, <1>7 DEF JobDone, j
<1>9. CASE ~fails
  <2>1. j.w = u /\ j.threw = FALSE /\ j.again = ~over
    BY <1>1, <1>2, <1>9
  <2>2. j.again => u.view[r].pending = TRUE
    BY <2>1, <1>2, <1>6, <1>7, <1>9
  <2> QED
    BY <2>1, <2>2, <1>7 DEF JobDone, j
<1> QED
  BY <1>8, <1>9

LEMMA EveryJobDone ==
    ASSUME NEW w, Shape(w), NEW id \in Ids
    PROVE  JobDone(id, w, Job(id, w))
<1>1. CASE id = Task
  <2> DEFINE j == Job(id, w)
  <2>1. j = [w |-> w, again |-> FALSE, threw |-> FALSE]
    BY <1>1 DEF Job
  <2> HIDE DEF j
  <2>2. j.w = w /\ j.threw = FALSE /\ j.again = FALSE
    BY <2>1
  <2>3. JobDone(id, w, j)
    BY <2>2 DEF JobDone
  <2> QED
    BY <2>3 DEF j
<1>2. CASE id # Task
  <2>1. id \in Renderers
    BY <1>2 DEF Ids
  <2>2. CASE Kind[id] = "canvas"
    BY <1>2, <2>1, <2>2, CanvasJobDone DEF Job
  <2>3. CASE Kind[id] # "canvas"
    BY <1>2, <2>1, <2>3, WebglJobDone DEF Job
  <2> QED
    BY <2>2, <2>3
<1> QED
  BY <1>1, <1>2
-----------------------------------------------------------------------------
(* The loop of the scheduler *)

\* In the middle of a loop that began with the page w, a line that held what was
\* running if full, and so many timers.
InLoop(s, w, full, timers) ==
    /\ DOMAIN s = {"c", "w", "threw"}
    /\ ListsOK(s.c) /\ Shape(s.w) /\ JobsPending(s.c, s.w)
    /\ s.w.sched = w.sched /\ s.w.threw = w.threw /\ s.w.raf = w.raf
    /\ s.threw \in BOOLEAN /\ s.c.isRunning \in BOOLEAN /\ s.c.timers = timers
    /\ Added(s.c) = {} /\ (Line(s.c) # {} => s.c.isRunning = TRUE)
    /\ full /\ ~s.threw => Line(s.c) = s.c.running

(* One job of the loop. *)
LEMMA ExecuteOK ==
    ASSUME NEW s, NEW w, NEW full, NEW timers, InLoop(s, w, full, timers), NEW cost \in Nat
    PROVE  InLoop(C!ExecuteFirstJob(s, cost), w, full, timers)
<1>1. CASE s.threw \/ s.c.sorted = <<>>
  BY <1>1 DEF C!ExecuteFirstJob
<1>2. CASE ~s.threw /\ s.c.sorted # <<>>
  <2> DEFINE id == Head(s.c.sorted).id
             j == Job(id, s.w)
             d == IF j.threw THEN C!Popped(s.c) ELSE C!Returned(s.c, cost, j.again)
             t == C!ExecuteFirstJob(s, cost)
  <2>1. t = [c |-> d, w |-> j.w, threw |-> j.threw]
    BY <1>2 DEF C!ExecuteFirstJob
  <2>2. ListsOK(s.c) /\ Shape(s.w) /\ JobsPending(s.c, s.w)
    BY DEF InLoop
  <2>3. id \in Line(s.c) /\ id \in Ids
    BY <1>2, <2>2, TailFacts DEF ListsOK, Line, Jobs, JobRecords
  <2>4. id \in Known(s.c)
    BY <2>2, <2>3 DEF ListsOK, Known
  <2> HIDE DEF id
  <2>5. JobDone(id, s.w, j)
    BY <2>2, <2>3, EveryJobDone
  <2> HIDE DEF j
  <2>6. /\ ListsOK(d) /\ d.isRunning = s.c.isRunning /\ d.timers = s.c.timers
        /\ Added(d) \subseteq Added(s.c) /\ Known(d) \subseteq Known(s.c)
        /\ ~j.threw => (Line(s.c) = s.c.running => Line(d) = d.running)
        /\ ~j.threw => (id # Task /\ id \in Known(d) => j.again)
    <3>1. CASE j.threw
      BY <3>1, <1>2, <2>2, PoppedOK
    <3>2. CASE ~j.threw
      <4> DEFINE e == C!Returned(s.c, cost, j.again)
      <4>1. /\ ListsOK(e) /\ e.isRunning = s.c.isRunning /\ e.timers = s.c.timers
            /\ Added(e) \subseteq Added(s.c) /\ Known(e) \subseteq Known(s.c)
            /\ Line(s.c) = s.c.running => Line(e) = e.running
            /\ id # Task /\ id \in Known(e) => j.again
        BY <1>2, <2>2, ReturnedOK DEF id
      <4> HIDE DEF e
      <4>2. d = e
        BY <3>2 DEF e
      <4> QED
        BY <4>1, <4>2
    <3> QED
      BY <3>1, <3>2
  <2> HIDE DEF d, t
  <2>7. t.c = d /\ t.w = j.w /\ t.threw = j.threw /\ DOMAIN t = {"c", "w", "threw"}
    BY <2>1
  <2>8. JobsPending(d, j.w)
    <3> SUFFICES ASSUME NEW r \in Renderers, r \in Known(d)
                 PROVE  j.w.view[r].pending = TRUE
      BY DEF JobsPending
    <3>1. s.w.view[r].pending = TRUE
      BY <2>2, <2>6 DEF JobsPending
    <3>2. CASE r # id
      BY <3>1, <3>2, <2>5 DEF JobDone
    <3>3. CASE r = id /\ j.threw
      BY <3>1, <3>3, <2>5 DEF JobDone
    <3>4. CASE r = id /\ ~j.threw
      <4>1. id # Task
        BY <3>4, PageAssumption
      <4>2. j.again
        BY <3>4, <4>1, <2>6
      <4> QED
        BY <3>4, <4>2, <2>5 DEF JobDone
    <3> QED
      BY <3>2, <3>3, <3>4
  <2>9. Line(s.c) # {} /\ s.c.isRunning = TRUE
    BY <2>3 DEF InLoop
  <2>10. InLoop(t, w, full, timers)
    <3>1. ListsOK(t.c) /\ Shape(t.w) /\ JobsPending(t.c, t.w)
      BY <2>5, <2>6, <2>7, <2>8 DEF JobDone
    <3>2. t.w.sched = w.sched /\ t.w.threw = w.threw /\ t.w.raf = w.raf /\ t.threw \in BOOLEAN
      BY <2>5, <2>7 DEF JobDone, InLoop
    <3>3. t.c.isRunning = TRUE /\ t.c.timers = timers /\ Added(t.c) = {}
      BY <2>6, <2>7, <2>9 DEF InLoop
    <3>4. full /\ ~t.threw => Line(t.c) = t.c.running
      BY <1>2, <2>6, <2>7 DEF InLoop
    <3> QED
      BY <2>7, <3>1, <3>2, <3>3, <3>4 DEF InLoop
  <2> QED
    BY <2>10 DEF t
<1> QED
  BY <1>1, <1>2

(* What holds at first and is kept by every round holds in the end. *)
LEMMA RoundByRound ==
    ASSUME NEW n \in Nat, NEW G, 0 \in G, \A i \in 1..n : i - 1 \in G => i \in G
    PROVE  n \in G
<1> DEFINE S == {i \in 0..n : i \notin G}
<1>1. S = {}
  <2> SUFFICES ASSUME S # {} PROVE FALSE
    OBVIOUS
  <2>1. S \in SUBSET Nat
    OBVIOUS
  <2>2. PICK i \in S : \A j \in S : i <= j
    <3> HIDE DEF S
    <3> QED
      BY <2>1, LeastExists
  <2>3. i \in 1..n /\ i - 1 \in 0..n /\ i - 1 \notin S
    BY <2>2
  <2> QED
    BY <2>2, <2>3
<1> QED
  BY <1>1

LEMMA RunRounds ==
    ASSUME NEW c, NEW w, NEW costs, Len(costs) \in Nat
    PROVE  \E f : /\ C!Ran(c, w, costs) = f[Len(costs)]
                  /\ f[0] = [c |-> C!TakeIn(c), w |-> w, threw |-> FALSE]
                  /\ \A i \in 1..Len(costs) : f[i] = C!ExecuteFirstJob(f[i - 1], costs[i])
<1> DEFINE first == [c |-> C!TakeIn(c), w |-> w, threw |-> FALSE]
           Is(f) == f = [n \in 0 .. Len(costs) |->
                IF n = 0 THEN first
                ELSE CHOOSE t \in {C!ExecuteFirstJob(s, costs[n]) : s \in {f[n - 1]}} : TRUE]
           ran == CHOOSE f : Is(f)
<1>1. \A f : Rounds(f, "run", first, costs, Len(costs)) <=> Is(f)
  <2>1. \A x, n : Round("run", x, costs, n)
                   = CHOOSE t \in {C!ExecuteFirstJob(s, costs[n]) : s \in {x}} : TRUE
    BY DEF Round, RunRound
  <2> HIDE DEF first
  <2> QED
    BY <2>1 DEF Rounds
<1>2. \E f : Is(f)
  <2> HIDE DEF Is, first
  <2> QED
    BY <1>1, RoundsExist
<1>3. C!Ran(c, w, costs) = ran[Len(costs)]
  BY DEF C!Ran
<1>4. Is(ran)
  <2> HIDE DEF Is
  <2> QED
    BY <1>2
<1> HIDE DEF ran, first
<1>5. Rounds(ran, "run", first, costs, Len(costs))
  BY <1>1, <1>4
<1>6. ran[0] = first /\ \A i \in 1..Len(costs) : ran[i] = Round("run", ran[i - 1], costs, i)
  BY <1>5, EachRound
<1>7. \A x, i : Round("run", x, costs, i) = C!ExecuteFirstJob(x, costs[i])
  BY DEF Round, RunRound
<1>8. ran[0] = first /\ \A i \in 1..Len(costs) : ran[i] = C!ExecuteFirstJob(ran[i - 1], costs[i])
  BY <1>6, <1>7
<1> QED
  BY <1>3, <1>8 DEF first

(* All the jobs of a loop. *)
LEMMA RanOK ==
    ASSUME NEW c, ListsOK(c), NEW w, Shape(w), JobsPending(c, w), NEW costs \in Seq(Nat)
    PROVE  InLoop(C!Ran(c, w, costs), w, Line(c) = c.running, c.timers)
<1> DEFINE full == Line(c) = c.running
           N == Len(costs)
<1>1. N \in Nat /\ \A i \in 1..N : costs[i] \in Nat
  BY ElementOfSeq
<1>2. PICK f : /\ C!Ran(c, w, costs) = f[N]
               /\ f[0] = [c |-> C!TakeIn(c), w |-> w, threw |-> FALSE]
               /\ \A i \in 1..N : f[i] = C!ExecuteFirstJob(f[i - 1], costs[i])
  BY <1>1, RunRounds
<1> DEFINE G == {i \in 0..N : InLoop(f[i], w, full, c.timers)}
<1>3. 0 \in G
  <2> DEFINE d == C!TakeIn(c)
  <2>1. /\ ListsOK(d) /\ Known(d) = Known(c) /\ Added(d) = {}
        /\ d.timers = c.timers
        /\ d.isRunning \in BOOLEAN /\ (d.isRunning = TRUE <=> Line(d) # {})
        /\ Line(c) = c.running => Line(d) = d.running
    BY TakeInOK
  <2> HIDE DEF d
  <2>2. f[0].c = d /\ f[0].w = w /\ f[0].threw = FALSE /\ DOMAIN f[0] = {"c", "w", "threw"}
    BY <1>2 DEF d
  <2>3. JobsPending(d, w)
    BY <2>1 DEF JobsPending
  <2>4. InLoop(f[0], w, full, c.timers)
    BY <2>1, <2>2, <2>3 DEF InLoop
  <2> HIDE DEF full
  <2> QED
    BY <1>1, <2>4
<1> HIDE DEF full
<1>4. \A i \in 1..N : i - 1 \in G => i \in G
  <2> TAKE i \in 1..N
  <2> HAVE i - 1 \in G
  <2>1. InLoop(f[i - 1], w, full, c.timers) /\ costs[i] \in Nat
    BY <1>1
  <2>2. InLoop(C!ExecuteFirstJob(f[i - 1], costs[i]), w, full, c.timers)
    BY <2>1, ExecuteOK
  <2>3. f[i] = C!ExecuteFirstJob(f[i - 1], costs[i])
    BY <1>2
  <2>4. i \in 0..N
    BY <1>1
  <2> QED
    BY <2>2, <2>3, <2>4
<1>5. N \in G
  <2> HIDE DEF G
  <2> QED
    BY <1>1, <1>3, <1>4, RoundByRound
<1> QED
  BY <1>2, <1>5 DEF full

(* A loop leaves the lists in order; when nothing is thrown, and no other timer
   was set, just one is set if there are jobs. *)
LEMMA LoopOK ==
    ASSUME NEW c, ListsOK(c), NEW w, Shape(w), JobsPending(c, w), NEW costs \in Seq(Nat)
    PROVE  LET s == C!Loop(c, w, costs)
           IN  /\ ListsOK(s.c) /\ Shape(s.w) /\ JobsPending(s.c, s.w)
               /\ s.w.sched = w.sched /\ s.w.threw = w.threw /\ s.w.raf = w.raf /\ s.threw \in BOOLEAN
               /\ Line(c) = c.running /\ c.timers = 0 /\ ~s.threw => Whole(s.c)
<1> DEFINE full == Line(c) = c.running
           s == C!Ran(c, w, costs)
           x == s.c
           sets == x.isRunning /\ ~s.threw
           d == [x EXCEPT !.timers = @ + 1]
           t == C!Loop(c, w, costs)
<1>1. InLoop(s, w, full, c.timers)
  BY RanOK
<1>2. t = IF sets THEN [s EXCEPT !.c = d] ELSE s
  BY DEF C!Loop
<1> HIDE DEF s, t, full
<1>3. /\ ListsOK(x) /\ Shape(s.w) /\ JobsPending(x, s.w)
      /\ s.w.sched = w.sched /\ s.w.threw = w.threw /\ s.w.raf = w.raf
      /\ s.threw \in BOOLEAN /\ x.isRunning \in BOOLEAN /\ x.timers = c.timers
      /\ Added(x) = {} /\ (Line(x) # {} => x.isRunning = TRUE)
      /\ full /\ ~s.threw => Line(x) = x.running
  BY <1>1 DEF InLoop
<1>4. /\ DOMAIN s = {"c", "w", "threw"} /\ DOMAIN x = SchedFields
  BY <1>1 DEF InLoop, ListsOK
<1>5. CASE sets
  <2>1. DOMAIN d = SchedFields /\ d.timers = x.timers + 1
    BY <1>4 DEF SchedFields
  <2>2. d.jobs = x.jobs /\ d.waiting = x.waiting
    BY <1>4 DEF SchedFields
  <2>3. d.running = x.running /\ d.sorted = x.sorted /\ d.isRunning = x.isRunning
    BY <1>4 DEF SchedFields
  <2> HIDE DEF x, d
  <2>4. t.c = d /\ t.w = s.w /\ t.threw = s.threw
    BY <1>2, <1>4, <1>5
  <2>5. ListsOK(d) /\ Known(d) = Known(x) /\ Added(d) = Added(x) /\ Line(d) = Line(x)
    BY <1>3, <2>1, <2>2, <2>3 DEF ListsOK, Known, Added, Waiting, Line
  <2>6. JobsPending(d, s.w)
    BY <1>3, <2>5 DEF JobsPending
  <2>7. full /\ c.timers = 0 => Whole(d)
    <3>1. x.isRunning = TRUE /\ ~s.threw
      BY <1>3, <1>5 DEF x
    <3>2. c.timers = 0 => d.timers = 1
      BY <1>3, <2>1
    <3>3. full => Line(d) = d.running
      BY <1>3, <2>3, <2>5, <3>1
    <3> QED
      BY <2>3, <3>1, <3>2, <3>3 DEF Whole
  <2> QED
    BY <1>3, <2>4, <2>5, <2>6, <2>7 DEF t, full
<1>6. CASE ~sets
  <2>1. t = s
    BY <1>2, <1>6
  <2>2. full /\ c.timers = 0 /\ ~s.threw => Whole(x)
    BY <1>3, <1>6 DEF Whole
  <2> HIDE DEF x
  <2>3. ListsOK(t.c) /\ JobsPending(t.c, t.w) /\ (full /\ c.timers = 0 /\ ~t.threw => Whole(t.c))
    BY <1>3, <2>1, <2>2 DEF x
  <2> QED
    BY <1>3, <2>1, <2>3 DEF t, full
<1> QED
  BY <1>5, <1>6

(* A job that the scheduler does not know is added. *)
LEMMA AddJobOK ==
    ASSUME NEW c, ListsOK(c), NEW w, Shape(w), JobsPending(c, w), NEW costs \in Seq(Nat),
           NEW job \in Jobs, job.id \notin Known(c),
           job.id \in Renderers => w.view[job.id].pending = TRUE
    PROVE  LET s == C!AddJob(c, w, job, costs)
           IN  /\ ListsOK(s.c) /\ Shape(s.w) /\ JobsPending(s.c, s.w)
               /\ s.w.sched = w.sched /\ s.w.threw = w.threw /\ s.w.raf = w.raf /\ s.threw \in BOOLEAN
               /\ Whole(c) /\ ~s.threw => Whole(s.c)
<1> DEFINE q == Append(c.jobs, job)
           d == [c EXCEPT !.jobs = q]
           s == C!AddJob(c, w, job, costs)
<1>1. s = IF c.isRunning THEN [c |-> d, w |-> w, threw |-> FALSE] ELSE C!Loop(d, w, costs)
  BY DEF C!AddJob
<1>2. q \in Seq(Jobs) /\ Distinct(q) /\ C!IdsOf(q) = Added(c) \cup {job.id}
  <2> DEFINE o == <<job>>
  <2>1. c.jobs \in Seq(Jobs) /\ Distinct(c.jobs)
    BY DEF ListsOK
  <2>2. q = c.jobs \o o
    BY <2>1, AppendIsConcat
  <2>3. o \in Seq(Jobs) /\ Len(o) = 1 /\ o[1] = job
    OBVIOUS
  <2> HIDE DEF o, q
  <2>4. C!IdsOf(o) = {job.id} /\ Distinct(o)
    <3>1. C!IdsOf(o) = {o[i].id : i \in 1..Len(o)}
      BY <2>3, IdsOfSeq
    <3> QED
      BY <2>3, <3>1 DEF Distinct
  <2>5. C!IdsOf(c.jobs) \cap C!IdsOf(o) = {}
    BY <2>4 DEF Known, Added
  <2> QED
    BY <2>1, <2>2, <2>3, <2>4, <2>5, JoinedLists DEF Added
<1>3. DOMAIN c = SchedFields
  BY DEF ListsOK
<1> HIDE DEF q
<1>4. DOMAIN d = SchedFields /\ d.jobs = q /\ d.waiting = c.waiting
  BY <1>3 DEF SchedFields
<1>5. d.running = c.running /\ d.sorted = c.sorted /\ d.isRunning = c.isRunning /\ d.timers = c.timers
  BY <1>3 DEF SchedFields
<1> HIDE DEF d, s
<1>6. Added(d) = Added(c) \cup {job.id} /\ Waiting(d) = Waiting(c) /\ Line(d) = Line(c)
  BY <1>2, <1>4, <1>5 DEF Added, Waiting, Line
<1>7. ListsOK(d)
  <2>1. /\ d.waiting \in Seq(Jobs) /\ d.sorted \in Seq(Jobs) /\ Distinct(d.waiting) /\ Distinct(d.sorted)
        /\ ByTime(d.sorted) /\ Line(d) \subseteq d.running /\ d.running \subseteq Ids
        /\ d.running \cap Waiting(d) = {}
    BY <1>4, <1>5, <1>6 DEF ListsOK
  <2>2. d.running \cap Added(d) = {} /\ Added(d) \cap Waiting(d) = {}
    BY <1>5, <1>6 DEF ListsOK, Known
  <2> QED
    BY <1>2, <1>4, <2>1, <2>2 DEF ListsOK
<1>8. JobsPending(d, w)
  BY <1>5, <1>6 DEF JobsPending, Known
<1>9. CASE c.isRunning
  <2>1. s.c = d /\ s.w = w /\ s.threw = FALSE
    BY <1>1, <1>9
  <2>2. Whole(c) => Whole(d)
    BY <1>5, <1>6, <1>9 DEF Whole
  <2> QED
    BY <1>7, <1>8, <2>1, <2>2 DEF s
<1>10. CASE ~c.isRunning
  <2>1. s = C!Loop(d, w, costs)
    BY <1>1, <1>10
  <2>2. /\ ListsOK(s.c) /\ Shape(s.w) /\ JobsPending(s.c, s.w)
        /\ s.w.sched = w.sched /\ s.w.threw = w.threw /\ s.w.raf = w.raf /\ s.threw \in BOOLEAN
        /\ Line(d) = d.running /\ d.timers = 0 /\ ~s.threw => Whole(s.c)
    BY <1>7, <1>8, <2>1, LoopOK
  <2>3. Whole(c) => Line(d) = d.running /\ d.timers = 0
    BY <1>5, <1>6, <1>10 DEF Whole
  <2> QED
    BY <2>2, <2>3 DEF s
<1> QED
  BY <1>9, <1>10
-----------------------------------------------------------------------------
(* The page *)

\* q is a sequence.
IsSeq(q) == \E S : q \in Seq(S)

\* The inductive invariant: the lists of the scheduler are in order and its jobs
\* under way; when nothing was thrown, the line holds what is running.
PageOK(w) ==
    /\ Shape(w) /\ ListsOK(w.sched) /\ JobsPending(w.sched, w) /\ w.threw \in BOOLEAN
    /\ ~w.threw => Whole(w.sched)
    /\ IsSeq(w.raf)

(* The rest of the page does not matter. *)
LEMMA SamePage ==
    ASSUME NEW w, PageOK(w), NEW u, DOMAIN u = PageFields,
           u.sched = w.sched, u.threw = w.threw, u.view = w.view, IsSeq(u.raf)
    PROVE  PageOK(u)
  BY DEF PageOK, Shape, JobsPending

(* What the scheduler did is written to the page. *)
LEMMA ScheduledOK ==
    ASSUME NEW s, ListsOK(s.c), Shape(s.w), JobsPending(s.c, s.w),
           s.w.threw \in BOOLEAN, s.threw \in BOOLEAN,
           ~s.w.threw /\ ~s.threw => Whole(s.c), IsSeq(s.w.raf)
    PROVE  PageOK(Scheduled(s))
<1> DEFINE u == Scheduled(s)
           t == s.w.threw \/ s.threw
<1>1. u = [s.w EXCEPT !.sched = s.c, !.threw = t]
  BY DEF Scheduled
<1>2. t \in BOOLEAN /\ (~t => ~s.w.threw /\ ~s.threw)
  OBVIOUS
<1> HIDE DEF u, t
<1>3. DOMAIN s.w = PageFields
  BY DEF Shape
<1>4. DOMAIN u = PageFields /\ u.sched = s.c /\ u.threw = t /\ u.view = s.w.view /\ u.raf = s.w.raf
  BY <1>1, <1>3 DEF PageFields
<1>5. Shape(u) /\ JobsPending(u.sched, u)
  BY <1>4 DEF Shape, JobsPending
<1>6. PageOK(u)
  BY <1>2, <1>4, <1>5 DEF PageOK
<1> QED
  BY <1>6 DEF u

(* The loop of the scheduler, when its timer fires. *)
LEMMA RunJobsOK ==
    ASSUME NEW w, PageOK(w), w.sched.timers > 0, NEW costs \in Seq(Nat)
    PROVE  PageOK(RunJobs([w EXCEPT !.sched.timers = @ - 1], costs))
<1> DEFINE c == w.sched
           d == [c EXCEPT !.timers = @ - 1]
           u == [w EXCEPT !.sched = d]
           s == C!Loop(d, u, costs)
<1>1. DOMAIN w = PageFields /\ DOMAIN c = SchedFields /\ ListsOK(c)
  BY DEF PageOK, Shape, ListsOK
<1>2. DOMAIN d = SchedFields /\ d.jobs = c.jobs /\ d.waiting = c.waiting
  BY <1>1 DEF SchedFields
<1>3. d.running = c.running /\ d.sorted = c.sorted /\ d.timers = c.timers - 1
  BY <1>1 DEF SchedFields
<1> HIDE DEF d
<1>4. DOMAIN u = PageFields /\ u.sched = d /\ u.threw = w.threw /\ u.view = w.view /\ u.raf = w.raf
  BY <1>1 DEF PageFields
<1>5. u = [w EXCEPT !.sched.timers = @ - 1]
  BY DEF u, d
<1> HIDE DEF c, u
<1>6. ListsOK(d) /\ Known(d) = Known(c) /\ Line(d) = Line(c)
  BY <1>1, <1>2, <1>3 DEF ListsOK, Known, Added, Waiting, Line
<1>7. Shape(u) /\ JobsPending(d, u)
  BY <1>4, <1>6 DEF PageOK, Shape, JobsPending, c
<1>8. /\ ListsOK(s.c) /\ Shape(s.w) /\ JobsPending(s.c, s.w)
      /\ s.w.sched = u.sched /\ s.w.threw = u.threw /\ s.w.raf = u.raf /\ s.threw \in BOOLEAN
      /\ Line(d) = d.running /\ d.timers = 0 /\ ~s.threw => Whole(s.c)
  BY <1>6, <1>7, LoopOK
<1>9. ~w.threw => Line(d) = d.running /\ d.timers = 0
  BY <1>3, <1>6 DEF PageOK, Whole, c
<1>10. w.threw \in BOOLEAN /\ IsSeq(w.raf)
  BY DEF PageOK
<1>11. RunJobs(u, costs) = Scheduled(s)
  BY <1>4 DEF RunJobs
<1> HIDE DEF s
<1>12. PageOK(Scheduled(s))
  BY <1>4, <1>8, <1>9, <1>10, ScheduledOK
<1> QED
  BY <1>5, <1>11, <1>12

(* A job is added to the scheduler of the page. *)
LEMMA AddedToPage ==
    ASSUME NEW w, PageOK(w), NEW u, Shape(u), JobsPending(w.sched, u), u.threw = w.threw, u.raf = w.raf,
           NEW job \in Jobs, job.id \notin Known(w.sched),
           job.id \in Renderers => u.view[job.id].pending = TRUE, NEW costs \in Seq(Nat)
    PROVE  PageOK(Scheduled(C!AddJob(w.sched, u, job, costs)))
<1> DEFINE c == w.sched
           s == C!AddJob(c, u, job, costs)
<1>1. ListsOK(c) /\ w.threw \in BOOLEAN /\ (~w.threw => Whole(c)) /\ IsSeq(w.raf)
  BY DEF PageOK
<1>2. /\ ListsOK(s.c) /\ Shape(s.w) /\ JobsPending(s.c, s.w)
      /\ s.w.sched = u.sched /\ s.w.threw = u.threw /\ s.w.raf = u.raf /\ s.threw \in BOOLEAN
      /\ Whole(c) /\ ~s.threw => Whole(s.c)
  BY <1>1, AddJobOK
<1> HIDE DEF s
<1>3. PageOK(Scheduled(s))
  BY <1>1, <1>2, ScheduledOK
<1> QED
  BY <1>3 DEF s
-----------------------------------------------------------------------------
(* The renderers *)

(* A renderer kills the job that it has under way. *)
LEMMA KillOwnJobOK ==
    ASSUME NEW w, PageOK(w), NEW r \in Renderers
    PROVE  LET u == KillOwnJob(w, r)
           IN  PageOK(u) /\ u.view = w.view /\ r \notin Known(u.sched)
<1> DEFINE c == w.sched
           u == KillOwnJob(w, r)
<1>1. DOMAIN w = PageFields /\ ListsOK(c) /\ JobsPending(c, w) /\ IsSeq(w.raf)
  BY DEF PageOK, Shape
<1>2. C!HasJob(c, r) <=> r \in Known(c)
  BY DEF C!HasJob, Known, Added, Waiting
<1>3. CASE r \in Known(c)
  <2> DEFINE d == C!KillJob(c, r)
  <2>1. w.view[r].pending = TRUE
    BY <1>1, <1>3 DEF JobsPending
  <2>2. u = [w EXCEPT !.sched = d]
    BY <1>2, <1>3, <2>1 DEF KillOwnJob
  <2>3. /\ ListsOK(d)
        /\ d.isRunning = c.isRunning /\ d.timers = c.timers
        /\ d.running = c.running \ {r} /\ Line(d) = Line(c) \ {r}
        /\ Added(d) = Added(c) \ {r} /\ Known(d) = Known(c) \ {r}
    BY <1>1, KillOK
  <2> HIDE DEF d, u
  <2>4. DOMAIN u = PageFields /\ u.sched = d /\ u.threw = w.threw /\ u.view = w.view /\ u.raf = w.raf
    BY <1>1, <2>2 DEF PageFields
  <2>5. Shape(u) /\ JobsPending(d, u)
    BY <1>1, <2>3, <2>4 DEF PageOK, Shape, JobsPending
  <2>6. ~w.threw => Whole(d)
    BY <2>3 DEF PageOK, Whole
  <2>7. PageOK(u)
    BY <1>1, <2>3, <2>4, <2>5, <2>6 DEF PageOK
  <2> QED
    BY <2>3, <2>4, <2>7 DEF u
<1>4. CASE r \notin Known(c)
  <2>1. u = w
    BY <1>2, <1>4 DEF KillOwnJob
  <2> QED
    BY <1>4, <2>1 DEF u, c
<1> QED
  BY <1>3, <1>4

\* In u the renderer r has v, and the scheduler is as in w.
Changed(u, w, r, v) ==
    /\ PageOK(u) /\ u.sched = w.sched /\ u.threw = w.threw /\ u.raf = w.raf
    /\ u.view[r] = v

(* A renderer whose jobs are as they were. *)
LEMMA ViewChanged ==
    ASSUME NEW w, PageOK(w), NEW r \in Renderers, NEW v, DOMAIN v = ViewFields,
           w.view[r].pending = TRUE => v.pending = TRUE
    PROVE  Changed(WithView(w, r, v), w, r, v)
<1> DEFINE u == WithView(w, r, v)
<1>1. Shape(w)
  BY DEF PageOK
<1>2. /\ Shape(u) /\ u.sched = w.sched /\ u.threw = w.threw /\ u.raf = w.raf
      /\ u.view[r] = v /\ \A q \in Renderers \ {r} : u.view[q] = w.view[q]
  BY <1>1, WithViewFacts
<1> HIDE DEF u
<1>3. JobsPending(u.sched, u)
  BY <1>2 DEF PageOK, JobsPending
<1>4. PageOK(u)
  BY <1>2, <1>3 DEF PageOK
<1> QED
  BY <1>2, <1>4 DEF Changed, u

LEMMA ClearedOK ==
    ASSUME NEW w, PageOK(w), NEW r \in Renderers, NEW nodes, NEW edges
    PROVE  PageOK(Cleared(w, r, nodes, edges))
<1> DEFINE v == w.view[r]
           place == Place(w.cam)
           left == nodes \ w.hidden
           x == [v EXCEPT !.at = place, !.nodes = left, !.edges = edges]
<1>1. Cleared(w, r, nodes, edges) = WithView(w, r, x)
  BY DEF Cleared
<1>2. DOMAIN v = ViewFields
  BY DEF PageOK, Shape
<1> HIDE DEF place, left
<1>3. DOMAIN x = ViewFields /\ x.pending = v.pending
  <2> HIDE DEF v
  <2> QED
    BY <1>2 DEF ViewFields
<1> HIDE DEF x
<1>4. PageOK(WithView(w, r, x))
  BY <1>3, ViewChanged DEF Changed
<1> QED
  BY <1>1, <1>4

(* A batch begins, of a renderer that has no job. *)
LEMMA StartBatchOK ==
    ASSUME NEW w, PageOK(w), NEW r \in Renderers, r \notin Known(w.sched),
           NEW edges, NEW arrays, NEW costs \in Seq(Nat)
    PROVE  PageOK(StartBatch(w, r, edges, arrays, costs))
<1> DEFINE v == w.view[r]
           batch == [edges |-> edges, arrays |-> arrays, start |-> 0, end |-> Least(Len(edges), BatchSize)]
           begun == [v EXCEPT !.pending = TRUE, !.batch = batch]
           u == WithView(w, r, begun)
           job == C!NewJob(r, C!NoJob, 0)
<1>1. StartBatch(w, r, edges, arrays, costs) = Scheduled(C!AddJob(w.sched, u, job, costs))
  BY DEF StartBatch
<1>2. DOMAIN v = ViewFields
  BY DEF PageOK, Shape
<1> HIDE DEF batch
<1>3. DOMAIN begun = ViewFields /\ begun.pending = TRUE
  <2> HIDE DEF v
  <2> QED
    BY <1>2 DEF ViewFields
<1> HIDE DEF begun
<1>4. PageOK(u) /\ u.sched = w.sched /\ u.threw = w.threw /\ u.raf = w.raf /\ u.view[r] = begun
  <2>1. w.view[r].pending = TRUE => begun.pending = TRUE
    BY <1>3
  <2>2. Changed(u, w, r, begun)
    BY <1>3, <2>1, ViewChanged, Zenon
  <2> HIDE DEF u
  <2> QED
    BY <2>2 DEF Changed
<1> HIDE DEF u
<1>5. job \in Jobs /\ job.id = r
  <2>1. r \in Ids /\ r # Task
    BY PageAssumption DEF Ids
  <2>2. job = [id |-> r, after |-> C!NoJob, count |-> 0, done |-> 0, time |-> 0]
    BY DEF C!NewJob
  <2> QED
    BY <2>1, <2>2 DEF Jobs, JobRecords
<1> HIDE DEF job
<1>6. Shape(u) /\ JobsPending(w.sched, u)
  BY <1>4 DEF PageOK
<1>7. PageOK(Scheduled(C!AddJob(w.sched, u, job, costs)))
  BY <1>3, <1>4, <1>5, <1>6, AddedToPage
<1> QED
  BY <1>1, <1>7

LEMMA RenderOK ==
    ASSUME NEW w, PageOK(w), NEW r \in Renderers, NEW costs \in Seq(Nat)
    PROVE  PageOK(Render(w, r, costs))
<1>1. PageOK(RenderCanvas(w, r, costs))
  <2> DEFINE nodes == NodesOnScreen(w)
             x == Cleared(w, r, nodes, <<>>)
             clear == KillOwnJob(x, r)
             edges == EdgesOnScreen(clear)
  <2>1. RenderCanvas(w, r, costs)
        = IF DrawEdges(w) THEN StartBatch(clear, r, edges, <<>>, costs) ELSE clear
    BY DEF RenderCanvas
  <2> HIDE DEF nodes
  <2>2. PageOK(x)
    BY ClearedOK
  <2> HIDE DEF x
  <2>3. PageOK(clear) /\ r \notin Known(clear.sched)
    BY <2>2, KillOwnJobOK
  <2> HIDE DEF clear, edges
  <2>4. PageOK(StartBatch(clear, r, edges, <<>>, costs))
    BY <2>3, StartBatchOK
  <2> QED
    BY <2>1, <2>3, <2>4
<1>2. PageOK(RenderWebgl(w, r, costs))
  <2> DEFINE x == Cleared(w, r, {}, <<>>)
             clear == KillOwnJob(x, r)
             arrays == w.view[r].arrays
             edges == Head(arrays).edges
             others == Tail(arrays)
  <2>1. RenderWebgl(w, r, costs)
        = IF DrawEdges(w) /\ arrays # <<>> THEN StartBatch(clear, r, edges, others, costs) ELSE clear
    BY DEF RenderWebgl
  <2>2. PageOK(x)
    BY ClearedOK
  <2> HIDE DEF x
  <2>3. PageOK(clear) /\ r \notin Known(clear.sched)
    BY <2>2, KillOwnJobOK
  <2> HIDE DEF clear, edges, others, arrays
  <2>4. PageOK(StartBatch(clear, r, edges, others, costs))
    BY <2>3, StartBatchOK
  <2> QED
    BY <2>1, <2>3, <2>4
<1>3. PageOK(RenderSvg(w, r))
  <2> DEFINE nodes == NodesOnScreen(w)
             shown == IF DrawEdges(w) THEN EdgesOnScreen(w) ELSE <<>>
             edges == [i \in DOMAIN shown |-> shown[i].id]
  <2>1. RenderSvg(w, r) = Cleared(w, r, nodes, edges)
    BY DEF RenderSvg
  <2> HIDE DEF nodes, edges
  <2> QED
    BY <2>1, ClearedOK
<1> QED
  BY <1>1, <1>2, <1>3 DEF Render

LEMMA RenderRounds ==
    ASSUME NEW w, NEW costs, Len(Order) \in Nat
    PROVE  \E f : /\ RenderAll(w, costs) = f[Len(Order)]
                  /\ f[0] = w
                  /\ \A i \in 1..Len(Order) : f[i] = Render(f[i - 1], Order[i], costs)
<1> DEFINE Is(f) == f = [n \in 0 .. Len(Order) |->
                IF n = 0 THEN w
                ELSE CHOOSE u \in {Render(v, Order[n], costs) : v \in {f[n - 1]}} : TRUE]
           rendered == CHOOSE f : Is(f)
<1>1. \A f : Rounds(f, "render", w, costs, Len(Order)) <=> Is(f)
  <2>1. \A x, n : Round("render", x, costs, n)
                  = CHOOSE u \in {Render(v, Order[n], costs) : v \in {x}} : TRUE
    BY DEF Round, RenderRound
  <2> QED
    BY <2>1 DEF Rounds
<1>2. \E f : Is(f)
  <2> HIDE DEF Is
  <2> QED
    BY <1>1, RoundsExist
<1>3. RenderAll(w, costs) = rendered[Len(Order)]
  BY DEF RenderAll
<1>4. Is(rendered)
  <2> HIDE DEF Is
  <2> QED
    BY <1>2
<1> HIDE DEF rendered
<1>5. Rounds(rendered, "render", w, costs, Len(Order))
  BY <1>1, <1>4
<1>6. rendered[0] = w /\ \A i \in 1..Len(Order) : rendered[i] = Round("render", rendered[i - 1], costs, i)
  BY <1>5, EachRound
<1>7. \A x, i : Round("render", x, costs, i) = Render(x, Order[i], costs)
  BY DEF Round, RenderRound
<1>8. rendered[0] = w /\ \A i \in 1..Len(Order) : rendered[i] = Render(rendered[i - 1], Order[i], costs)
  BY <1>6, <1>7
<1> QED
  BY <1>3, <1>8

LEMMA RenderAllOK ==
    ASSUME NEW w, PageOK(w), NEW costs \in Seq(Nat)
    PROVE  PageOK(RenderAll(w, costs))
<1> DEFINE N == Len(Order)
<1>1. N \in Nat /\ \A i \in 1..N : Order[i] \in Renderers
  BY PageAssumption, ElementOfSeq, LenProperties
<1>2. PICK f : /\ RenderAll(w, costs) = f[N]
               /\ f[0] = w
               /\ \A i \in 1..N : f[i] = Render(f[i - 1], Order[i], costs)
  BY <1>1, RenderRounds
<1> HIDE DEF N
<1> DEFINE G == {i \in 0..N : PageOK(f[i])}
<1>3. 0 \in G
  BY <1>1, <1>2
<1>4. \A i \in 1..N : i - 1 \in G => i \in G
  <2> TAKE i \in 1..N
  <2> HAVE i - 1 \in G
  <2>1. PageOK(f[i - 1]) /\ Order[i] \in Renderers /\ i \in 0..N
    BY <1>1
  <2>2. PageOK(Render(f[i - 1], Order[i], costs))
    BY <2>1, RenderOK
  <2> QED
    BY <1>2, <2>1, <2>2
<1>5. N \in G
  <2> HIDE DEF G
  <2> QED
    BY <1>1, <1>3, <1>4, RoundByRound
<1> QED
  BY <1>2, <1>5
-----------------------------------------------------------------------------
(* The camera *)

LEMMA AppendedSeq ==
    ASSUME NEW q, IsSeq(q), NEW x
    PROVE  IsSeq(Append(q, x))
<1>1. PICK S : q \in Seq(S)
  BY DEF IsSeq
<1> DEFINE T == S \cup {x}
<1>2. q \in Seq(T) /\ x \in T
  BY <1>1
<1> HIDE DEF T
<1>3. Append(q, x) \in Seq(T)
  BY <1>2, AppendProperties
<1> QED
  BY <1>3 DEF IsSeq

LEMMA KeptSeq ==
    ASSUME NEW q, IsSeq(q), NEW set
    PROVE  IsSeq(C!Kept(q, set))
<1>1. PICK S : q \in Seq(S)
  BY DEF IsSeq
<1>2. C!Kept(q, set) \in Seq(S)
  BY <1>1, KeptPicks
<1> QED
  BY <1>2 DEF IsSeq

LEMMA RenderCameraOK ==
    ASSUME NEW w, PageOK(w), NEW force, NEW costs \in Seq(Nat)
    PROVE  PageOK(RenderCamera(w, force, costs))
<1> DEFINE x == RenderAll(w, costs)
           u == [x EXCEPT !.frame = TRUE, !.raf = Append(@, CameraFrame)]
           q == Append(x.raf, CameraFrame)
<1>1. PageOK(x)
  BY RenderAllOK
<1> HIDE DEF x
<1>2. IsSeq(q) /\ DOMAIN x = PageFields
  BY <1>1, AppendedSeq DEF PageOK, Shape
<1>3. u = [x EXCEPT !.frame = TRUE, !.raf = q]
  OBVIOUS
<1> HIDE DEF q, u
<1>4. DOMAIN u = PageFields /\ u.sched = x.sched /\ u.threw = x.threw /\ u.view = x.view /\ u.raf = q
  BY <1>2, <1>3 DEF PageFields
<1>5. PageOK(u)
  BY <1>1, <1>2, <1>4, SamePage
<1>6. RenderCamera(w, force, costs) \in {x, w, u}
  BY DEF RenderCamera, x, u
<1> QED
  BY <1>1, <1>5, <1>6

\* Another camera, with the rest as it was.
LEMMA CameraMoved ==
    ASSUME NEW w, PageOK(w), NEW cam
    PROVE  PageOK([w EXCEPT !.cam = cam])
<1> DEFINE u == [w EXCEPT !.cam = cam]
<1>1. DOMAIN w = PageFields /\ IsSeq(w.raf)
  BY DEF PageOK, Shape
<1>2. DOMAIN u = PageFields /\ u.sched = w.sched /\ u.threw = w.threw /\ u.view = w.view /\ u.raf = w.raf
  BY <1>1 DEF PageFields
<1> HIDE DEF u
<1>3. PageOK(u)
  BY <1>1, <1>2, SamePage
<1> QED
  BY <1>3 DEF u

LEMMA GoToOK ==
    ASSUME NEW w, PageOK(w), NEW place, NEW costs \in Seq(Nat)
    PROVE  PageOK(GoTo(w, place, costs))
<1> DEFINE moved == [w EXCEPT !.cam.x = place.x, !.cam.ratio = place.ratio]
           cam == [[w.cam EXCEPT !.x = place.x] EXCEPT !.ratio = place.ratio]
           force == moved.cam.isAnimated
<1>1. DOMAIN w = PageFields
  BY DEF PageOK, Shape
<1>2. moved = [w EXCEPT !.cam = cam]
  <2> DEFINE a == [w.cam EXCEPT !.x = place.x]
             v == [w EXCEPT !.cam = a]
  <2>1. moved = [v EXCEPT !.cam = [v.cam EXCEPT !.ratio = place.ratio]]
    OBVIOUS
  <2> HIDE DEF a, moved
  <2>2. v.cam = a
    BY <1>1 DEF PageFields
  <2>3. moved = [v EXCEPT !.cam = [a EXCEPT !.ratio = place.ratio]]
    BY <2>1, <2>2
  <2>4. cam = [a EXCEPT !.ratio = place.ratio]
    BY DEF a
  <2> HIDE DEF cam
  <2>5. moved = [v EXCEPT !.cam = cam]
    BY <2>3, <2>4
  <2> QED
    BY <2>5
<1>3. GoTo(w, place, costs) = RenderCamera(moved, force, costs)
  BY DEF GoTo
<1> HIDE DEF moved, cam, force
<1>4. PageOK(moved)
  BY <1>2, CameraMoved
<1> QED
  BY <1>3, <1>4, RenderCameraOK

\* The camera, its animations and the callbacks that wait for a frame.
LEMMA AnimationsChanged ==
    ASSUME NEW w, PageOK(w), NEW cam, NEW running, NEW raf, IsSeq(raf)
    PROVE  PageOK([w EXCEPT !.running = running, !.cam = cam, !.raf = raf])
<1> DEFINE u == [w EXCEPT !.running = running, !.cam = cam, !.raf = raf]
<1>1. DOMAIN w = PageFields
  BY DEF PageOK, Shape
<1>2. DOMAIN u = PageFields /\ u.sched = w.sched /\ u.threw = w.threw
  BY <1>1 DEF PageFields
<1>3. u.view = w.view /\ u.raf = raf
  BY <1>1 DEF PageFields
<1> HIDE DEF u
<1>4. PageOK(u)
  BY <1>2, <1>3, SamePage
<1> QED
  BY <1>4 DEF u

LEMMA AnimateOK ==
    ASSUME NEW w, PageOK(w), NEW place
    PROVE  PageOK(Animate(w, place))
<1> DEFINE id == CHOOSE i \in 1..(Len(w.running) + 1) : \A k \in DOMAIN w.running : w.running[k].id # i
           running == Append(w.running, [id |-> id, from |-> Place(w.cam), to |-> place])
           raf == Append(w.raf, id)
           u == [w EXCEPT !.running = running, !.raf = raf]
<1>1. Animate(w, place) = u
  BY DEF Animate
<1> HIDE DEF id
<1>2. IsSeq(raf) /\ DOMAIN w = PageFields
  BY AppendedSeq DEF PageOK, Shape
<1> HIDE DEF running, raf
<1>3. DOMAIN u = PageFields /\ u.sched = w.sched /\ u.threw = w.threw /\ u.view = w.view /\ u.raf = raf
  BY <1>2 DEF PageFields
<1> HIDE DEF u
<1>4. PageOK(u)
  BY <1>2, <1>3, SamePage
<1> QED
  BY <1>1, <1>4

LEMMA KillAllAnimationsOK ==
    ASSUME NEW w, PageOK(w)
    PROVE  PageOK(KillAllAnimations(w))
<1> DEFINE cam == [w.cam EXCEPT !.isAnimated = FALSE]
           raf == C!Kept(w.raf, {CameraFrame})
           u == [w EXCEPT !.running = <<>>, !.cam.isAnimated = FALSE, !.raf = C!Kept(@, {CameraFrame})]
<1>1. DOMAIN w = PageFields /\ IsSeq(raf)
  BY KeptSeq DEF PageOK, Shape
<1>2. DOMAIN u = PageFields /\ u.sched = w.sched /\ u.threw = w.threw
  BY <1>1 DEF PageFields
<1>3. u.view = w.view /\ u.raf = raf
  BY <1>1 DEF PageFields
<1> HIDE DEF raf, u
<1>4. PageOK(u)
  BY <1>1, <1>2, <1>3, SamePage
<1>5. KillAllAnimations(w) \in {w, u}
  BY DEF KillAllAnimations, u
<1> QED
  BY <1>4, <1>5

LEMMA AnimationStepOK ==
    ASSUME NEW w, PageOK(w), NEW id, NEW done, NEW costs \in Seq(Nat)
    PROVE  PageOK(AnimationStep(w, id, done, costs))
<1> DEFINE a == CHOOSE b \in ToSet(w.running) : b.id = id
           camA == [w.cam EXCEPT !.isAnimated = FALSE]
           camB == [w.cam EXCEPT !.isAnimated = TRUE]
           goneA == GoTo([w EXCEPT !.cam = camA], a.to, costs)
           half == HalfWay(a)
           goneB == GoTo([w EXCEPT !.cam = camB], half, costs)
           running == C!Other(goneA.running, id)
           raf == Append(goneB.raf, id)
           u == [goneA EXCEPT !.running = running]
           v == [goneB EXCEPT !.raf = raf]
<1>1. AnimationStep(w, id, done, costs) \in {u, v}
  BY DEF AnimationStep
<1> HIDE DEF a, camA, camB, half
<1>2. PageOK(goneA) /\ PageOK(goneB)
  <2>1. PageOK([w EXCEPT !.cam = camA]) /\ PageOK([w EXCEPT !.cam = camB])
    BY CameraMoved
  <2> QED
    BY <2>1, GoToOK
<1> HIDE DEF goneA, goneB
<1>3. PageOK(u)
  <2>1. DOMAIN goneA = PageFields /\ IsSeq(goneA.raf)
    BY <1>2 DEF PageOK, Shape
  <2> HIDE DEF running
  <2>2. DOMAIN u = PageFields /\ u.sched = goneA.sched /\ u.threw = goneA.threw /\ u.view = goneA.view /\ u.raf = goneA.raf
    BY <2>1 DEF PageFields
  <2> HIDE DEF u
  <2> QED
    BY <1>2, <2>1, <2>2, SamePage
<1>4. PageOK(v)
  <2>1. DOMAIN goneB = PageFields /\ IsSeq(raf)
    BY <1>2, AppendedSeq DEF PageOK, Shape
  <2> HIDE DEF raf
  <2>2. DOMAIN v = PageFields /\ v.sched = goneB.sched /\ v.threw = goneB.threw /\ v.view = goneB.view /\ v.raf = raf
    BY <2>1 DEF PageFields
  <2> HIDE DEF v
  <2> QED
    BY <1>2, <2>1, <2>2, SamePage
<1> QED
  BY <1>1, <1>3, <1>4

\* f[n] is the page after the first n callbacks of an animation frame.
Calls(f, w, done, costs) ==
    /\ f[0] = [w EXCEPT !.raf = <<>>]
    /\ \A i \in 1..Len(w.raf) :
          f[i] = IF w.raf[i] = CameraFrame THEN [f[i - 1] EXCEPT !.frame = FALSE]
                 ELSE AnimationStep(f[i - 1], w.raf[i], done, costs)

LEMMA FrameRounds ==
    ASSUME NEW w, NEW done, NEW costs, Len(w.raf) \in Nat
    PROVE  \E f : AnimationFrame(w, done, costs) = f[Len(w.raf)] /\ Calls(f, w, done, costs)
<1> DEFINE first == [w EXCEPT !.raf = <<>>]
           d == [raf |-> w.raf, done |-> done, costs |-> costs]
           Step(x, n) == CHOOSE u \in {IF w.raf[n] = CameraFrame THEN [v EXCEPT !.frame = FALSE]
                                       ELSE AnimationStep(v, w.raf[n], done, costs) : v \in {x}} : TRUE
           Is(f) == f = [n \in 0 .. Len(w.raf) |-> IF n = 0 THEN first ELSE Step(f[n - 1], n)]
           called == CHOOSE f : Is(f)
<1>1. \A f : Rounds(f, "frame", first, d, Len(w.raf)) <=> Is(f)
  <2>1. \A x, n : Round("frame", x, d, n) = Step(x, n)
    <3>1. d.raf = w.raf /\ d.done = done /\ d.costs = costs
      OBVIOUS
    <3> HIDE DEF d
    <3> QED
      BY <3>1 DEF Round, FrameRound
  <2> HIDE DEF first, d, Step
  <2> QED
    BY <2>1 DEF Rounds
<1>2. \E f : Is(f)
  <2> HIDE DEF Is, first, d
  <2> QED
    BY <1>1, RoundsExist
<1>3. AnimationFrame(w, done, costs) = called[Len(w.raf)]
  BY DEF AnimationFrame
<1>4. Is(called)
  <2> HIDE DEF Is
  <2> QED
    BY <1>2
<1> HIDE DEF called, first
<1>5. Rounds(called, "frame", first, d, Len(w.raf))
  BY <1>1, <1>4
<1>6. called[0] = first /\ \A i \in 1..Len(w.raf) : called[i] = Round("frame", called[i - 1], d, i)
  <2> HIDE DEF d
  <2> QED
    BY <1>5, EachRound
<1>7. \A x, i : Round("frame", x, d, i) = IF w.raf[i] = CameraFrame THEN [x EXCEPT !.frame = FALSE]
                                          ELSE AnimationStep(x, w.raf[i], done, costs)
  BY DEF Round, FrameRound
<1>8. /\ called[0] = first
      /\ \A i \in 1..Len(w.raf) :
            called[i] = IF w.raf[i] = CameraFrame THEN [called[i - 1] EXCEPT !.frame = FALSE]
                        ELSE AnimationStep(called[i - 1], w.raf[i], done, costs)
  BY <1>6, <1>7
<1> QED
  BY <1>3, <1>8 DEF first, Calls

LEMMA AnimationFrameOK ==
    ASSUME NEW w, PageOK(w), NEW done, NEW costs \in Seq(Nat)
    PROVE  PageOK(AnimationFrame(w, done, costs))
<1> DEFINE N == Len(w.raf)
           first == [w EXCEPT !.raf = <<>>]
<1>1. N \in Nat /\ DOMAIN w = PageFields
  <2>1. PICK S : w.raf \in Seq(S)
    BY DEF PageOK, IsSeq
  <2> QED
    BY <2>1, LenProperties DEF PageOK, Shape
<1>2. PICK f : /\ AnimationFrame(w, done, costs) = f[N]
               /\ f[0] = first
               /\ \A i \in 1..N :
                     f[i] = IF w.raf[i] = CameraFrame THEN [f[i - 1] EXCEPT !.frame = FALSE]
                            ELSE AnimationStep(f[i - 1], w.raf[i], done, costs)
  <2>1. \E f : AnimationFrame(w, done, costs) = f[N] /\ Calls(f, w, done, costs)
    BY <1>1, FrameRounds, Zenon
  <2> QED
    BY <2>1 DEF Calls
<1> HIDE DEF N
<1> DEFINE G == {i \in 0..N : PageOK(f[i])}
<1>3. 0 \in G
  <2>1. DOMAIN first = PageFields /\ first.sched = w.sched /\ first.threw = w.threw /\ first.view = w.view /\ first.raf = <<>>
    BY <1>1 DEF PageFields
  <2>2. IsSeq(<<>>)
    <3>1. <<>> \in Seq(Nat)
      OBVIOUS
    <3> QED
      BY <3>1 DEF IsSeq
  <2> HIDE DEF first
  <2>3. PageOK(first)
    BY <2>1, <2>2, SamePage
  <2> QED
    BY <1>1, <1>2, <2>3
<1>4. \A i \in 1..N : i - 1 \in G => i \in G
  <2> TAKE i \in 1..N
  <2> HAVE i - 1 \in G
  <2> DEFINE x == f[i - 1]
             u == [x EXCEPT !.frame = FALSE]
             v == AnimationStep(x, w.raf[i], done, costs)
  <2>1. PageOK(x) /\ i \in 0..N
    BY <1>1
  <2>2. f[i] \in {u, v}
    BY <1>2
  <2> HIDE DEF x
  <2>3. PageOK(u)
    <3>1. DOMAIN x = PageFields /\ IsSeq(x.raf)
      BY <2>1 DEF PageOK, Shape
    <3>2. DOMAIN u = PageFields /\ u.sched = x.sched /\ u.threw = x.threw /\ u.view = x.view /\ u.raf = x.raf
      BY <3>1 DEF PageFields
    <3> HIDE DEF u
    <3> QED
      BY <2>1, <3>1, <3>2, SamePage
  <2>4. PageOK(v)
    BY <2>1, AnimationStepOK
  <2> QED
    BY <2>1, <2>2, <2>3, <2>4
<1>5. N \in G
  <2> HIDE DEF G
  <2> QED
    BY <1>1, <1>3, <1>4, RoundByRound
<1> QED
  BY <1>2, <1>5

LEMMA ZoomToOK ==
    ASSUME NEW w, PageOK(w), NEW m, NEW ratio
    PROVE  PageOK(ZoomTo(w, m, ratio))
<1> DEFINE wished == IF ratio < ZoomMin THEN ZoomMin ELSE Least(ratio, ZoomMax)
           k == KillAllAnimations(w)
           place == [x |-> w.cam.x + m * (w.cam.ratio - wished), ratio |-> wished]
<1>1. ZoomTo(w, m, ratio) = IF wished = w.cam.ratio THEN w ELSE Animate(k, place)
  BY DEF ZoomTo
<1> HIDE DEF wished, k, place
<1>2. PageOK(k)
  BY KillAllAnimationsOK DEF k
<1>3. PageOK(Animate(k, place))
  BY <1>2, AnimateOK
<1> QED
  BY <1>1, <1>3
-----------------------------------------------------------------------------
(* The steps of the page *)

(* A change of the graph, of what is hidden or of what the quadtree holds. *)
LEMMA GraphChanged ==
    ASSUME NEW w, PageOK(w), NEW x
    PROVE  /\ PageOK([w EXCEPT !.g = x]) /\ PageOK([w EXCEPT !.hidden = x])
           /\ PageOK([w EXCEPT !.indexed = x])
<1>1. DOMAIN w = PageFields /\ IsSeq(w.raf)
  BY DEF PageOK, Shape
<1>2. PageOK([w EXCEPT !.g = x])
  <2> DEFINE u == [w EXCEPT !.g = x]
  <2>1. DOMAIN u = PageFields /\ u.sched = w.sched /\ u.threw = w.threw /\ u.view = w.view /\ u.raf = w.raf
    BY <1>1 DEF PageFields
  <2> HIDE DEF u
  <2>2. PageOK(u)
    BY <1>1, <2>1, SamePage
  <2> QED
    BY <2>2 DEF u
<1>3. PageOK([w EXCEPT !.hidden = x])
  <2> DEFINE u == [w EXCEPT !.hidden = x]
  <2>1. DOMAIN u = PageFields /\ u.sched = w.sched /\ u.threw = w.threw /\ u.view = w.view /\ u.raf = w.raf
    BY <1>1 DEF PageFields
  <2> HIDE DEF u
  <2>2. PageOK(u)
    BY <1>1, <2>1, SamePage
  <2> QED
    BY <2>2 DEF u
<1>4. PageOK([w EXCEPT !.indexed = x])
  <2> DEFINE u == [w EXCEPT !.indexed = x]
  <2>1. DOMAIN u = PageFields /\ u.sched = w.sched /\ u.threw = w.threw /\ u.view = w.view /\ u.raf = w.raf
    BY <1>1 DEF PageFields
  <2> HIDE DEF u
  <2>2. PageOK(u)
    BY <1>1, <2>1, SamePage
  <2> QED
    BY <2>2 DEF u
<1> QED
  BY <1>2, <1>3, <1>4

(* process makes the arrays of webgl again. *)
LEMMA ProcessOK ==
    ASSUME NEW w, PageOK(w)
    PROVE  PageOK(Process(w))
<1> DEFINE arrays == Arrays(w)
           view == [r \in Renderers |->
                      IF Kind[r] = "webgl" /\ w.view[r].alive
                      THEN [w.view[r] EXCEPT !.arrays = arrays] ELSE w.view[r]]
           u == [w EXCEPT !.view = view]
<1>1. Process(w) = u
  BY DEF Process
<1> HIDE DEF arrays
<1>2. /\ DOMAIN w = PageFields /\ IsSeq(w.raf) /\ JobsPending(w.sched, w)
      /\ \A r \in Renderers : DOMAIN w.view[r] = ViewFields
  BY DEF PageOK, Shape
<1>3. \A r \in Renderers : DOMAIN view[r] = ViewFields /\ view[r].pending = w.view[r].pending
  <2> TAKE r \in Renderers
  <2> DEFINE v == w.view[r]
             x == [v EXCEPT !.arrays = arrays]
  <2>1. DOMAIN v = ViewFields
    BY <1>2
  <2>2. view[r] \in {v, x}
    OBVIOUS
  <2> HIDE DEF v
  <2>3. DOMAIN x = ViewFields /\ x.pending = v.pending
    BY <2>1 DEF ViewFields
  <2> HIDE DEF x, view
  <2>4. DOMAIN view[r] = ViewFields /\ view[r].pending = v.pending
    BY <2>1, <2>2, <2>3
  <2> QED
    BY <2>4 DEF v
<1>4. DOMAIN view = Renderers
  OBVIOUS
<1> HIDE DEF view
<1>5. DOMAIN u = PageFields /\ u.sched = w.sched /\ u.threw = w.threw /\ u.view = view /\ u.raf = w.raf
  BY <1>2 DEF PageFields
<1> HIDE DEF u
<1>6. Shape(u) /\ JobsPending(u.sched, u)
  BY <1>2, <1>3, <1>4, <1>5 DEF Shape, JobsPending
<1>7. PageOK(u)
  BY <1>5, <1>6 DEF PageOK
<1> QED
  BY <1>1, <1>7

LEMMA RefreshOK ==
    ASSUME NEW w, PageOK(w), NEW costs \in Seq(Nat)
    PROVE  PageOK(Refresh(w, costs))
<1> DEFINE x == NodeIds(w.g)
           u == [w EXCEPT !.indexed = x]
<1>1. Refresh(w, costs) = RenderAll(Process(u), costs)
  BY DEF Refresh
<1> HIDE DEF x
<1>2. PageOK(u)
  BY GraphChanged
<1> HIDE DEF u
<1>3. PageOK(Process(u))
  BY <1>2, ProcessOK
<1> QED
  BY <1>1, <1>3, RenderAllOK

(* killRenderer *)
LEMMA KillRendererOK ==
    ASSUME NEW w, PageOK(w), NEW r \in Renderers
    PROVE  PageOK(KillRenderer(w, r))
<1> DEFINE v == w.view[r]
           x == [v EXCEPT !.alive = FALSE]
<1>1. KillRenderer(w, r) = WithView(w, r, x)
  BY DEF KillRenderer
<1>2. DOMAIN v = ViewFields
  BY DEF PageOK, Shape
<1>3. DOMAIN x = ViewFields /\ x.pending = v.pending
  <2> HIDE DEF v
  <2> QED
    BY <1>2 DEF ViewFields
<1> HIDE DEF x
<1>4. w.view[r].pending = TRUE => x.pending = TRUE
  BY <1>3
<1>5. Changed(WithView(w, r, x), w, r, x)
  BY <1>3, <1>4, ViewChanged, Zenon
<1> QED
  BY <1>1, <1>5 DEF Changed

(* A new page. *)
LEMMA BuiltOK == PageOK(Built)
<1> DEFINE c == C!NewConrad
<1>1. /\ DOMAIN c = SchedFields /\ c.jobs = <<>> /\ c.waiting = <<>> /\ c.running = {}
      /\ c.sorted = <<>> /\ c.isRunning = FALSE /\ c.timers = 0
  BY DEF C!NewConrad, SchedFields
<1> HIDE DEF c
<1>2. Added(c) = {} /\ Waiting(c) = {} /\ Line(c) = {} /\ Known(c) = {}
  BY <1>1, EmptyList DEF Added, Waiting, Line, Known
<1>3. ListsOK(c) /\ Whole(c)
  BY <1>1, <1>2, EmptyList DEF ListsOK, Whole
<1>4. /\ DOMAIN Built = PageFields /\ Built.sched = c /\ Built.threw = FALSE /\ Built.raf = <<>>
      /\ Built.view = [r \in Renderers |-> NewView]
  BY DEF Built, PageFields, c
<1>5. DOMAIN NewView = ViewFields
  BY DEF NewView, ViewFields
<1>6. Shape(Built) /\ JobsPending(c, Built)
  BY <1>2, <1>4, <1>5 DEF Shape, JobsPending
<1>7. IsSeq(Built.raf)
  <2>1. <<>> \in Seq(Nat)
    OBVIOUS
  <2> QED
    BY <1>4, <2>1 DEF IsSeq
<1> QED
  BY <1>3, <1>4, <1>6, <1>7 DEF PageOK

LEMMA FirstPageOK == Init => PageOK(page)
<1> SUFFICES ASSUME Init PROVE PageOK(page)
  OBVIOUS
<1>1. PICK costs \in Frames : page = Refresh(Built, costs)
  BY DEF Init
<1>2. costs \in Seq(Nat)
  BY PageAssumption
<1>3. PageOK(Refresh(Built, costs))
  BY <1>2, BuiltOK, RefreshOK
<1> QED
  BY <1>1, <1>3

LEMMA ChangeOK ==
    ASSUME NEW changed, PageOK(changed), NEW drops, Change(changed, drops)
    PROVE  PageOK(page')
<1>1. PICK refresh \in BOOLEAN, costs \in Frames \ {<<>>} :
         page' = IF refresh THEN Refresh(changed, costs) ELSE changed
  BY DEF Change
<1>2. costs \in Seq(Nat)
  BY PageAssumption
<1>3. PageOK(Refresh(changed, costs))
  BY <1>2, RefreshOK
<1> QED
  BY <1>1, <1>3

LEMMA SchedulesOK ==
    ASSUME PageOK(page), Schedules
    PROVE  PageOK(page')
<1>1. PICK after \in {C!NoJob} \cup Renderers, count \in 1..2, costs \in Frames :
         /\ ~C!HasJob(page.sched, Task)
         /\ page' = Scheduled(C!AddJob(page.sched, page, C!NewJob(Task, after, count), costs))
  <2>1. {C!NoJob} \cup {r \in Renderers : page.view[r].pending} \subseteq {C!NoJob} \cup Renderers
    OBVIOUS
  <2> QED
    BY <2>1 DEF Schedules
<1>2. costs \in Seq(Nat)
  BY PageAssumption
<1> DEFINE job == C!NewJob(Task, after, count)
<1>3. job \in Jobs /\ job.id = Task
  <2>1. job = [id |-> Task, after |-> after, count |-> count, done |-> 0, time |-> 0]
    BY DEF C!NewJob
  <2>2. after \in Ids \cup {C!NoJob} /\ Task \in Ids /\ count \in Nat
    BY DEF Ids
  <2> QED
    BY <2>1, <2>2 DEF Jobs, JobRecords
<1> HIDE DEF job
<1>4. Task \notin Known(page.sched)
  BY <1>1 DEF C!HasJob, Known, Added, Waiting
<1>5. Task \notin Renderers
  BY PageAssumption
<1>6. Shape(page) /\ JobsPending(page.sched, page)
  BY DEF PageOK
<1>7. PageOK(Scheduled(C!AddJob(page.sched, page, job, costs)))
  BY <1>2, <1>3, <1>4, <1>5, <1>6, AddedToPage
<1> QED
  BY <1>1, <1>7 DEF job

LEMMA MoveOK ==
    ASSUME PageOK(page), Move
    PROVE  PageOK(page')
<1> DEFINE killed == KillAllAnimations(page)
           still == [killed EXCEPT !.cam.isMoving = TRUE]
           cam == [killed.cam EXCEPT !.isMoving = TRUE]
<1>1. PICK costs \in Frames : \E place : page' = GoTo(still, place, costs) \/ page' = still
  BY DEF Move
<1>2. costs \in Seq(Nat)
  BY PageAssumption
<1>3. PageOK(killed)
  BY KillAllAnimationsOK
<1> HIDE DEF killed
<1>4. still = [killed EXCEPT !.cam = cam]
  OBVIOUS
<1> HIDE DEF cam, still
<1>5. PageOK(still)
  BY <1>3, <1>4, CameraMoved
<1>6. \A place : PageOK(GoTo(still, place, costs))
  BY <1>2, <1>5, GoToOK
<1> QED
  BY <1>1, <1>5, <1>6

LEMMA UpOK ==
    ASSUME PageOK(page), Up
    PROVE  PageOK(page')
<1> DEFINE still == [page EXCEPT !.cam.isMoving = FALSE]
           cam == [page.cam EXCEPT !.isMoving = FALSE]
           killed == KillAllAnimations(still)
<1>1. PICK costs \in Frames :
         \E place : \/ page' = Animate(killed, place) \/ page' = GoTo(still, place, costs)
                    \/ page' = still
  BY DEF Up
<1>2. costs \in Seq(Nat)
  BY PageAssumption
<1>3. still = [page EXCEPT !.cam = cam]
  OBVIOUS
<1> HIDE DEF cam, still
<1>4. PageOK(still)
  BY <1>3, CameraMoved
<1>5. PageOK(killed)
  BY <1>4, KillAllAnimationsOK
<1> HIDE DEF killed
<1>6. \A place : PageOK(Animate(killed, place))
  BY <1>5, AnimateOK
<1>7. \A place : PageOK(GoTo(still, place, costs))
  BY <1>2, <1>4, GoToOK
<1> QED
  BY <1>1, <1>4, <1>6, <1>7

LEMMA StepKeepsPage == PageOK(page) /\ [Next]_vars => PageOK(page')
<1> SUFFICES ASSUME PageOK(page), [Next]_vars PROVE PageOK(page')
  OBVIOUS
<1>1. CASE Reads
  <2> DEFINE x == Read(page.g, MoreNodes, MoreEdges)
             u == [page EXCEPT !.g = x]
  <2>1. Change(u, FALSE)
    BY <1>1 DEF Reads
  <2> HIDE DEF x
  <2>2. PageOK(u)
    BY GraphChanged
  <2> HIDE DEF u
  <2> QED
    BY <2>1, <2>2, ChangeOK
<1>2. CASE DropsNode
  <2>1. PICK n : Change([page EXCEPT !.g = DropNode(@, n)], TRUE)
    BY <1>2 DEF DropsNode
  <2> DEFINE x == DropNode(page.g, n)
             u == [page EXCEPT !.g = x]
  <2>2. Change(u, TRUE)
    BY <2>1
  <2> HIDE DEF x
  <2>3. PageOK(u)
    BY GraphChanged
  <2> HIDE DEF u
  <2> QED
    BY <2>2, <2>3, ChangeOK
<1>3. CASE DropsEdge
  <2>1. PICK e : Change([page EXCEPT !.g = DropEdge(@, e)], TRUE)
    BY <1>3 DEF DropsEdge
  <2> DEFINE x == DropEdge(page.g, e)
             u == [page EXCEPT !.g = x]
  <2>2. Change(u, TRUE)
    BY <2>1
  <2> HIDE DEF x
  <2>3. PageOK(u)
    BY GraphChanged
  <2> HIDE DEF u
  <2> QED
    BY <2>2, <2>3, ChangeOK
<1>4. CASE Clears
  <2> DEFINE x == Clear(page.g)
             u == [page EXCEPT !.g = x]
  <2>1. Change(u, TRUE)
    BY <1>4 DEF Clears
  <2> HIDE DEF x
  <2>2. PageOK(u)
    BY GraphChanged
  <2> HIDE DEF u
  <2> QED
    BY <2>1, <2>2, ChangeOK
<1>5. CASE Hides
  <2>1. PICK y : Change([page EXCEPT !.hidden = IF y \in @ THEN @ \ {y} ELSE @ \cup {y}], FALSE)
    BY <1>5 DEF Hides
  <2> DEFINE x == IF y \in page.hidden THEN page.hidden \ {y} ELSE page.hidden \cup {y}
             u == [page EXCEPT !.hidden = x]
  <2>2. Change(u, FALSE)
    BY <2>1
  <2> HIDE DEF x
  <2>3. PageOK(u)
    BY GraphChanged
  <2> HIDE DEF u
  <2> QED
    BY <2>2, <2>3, ChangeOK
<1>6. CASE KillsRenderer
  <2>1. PICK r \in Renderers : page' = KillRenderer(page, r)
    BY <1>6 DEF KillsRenderer
  <2> QED
    BY <2>1, KillRendererOK
<1>7. CASE Schedules
  BY <1>7, SchedulesOK
<1>8. CASE Down
  BY <1>8 DEF Down
<1>9. CASE Move
  BY <1>9, MoveOK
<1>10. CASE DragTimeout
  BY <1>10 DEF DragTimeout
<1>11. CASE Up
  BY <1>11, UpOK
<1>12. CASE Wheel
  <2>1. PICK m, ratio : page' = ZoomTo(page, m, ratio)
    BY <1>12 DEF Wheel
  <2> QED
    BY <2>1, ZoomToOK
<1>13. CASE DoubleClick
  <2>1. PICK m, ratio : page' = ZoomTo(page, m, ratio)
    BY <1>13 DEF DoubleClick
  <2> QED
    BY <2>1, ZoomToOK
<1>14. CASE Frame
  <2>1. PICK done \in BOOLEAN, costs \in Frames : page' = AnimationFrame(page, done, costs)
    BY <1>14 DEF Frame
  <2>2. costs \in Seq(Nat)
    BY PageAssumption
  <2> QED
    BY <2>1, <2>2, AnimationFrameOK
<1>15. CASE Loop
  <2>1. /\ page.sched.timers > 0
        /\ \E costs \in Frames : page' = RunJobs([page EXCEPT !.sched.timers = @ - 1], costs)
    BY <1>15 DEF Loop
  <2>2. PICK costs \in Frames : page' = RunJobs([page EXCEPT !.sched.timers = @ - 1], costs)
    BY <2>1
  <2>3. costs \in Seq(Nat)
    BY PageAssumption
  <2>4. PageOK(RunJobs([page EXCEPT !.sched.timers = @ - 1], costs))
    BY <2>1, <2>3, RunJobsOK
  <2> QED
    BY <2>2, <2>4
<1>16. CASE UNCHANGED vars
  BY <1>16 DEF vars
<1> QED
  BY <1>1, <1>2, <1>3, <1>4, <1>5, <1>6, <1>7, <1>8, <1>9, <1>10, <1>11, <1>12, <1>13,
     <1>14, <1>15, <1>16 DEF Next
-----------------------------------------------------------------------------
(* What the invariant says of the scheduler *)

(* A list in which no id comes twice has as many ids as jobs. *)
LEMMA AsManyIds ==
    ASSUME NEW q \in Seq(Jobs), Distinct(q)
    PROVE  Cardinality({q[i].id : i \in DOMAIN q}) = Len(q)
<1> DEFINE n == Len(q)
           line == {q[i].id : i \in DOMAIN q}
           f == [i \in 1..n |-> q[i].id]
<1>1. n \in Nat /\ DOMAIN q = 1..n
  BY IdsOfSeq
<1>2. /\ f \in [1..n -> line]
      /\ \A i, j \in 1..n : f[i] = f[j] => i = j
      /\ \A x \in line : \E i \in 1..n : f[i] = x
  BY <1>1 DEF Distinct
<1> HIDE DEF f, line
<1>3. f \in Bijection(1..n, line)
  BY <1>2, Fun_IsBij
<1>4. ExistsBijection(1..n, line)
  BY <1>3 DEF ExistsBijection
<1> HIDE DEF n
<1>5. Cardinality(line) = n
  BY <1>1, <1>4, FS_CountingElements
<1> QED
  BY <1>5 DEF n, line

LEMMA PageIsCoherent == PageOK(page) => SchedulerIsCoherent
<1> SUFFICES ASSUME PageOK(page) PROVE SchedulerIsCoherent
  OBVIOUS
<1> DEFINE c == page.sched
           line == {c.sorted[i].id : i \in DOMAIN c.sorted}
<1>1. ListsOK(c) /\ (~page.threw => Whole(c))
  BY DEF PageOK
<1>2. line = Line(c)
  BY DEF Line, C!IdsOf
<1>3. C!Cardinality(line) = Len(c.sorted)
  <2>1. Cardinality(line) = Len(c.sorted)
    BY <1>1, AsManyIds DEF ListsOK
  <2> HIDE DEF c, line
  <2>2. C!Cardinality(line) = Cardinality(line)
    BY DEF C!Cardinality, Cardinality, C!IsFiniteSet, IsFiniteSet
  <2> QED
    BY <2>1, <2>2
<1>4. /\ DOMAIN c.sorted = 1..Len(c.sorted)
      /\ c.jobs # <<>> => Added(c) # {}
  BY <1>1, IdsOfSeq DEF ListsOK, Added
<1> HIDE DEF c, line
<1>5. /\ c.running \cap (C!IdsOf(c.jobs) \cup C!IdsOf(c.waiting)) = {}
      /\ C!IdsOf(c.jobs) \cap C!IdsOf(c.waiting) = {}
      /\ line \subseteq c.running
  BY <1>1, <1>2 DEF ListsOK, Added, Waiting
<1>6. \A i, j \in DOMAIN c.sorted : i < j => c.sorted[i].time <= c.sorted[j].time
  BY <1>1, <1>4 DEF ListsOK, ByTime
<1>7. ~page.threw => /\ line = c.running
                     /\ c.timers = IF c.isRunning THEN 1 ELSE 0
                     /\ c.jobs # <<>> \/ line # {} => c.isRunning
  BY <1>1, <1>2, <1>4 DEF Whole
<1> QED
  BY <1>3, <1>5, <1>6, <1>7 DEF SchedulerIsCoherent, C!SchedulerCoherent, c, line

(* conrad.js keeps its lists, its line by priority and its timer coherent whatever  *)
(* the page and the user do, and whichever job throws an exception: a job is in one *)
(* list, the line holds running jobs by the time they used, each once, and as long  *)
(* as nothing was thrown it holds all of them and one timer is set for them.        *)
THEOREM SchedulerStaysCoherent == Spec => []SchedulerIsCoherent
<1>1. Init => PageOK(page)
  BY FirstPageOK
<1>2. PageOK(page) /\ [Next]_vars => PageOK(page)'
  BY StepKeepsPage
<1>3. PageOK(page) => SchedulerIsCoherent
  BY PageIsCoherent
<1> QED
  BY <1>1, <1>2, <1>3, PTL DEF Spec

(* render kills the jobs that it finds in its own variables and gives a new one to   *)
(* the scheduler under the same id (canvas 164-167 and 256, webgl 274-277 and 366):  *)
(* the scheduler never has a job of a renderer that the renderer does not know of,   *)
(* which it could not kill.                                                          *)
THEOREM JobsAreUnderWay ==
    Spec => [](\A r \in Renderers : C!HasJob(page.sched, r) => page.view[r].pending)
<1> DEFINE UnderWay == \A r \in Renderers : C!HasJob(page.sched, r) => page.view[r].pending
<1>1. Init => PageOK(page)
  BY FirstPageOK
<1>2. PageOK(page) /\ [Next]_vars => PageOK(page)'
  BY StepKeepsPage
<1>3. PageOK(page) => UnderWay
  BY DEF PageOK, JobsPending, Known, Added, Waiting, C!HasJob
<1> QED
  BY <1>1, <1>2, <1>3, PTL DEF Spec
=============================================================================
