---------------------------- MODULE PageBusProofs ----------------------------
(***************************************************************************)
(* Proofs about PageBus, for all names, ids and bounds: every frame is     *)
(* read as it was written, and in whatever order the Master answers, an    *)
(* answer calls the callback of the request it is an answer to.            *)
(***************************************************************************)
EXTENDS PageBus, SequenceTheorems, WellFoundedInduction, TLAPS

-----------------------------------------------------------------------------
(* Numbers, and the functions that FlattenSeq and the decoder compute with. *)

(* A set of numbers that is not empty has a least one. *)
LEMMA LeastExists ==
    ASSUME NEW S \in SUBSET Nat, S # {}
    PROVE  \E i \in S : \A j \in S : i <= j
<1> DEFINE R == OpToRel(<, Nat)
<1>1. IsWellFoundedOn(R, Nat)
  BY NatLessThanWellFounded
<1>2. PICK i \in S : \A j \in S : ~ (<<j, i>> \in R)
  <2> HIDE DEF R
  <2> QED
    BY <1>1, WFMin
<1>3. \A j \in S : ~ (j < i)
  BY <1>2 DEF OpToRel
<1> QED
  BY <1>3

Flattens(f, seqs, n) ==
    f = [i \in 1..n |-> IF i = 1 THEN seqs[i] ELSE f[i - 1] \o seqs[i]]

(* The function that FlattenSeq chooses, the concatenations so far, exists. *)
LEMMA FlatExists ==
    ASSUME NEW seqs, NEW n \in Nat
    PROVE  \E f : Flattens(f, seqs, n)
<1> DEFINE Step(r, i) == r \o seqs[i]
           S == {i \in Nat : ~ \E f : Flattens(f, seqs, i)}
<1>1. CASE S = {}
  BY <1>1
<1>2. CASE S # {}
  <2>1. PICK i \in S : \A j \in S : i <= j
    <3>1. S \in SUBSET Nat
      OBVIOUS
    <3> HIDE DEF S
    <3> QED
      BY <1>2, <3>1, LeastExists
  <2>2. CASE i = 0
    <3> DEFINE f == [j \in 1..0 |-> seqs[j]]
    <3>1. f = [j \in 1..0 |-> IF j = 1 THEN seqs[j] ELSE Step(f[j - 1], j)]
      <4> HIDE DEF Step
      <4> QED
        OBVIOUS
    <3> HIDE DEF f
    <3>2. Flattens(f, seqs, i)
      BY <2>2, <3>1 DEF Flattens
    <3> QED
      BY <2>1, <3>2, Zenon
  <2>3. CASE i > 0
    <3>1. i - 1 \in Nat /\ i - 1 \notin S
      BY <2>1, <2>3
    <3>2. PICK f : Flattens(f, seqs, i - 1)
      BY <3>1
    <3>3. f = [j \in 1..(i - 1) |-> IF j = 1 THEN seqs[j] ELSE Step(f[j - 1], j)]
      BY <3>2 DEF Flattens
    <3> HIDE DEF Step
    <3> DEFINE last == IF i = 1 THEN seqs[i] ELSE Step(f[i - 1], i)
               g == [j \in 1..i |-> IF j = i THEN last ELSE f[j]]
    <3> HIDE DEF last
    <3>4. ASSUME NEW j \in 1..i
          PROVE  g[j] = IF j = 1 THEN seqs[j] ELSE Step(g[j - 1], j)
      <4>1. CASE j < i
        <5>1. j \in 1..(i - 1) /\ j # i /\ j - 1 # i
          BY <4>1
        <5>2. g[j] = f[j] /\ (j # 1 => g[j - 1] = f[j - 1])
          BY <5>1
        <5>3. f[j] = IF j = 1 THEN seqs[j] ELSE Step(f[j - 1], j)
          BY <3>3, <5>1
        <5> HIDE DEF g
        <5> QED
          BY <5>2, <5>3
      <4>2. CASE j = i
        <5>1. g[j] = last /\ (j # 1 => g[j - 1] = f[j - 1])
          BY <4>2
        <5> HIDE DEF g
        <5> QED
          BY <4>2, <5>1 DEF last
      <4>3. j < i \/ j = i
        BY <2>1
      <4> QED
        BY <4>1, <4>2, <4>3, Zenon
    <3>5. g = [j \in 1..i |-> g[j]]
      OBVIOUS
    <3> HIDE DEF g
    <3>6. g = [j \in 1..i |-> IF j = 1 THEN seqs[j] ELSE Step(g[j - 1], j)]
      BY <3>4, <3>5, Zenon
    <3>7. Flattens(g, seqs, i)
      BY <3>6 DEF Flattens, Step
    <3> QED
      BY <2>1, <3>7
  <2> QED
    BY <2>1, <2>2, <2>3
<1> QED
  BY <1>1, <1>2

Decodes(f, bytes, n) ==
    f = [i \in 0..n |-> IF i = 0 THEN <<>> ELSE Decode(f[i - 1], bytes, i)]

(* The function that FromUTF8ByteArray chooses, the texts read so far, exists. *)
LEMMA DecoderExists ==
    ASSUME NEW bytes, NEW n \in Nat
    PROVE  \E f : Decodes(f, bytes, n)
<1> DEFINE Step(r, i) == Decode(r, bytes, i)
           S == {i \in Nat : ~ \E f : Decodes(f, bytes, i)}
<1>1. CASE S = {}
  BY <1>1
<1>2. CASE S # {}
  <2>1. PICK i \in S : \A j \in S : i <= j
    <3>1. S \in SUBSET Nat
      OBVIOUS
    <3> HIDE DEF S
    <3> QED
      BY <1>2, <3>1, LeastExists
  <2>2. CASE i = 0
    <3> DEFINE f == [j \in 0..0 |-> <<>>]
    <3>1. f = [j \in 0..0 |-> IF j = 0 THEN <<>> ELSE Step(f[j - 1], j)]
      <4> HIDE DEF Step
      <4> QED
        OBVIOUS
    <3> HIDE DEF f
    <3>2. Decodes(f, bytes, i)
      BY <2>2, <3>1 DEF Decodes
    <3> QED
      BY <2>1, <3>2, Zenon
  <2>3. CASE i > 0
    <3>1. i - 1 \in Nat /\ i - 1 \notin S
      BY <2>1, <2>3
    <3>2. PICK f : Decodes(f, bytes, i - 1)
      BY <3>1
    <3>3. f = [j \in 0..(i - 1) |-> IF j = 0 THEN <<>> ELSE Step(f[j - 1], j)]
      BY <3>2 DEF Decodes
    <3> HIDE DEF Step
    <3> DEFINE last == IF i = 0 THEN <<>> ELSE Step(f[i - 1], i)
               g == [j \in 0..i |-> IF j = i THEN last ELSE f[j]]
    <3> HIDE DEF last
    <3>4. ASSUME NEW j \in 0..i
          PROVE  g[j] = IF j = 0 THEN <<>> ELSE Step(g[j - 1], j)
      <4>1. CASE j < i
        <5>1. j \in 0..(i - 1) /\ j # i /\ j - 1 # i
          BY <4>1
        <5>2. g[j] = f[j] /\ (j # 0 => g[j - 1] = f[j - 1])
          BY <5>1
        <5>3. f[j] = IF j = 0 THEN <<>> ELSE Step(f[j - 1], j)
          BY <3>3, <5>1
        <5> HIDE DEF g
        <5> QED
          BY <5>2, <5>3
      <4>2. CASE j = i
        <5>1. g[j] = last /\ (j # 0 => g[j - 1] = f[j - 1])
          BY <4>2
        <5> HIDE DEF g
        <5> QED
          BY <4>2, <5>1 DEF last
      <4>3. j < i \/ j = i
        BY <2>1
      <4> QED
        BY <4>1, <4>2, <4>3, Zenon
    <3>5. g = [j \in 0..i |-> g[j]]
      OBVIOUS
    <3> HIDE DEF g
    <3>6. g = [j \in 0..i |-> IF j = 0 THEN <<>> ELSE Step(g[j - 1], j)]
      BY <3>4, <3>5, Zenon
    <3>7. Decodes(g, bytes, i)
      BY <3>6 DEF Decodes, Step
    <3> QED
      BY <2>1, <3>7
  <2> QED
    BY <2>1, <2>2, <2>3
<1> QED
  BY <1>1, <1>2

(* What is read of a text is the last of them. *)
LEMMA DecodedBy ==
    ASSUME NEW bytes, Len(bytes) \in Nat
    PROVE  \E g : /\ Decodes(g, bytes, Len(bytes))
                  /\ FromUTF8ByteArray(bytes) = g[Len(bytes)]
<1> DEFINE g == CHOOSE g : g = [i \in 0..Len(bytes) |->
                                  IF i = 0 THEN <<>> ELSE Decode(g[i - 1], bytes, i)]
<1>1. g = [i \in 0..Len(bytes) |-> IF i = 0 THEN <<>> ELSE Decode(g[i - 1], bytes, i)]
  <2>1. PICK h : Decodes(h, bytes, Len(bytes))
    BY DecoderExists
  <2>2. h = [i \in 0..Len(bytes) |-> IF i = 0 THEN <<>> ELSE Decode(h[i - 1], bytes, i)]
    BY <2>1 DEF Decodes
  <2> QED
    BY <2>2, Zenon
<1>2. FromUTF8ByteArray(bytes) = g[Len(bytes)]
  BY Zenon DEF FromUTF8ByteArray
<1>3. Decodes(g, bytes, Len(bytes))
  BY <1>1, Zenon DEF Decodes
<1> QED
  BY <1>2, <1>3, Zenon

(* One step of it. *)
LEMMA DecoderSteps ==
    ASSUME NEW bytes, NEW n \in Nat, NEW g, Decodes(g, bytes, n)
    PROVE  g[0] = <<>> /\ \A i \in 1..n : g[i] = Decode(g[i - 1], bytes, i)
<1>1. g = [i \in 0..n |-> IF i = 0 THEN <<>> ELSE Decode(g[i - 1], bytes, i)]
  BY DEF Decodes
<1> HIDE DEF Decode
<1> QED
  BY <1>1

-----------------------------------------------------------------------------
(* A text is the same when it is read from its bytes. *)

(* A text does not begin in the middle of a character. *)
Begins(bytes) == Len(bytes) > 0 => bytes[1] < 128 \/ bytes[1] >= 192

(* The same m bytes, which do not begin in the middle of a character. *)
Alike(b, c, m) == (\A i \in 1..m : b[i] = c[i]) /\ (m > 0 => b[1] < 128 \/ b[1] >= 192)

(* Two decoders that see the same bytes have read the same text. *)
LEMMA ReadAlike ==
    ASSUME NEW m \in Nat, NEW n \in Nat, m <= n, NEW b, NEW c, Alike(b, c, m),
           NEW g, Decodes(g, b, m), NEW h, Decodes(h, c, n)
    PROVE  g[m] = h[m]
<1> DEFINE S == {i \in 0..m : g[i] # h[i]}
<1>1. SUFFICES S = {}
  <2>1. m \in 0..m
    OBVIOUS
  <2> QED
    BY <2>1
<1>2. SUFFICES ASSUME S # {}
               PROVE  FALSE
  OBVIOUS
<1>3. PICK i \in S : \A j \in S : i <= j
  <2>1. S \in SUBSET Nat
    OBVIOUS
  <2> HIDE DEF S
  <2> QED
    BY <1>2, <2>1, LeastExists
<1>4. g[0] = <<>> /\ \A j \in 1..m : g[j] = Decode(g[j - 1], b, j)
  BY DecoderSteps, ZenonT(30)
<1>5. h[0] = <<>> /\ \A j \in 1..n : h[j] = Decode(h[j - 1], c, j)
  BY DecoderSteps, ZenonT(30)
<1>6. i \in 1..m /\ i \in 1..n /\ g[i] # h[i]
  BY <1>3, <1>4, <1>5
<1>7. g[i - 1] = h[i - 1]
  <2>1. i - 1 \in 0..m /\ i - 1 < i
    BY <1>6
  <2> QED
    BY <1>3, <2>1
<1>8. /\ b[i] = c[i] /\ (i > 1 => b[i - 1] = c[i - 1])
      /\ m > 0 => b[1] < 128 \/ b[1] >= 192
  BY <1>6 DEF Alike
<1>9. Decode(g[i - 1], b, i) = Decode(h[i - 1], c, i)
  <2>1. CASE i = 1
    BY <1>6, <1>7, <1>8, <2>1 DEF Decode
  <2>2. CASE i > 1
    BY <1>7, <1>8, <2>2 DEF Decode
  <2> QED
    BY <1>6, <2>1, <2>2
<1> QED
  BY <1>4, <1>5, <1>6, <1>9

(* The bytes that begin a character of two, and those that end one. *)
LEMMA ByteRanges == /\ \A x \in 192..223 : ~ (x < 128) /\ x >= 192
                    /\ \A x \in 128..191 : ~ (x < 128) /\ ~ (x >= 192)
  OBVIOUS

(* The bytes of one character. *)
LEMMA Utf8Facts ==
    ASSUME NEW c \in Char
    PROVE  /\ Utf8(c) \in Seq(Byte)
           /\ c < 128 => Utf8(c) = <<c>> /\ Len(Utf8(c)) = 1 /\ Utf8(c)[1] = c
           /\ c >= 128 => /\ Len(Utf8(c)) = 2
                          /\ Utf8(c)[1] \in 192..223 /\ Utf8(c)[2] \in 128..191
                          /\ (Utf8(c)[1] - 192) * 64 + Utf8(c)[2] - 128 = c
<1> c \in 0..2047
  BY DEF Char
<1>1. CASE c < 128
  <2>1. c \in Byte
    BY <1>1 DEF Byte
  <2> QED
    BY <1>1, <2>1 DEF Utf8
<1>2. CASE c >= 128
  <2>1. c \div 64 \in 0..31 /\ c % 64 \in 0..63 /\ c = 64 * (c \div 64) + (c % 64)
    BY <1>2
  <2> DEFINE x == 192 + (c \div 64)
             y == 128 + (c % 64)
  <2>2. x \in 192..223 /\ y \in 128..191 /\ (x - 192) * 64 + y - 128 = c
    BY <2>1
  <2>3. Utf8(c) = <<x, y>>
    BY <1>2 DEF Utf8
  <2> HIDE DEF x, y
  <2>4. Len(<<x, y>>) = 2 /\ <<x, y>>[1] = x /\ <<x, y>>[2] = y /\ <<x, y>> \in Seq(Byte)
    BY <2>2 DEF Byte
  <2> QED
    BY <1>2, <2>2, <2>3, <2>4
<1> QED
  BY <1>1, <1>2

(* Bytes are numbers. *)
LEMMA BytesAreInts == \A s \in Seq(Byte) : s \in Seq(Int) /\ Len(s) \in Nat
<1>1. Byte \subseteq Int
  BY DEF Byte
<1> TAKE s \in Seq(Byte)
<1>2. Len(s) \in Nat
  OBVIOUS
<1>3. \A i \in 1..Len(s) : s[i] \in Byte
  BY ElementOfSeq
<1>4. \A i \in 1..Len(s) : s[i] \in Int
  BY <1>1, <1>3
<1> QED
  BY <1>2, <1>4

(* Another character behind a text. *)
LEMMA DecodeMore ==
    ASSUME NEW b \in Seq(Byte), Begins(b), NEW c \in Char
    PROVE  LET d == b \o Utf8(c)
           IN  /\ d \in Seq(Byte) /\ Begins(d) /\ Len(d) <= Len(b) + 2
               /\ FromUTF8ByteArray(d) = Append(FromUTF8ByteArray(b), c)
<1> DEFINE u == Utf8(c)
           d == b \o u
           n == Len(b)
           k == Len(u)
<1>1. /\ u \in Seq(Byte)
      /\ c < 128 => k = 1 /\ u[1] = c
      /\ c >= 128 => /\ k = 2 /\ u[1] \in 192..223 /\ u[2] \in 128..191
                     /\ (u[1] - 192) * 64 + u[2] - 128 = c
      /\ c < 128 \/ c >= 128
  <2>1. c < 128 \/ c >= 128
    BY DEF Char
  <2> QED
    BY <2>1, Utf8Facts
<1> HIDE DEF u
<1>2. /\ d \in Seq(Byte) /\ Len(d) = n + k
      /\ \A i \in 1..(n + k) : d[i] = IF i <= n THEN b[i] ELSE u[i - n]
  BY <1>1, ConcatProperties
<1>3. n \in Nat /\ (k = 1 \/ k = 2)
  BY <1>1
<1> HIDE DEF d
<1>4. /\ \A i \in 1..n : d[i] = b[i]
      /\ d[n + 1] = u[1] /\ (k = 2 => d[n + 2] = u[2])
  <2>1. n + 1 \in 1..(n + k) /\ ~ (n + 1 <= n) /\ n + 1 - n = 1
    BY <1>3
  <2>2. k = 2 => n + 2 \in 1..(n + k) /\ ~ (n + 2 <= n) /\ n + 2 - n = 2
    BY <1>3
  <2>3. \A i \in 1..n : i \in 1..(n + k) /\ i <= n
    BY <1>3
  <2> DEFINE p == n + 1
             q == n + 2
             l == n + k
  <2>4. p \in 1..l /\ ~ (p <= n) /\ p - n = 1
    BY <2>1
  <2>5. k = 2 => q \in 1..l /\ ~ (q <= n) /\ q - n = 2
    BY <2>2
  <2>6. \A i \in 1..l : d[i] = IF i <= n THEN b[i] ELSE u[i - n]
    BY <1>2
  <2>7. \A i \in 1..n : i \in 1..l /\ i <= n
    BY <2>3
  <2> HIDE DEF n, k, p, q, l
  <2>8. d[p] = u[1] /\ (k = 2 => d[q] = u[2])
    BY <2>4, <2>5, <2>6
  <2>9. \A i \in 1..n : d[i] = b[i]
    BY <2>6, <2>7
  <2> QED
    BY <2>8, <2>9 DEF p, q
<1> HIDE DEF k
<1>5. Begins(d)
  <2>1. CASE n = 0
    <3>1. u[1] < 128 \/ u[1] >= 192
      <4>1. CASE c < 128
        BY <1>1, <4>1
      <4>2. CASE c >= 128
        <5>1. u[1] \in 192..223
          BY <1>1, <4>2
        <5> QED
          BY <5>1, ByteRanges, Zenon
      <4> QED
        BY <1>1, <4>1, <4>2
    <3>2. n + 1 = 1
      BY <2>1
    <3> HIDE DEF n
    <3>3. d[1] = u[1]
      BY <1>4, <3>2
    <3> QED
      BY <3>1, <3>3 DEF Begins
  <2>2. CASE n > 0
    <3>1. 1 \in 1..n
      BY <1>3, <2>2
    <3>2. b[1] < 128 \/ b[1] >= 192
      BY <2>2 DEF Begins
    <3> QED
      BY <1>4, <3>1, <3>2 DEF Begins
  <2> QED
    BY <1>3, <2>1, <2>2
<1>6. PICK g : Decodes(g, b, n) /\ FromUTF8ByteArray(b) = g[n]
  BY <1>3, DecodedBy
<1>7. PICK h : Decodes(h, d, n + k) /\ FromUTF8ByteArray(d) = h[n + k]
  <2>1. Len(d) \in Nat
    BY <1>2, <1>3
  <2>2. \E h : Decodes(h, d, Len(d)) /\ FromUTF8ByteArray(d) = h[Len(d)]
    BY <2>1, DecodedBy
  <2> QED
    BY <1>2, <2>2
<1>8. g[n] = h[n]
  <2> DEFINE m == n + k
  <2>1. m \in Nat /\ n <= m
    BY <1>3
  <2>2. \A i \in 1..n : b[i] = d[i]
    BY <1>4
  <2>3. n > 0 => b[1] < 128 \/ b[1] >= 192
    BY DEF Begins
  <2> HIDE DEF n
  <2>5. Alike(b, d, n)
    BY <2>2, <2>3 DEF Alike
  <2>4. Decodes(h, d, m) /\ Decodes(g, b, n)
    BY <1>6, <1>7
  <2> HIDE DEF m, n
  <2> QED
    BY <1>3, <2>1, <2>4, <2>5, ReadAlike
<1>9. \A i \in 1..(n + k) : h[i] = Decode(h[i - 1], d, i)
  <2> DEFINE m == n + k
  <2>1. m \in Nat
    BY <1>3
  <2>2. Decodes(h, d, m)
    BY <1>7
  <2> HIDE DEF m
  <2>3. \A i \in 1..m : h[i] = Decode(h[i - 1], d, i)
    BY <2>1, <2>2, DecoderSteps
  <2> QED
    BY <2>3 DEF m
<1>10. h[n + 1] = Decode(h[n], d, n + 1) /\ (k = 2 => h[n + 2] = Decode(h[n + 1], d, n + 2))
  <2>1. n + 1 \in 1..(n + k) /\ n + 1 - 1 = n /\ (k = 2 => n + 2 \in 1..(n + k) /\ n + 2 - 1 = n + 1)
    BY <1>3
  <2> DEFINE p == n + 1
             q == n + 2
             l == n + k
  <2>2. p \in 1..l /\ p - 1 = n /\ (k = 2 => q \in 1..l /\ q - 1 = p)
    BY <2>1
  <2>3. \A i \in 1..l : h[i] = Decode(h[i - 1], d, i)
    BY <1>9
  <2> HIDE DEF n, p, q, l
  <2>4. h[p] = Decode(h[n], d, p) /\ (k = 2 => h[q] = Decode(h[p], d, q))
    BY <2>2, <2>3
  <2> QED
    BY <2>4 DEF p, q
<1> HIDE DEF n
<1>11. h[n + k] = Append(h[n], c)
  <2>1. CASE c < 128
    <3>1. k = 1 /\ d[n + 1] = c
      BY <1>1, <1>4, <2>1
    <3>2. Decode(h[n], d, n + 1) = Append(h[n], c)
      BY <2>1, <3>1 DEF Decode
    <3> QED
      BY <1>10, <3>1, <3>2
  <2>2. CASE c >= 128
    <3>1. k = 2 /\ d[n + 1] = u[1] /\ d[n + 2] = u[2]
      BY <1>1, <1>4, <2>2
    <3>2. d[n + 1] \in 192..223 /\ d[n + 2] \in 128..191 /\ (d[n + 1] - 192) * 64 + d[n + 2] - 128 = c
      BY <1>1, <2>2, <3>1
    <3>3. Decode(h[n], d, n + 1) = h[n]
      <4>0. d[n + 1] \in 192..223
        BY <3>2
      <4>1. ~ (d[n + 1] < 128) /\ d[n + 1] >= 192
        BY <4>0, ByteRanges, Zenon
      <4> QED
        BY <4>1, Zenon DEF Decode
    <3>4. (n + 2) - 1 = n + 1
      BY <1>3
    <3>5. Decode(h[n + 1], d, n + 2) = Append(h[n + 1], c)
      <4>0. d[n + 2] \in 128..191
        BY <3>2
      <4>1. ~ (d[n + 2] < 128) /\ ~ (d[n + 2] >= 192)
        BY <4>0, ByteRanges, Zenon
      <4>2. (d[(n + 2) - 1] - 192) * 64 + d[n + 2] - 128 = c
        BY <3>2, <3>4, Zenon
      <4> QED
        BY <4>1, <4>2, Zenon DEF Decode
    <3>6. n + k = n + 2
      BY <3>1
    <3> QED
      BY <1>10, <3>1, <3>3, <3>5, <3>6
  <2> QED
    BY <1>1, <2>1, <2>2
<1>12. FromUTF8ByteArray(d) = Append(FromUTF8ByteArray(b), c)
  BY <1>6, <1>7, <1>8, <1>11
<1>13. Len(d) <= n + 2
  BY <1>2, <1>3
<1> QED
  BY <1>2, <1>5, <1>12, <1>13 DEF d, u, n

(* A text of characters below 2048 is the same when its bytes are read, and has at
   most two of them for each character. *)
LEMMA TextSurvives ==
    ASSUME NEW text \in Seq(Char)
    PROVE  /\ ToUTF8ByteArray(text) \in Seq(Byte)
           /\ Len(ToUTF8ByteArray(text)) <= 2 * Len(text)
           /\ FromUTF8ByteArray(ToUTF8ByteArray(text)) = text
<1> DEFINE n == Len(text)
           seqs == [i \in DOMAIN text |-> Utf8(text[i])]
<1>1. /\ n \in Nat /\ DOMAIN text = 1..n /\ \A i \in 1..n : text[i] \in Char
      /\ DOMAIN seqs = 1..n /\ \A i \in 1..n : seqs[i] = Utf8(text[i])
  OBVIOUS
<1>2. seqs \in Seq(Seq(Byte)) /\ Len(seqs) = n
  <2>1. \A i \in 1..n : Utf8(text[i]) \in Seq(Byte)
    BY <1>1, Utf8Facts
  <2> QED
    BY <1>1, <2>1
<1>3. ToUTF8ByteArray(text) = FlattenSeq(seqs)
  BY DEF ToUTF8ByteArray
<1>4. FromUTF8ByteArray(<<>>) = <<>>
  <2>1. Len(<<>>) = 0 /\ Len(<<>>) \in Nat
    OBVIOUS
  <2>2. PICK g : Decodes(g, <<>>, Len(<<>>)) /\ FromUTF8ByteArray(<<>>) = g[Len(<<>>)]
    BY <2>1, DecodedBy
  <2>3. Decodes(g, <<>>, 0) /\ FromUTF8ByteArray(<<>>) = g[0]
    BY <2>1, <2>2
  <2>4. g[0] = <<>>
    BY <2>3, DecoderSteps
  <2> QED
    BY <2>3, <2>4
<1>5. CASE n = 0
  <2>1. text = <<>>
    BY <1>5
  <2>2. FlattenSeq(seqs) = seqs
    BY <1>2, <1>5 DEF FlattenSeq
  <2>3. seqs = <<>>
    BY <1>2, <1>5
  <2>4. ToUTF8ByteArray(text) = <<>>
    BY <1>3, <2>2, <2>3
  <2>5. <<>> \in Seq(Byte) /\ Len(<<>>) = 0
    OBVIOUS
  <2>6. Len(ToUTF8ByteArray(text)) <= 2 * Len(text)
    BY <1>5, <2>4, <2>5
  <2> QED
    BY <1>4, <2>1, <2>4, <2>5, <2>6, Zenon
<1>6. CASE n # 0
  <2> DEFINE f == CHOOSE f : f = [i \in 1..Len(seqs) |->
                     IF i = 1 THEN seqs[i] ELSE f[i - 1] \o seqs[i]]
             B(i) == /\ f[i] \in Seq(Byte) /\ Begins(f[i]) /\ Len(f[i]) <= 2 * i
                     /\ FromUTF8ByteArray(f[i]) = SubSeq(text, 1, i)
  <2>1. f = [i \in 1..n |-> IF i = 1 THEN seqs[i] ELSE f[i - 1] \o seqs[i]]
    <3>1. PICK g : Flattens(g, seqs, Len(seqs))
      BY <1>1, <1>2, FlatExists
    <3>2. g = [i \in 1..Len(seqs) |-> IF i = 1 THEN seqs[i] ELSE g[i - 1] \o seqs[i]]
      BY <3>1 DEF Flattens
    <3>3. f = [i \in 1..Len(seqs) |-> IF i = 1 THEN seqs[i] ELSE f[i - 1] \o seqs[i]]
      BY <3>2, Zenon
    <3> HIDE DEF f
    <3> QED
      BY <1>2, <3>3
  <2>2. FlattenSeq(seqs) = f[n]
    <3>1. Len(seqs) # 0
      BY <1>2, <1>6
    <3>2. FlattenSeq(seqs) = f[Len(seqs)]
      BY <3>1, Zenon DEF FlattenSeq
    <3> HIDE DEF f
    <3> QED
      BY <1>2, <3>2
  <2> HIDE DEF f
  <2>3. \A i \in 1..n : f[i] = IF i = 1 THEN seqs[i] ELSE f[i - 1] \o seqs[i]
    BY <2>1
  <2> HIDE DEF seqs
  <2> DEFINE Bad == {i \in 1..n : ~ B(i)}
  <2>4. Bad = {}
    <3> SUFFICES ASSUME Bad # {}
                 PROVE  FALSE
      OBVIOUS
    <3>1. PICK i \in Bad : \A j \in Bad : i <= j
      <4>1. Bad \in SUBSET Nat
        BY <1>1
      <4> HIDE DEF Bad
      <4> QED
        BY <4>1, LeastExists
    <3>2. i \in 1..n /\ ~ B(i)
      BY <3>1
    <3> DEFINE b == IF i = 1 THEN <<>> ELSE f[i - 1]
               c == text[i]
    <3>3. /\ b \in Seq(Byte) /\ Begins(b) /\ Len(b) <= 2 * (i - 1)
          /\ FromUTF8ByteArray(b) = SubSeq(text, 1, i - 1)
      <4>1. CASE i = 1
        <5>1. b = <<>> /\ <<>> \in Seq(Byte) /\ Len(<<>>) = 0
          BY <4>1
        <5>2. SubSeq(text, 1, 0) = <<>>
          BY SubSeqEmpty
        <5>3. Begins(<<>>)
          BY DEF Begins
        <5>4. i - 1 = 0 /\ Len(<<>>) <= 2 * (i - 1)
          BY <4>1, <5>1
        <5> HIDE DEF b
        <5> QED
          BY <1>4, <5>1, <5>2, <5>3, <5>4
      <4>2. CASE i # 1
        <5>1. i - 1 \in 1..n /\ i - 1 \notin Bad
          <6>1. i - 1 \in 1..n /\ ~ (i <= i - 1)
            BY <1>1, <3>2, <4>2
          <6> HIDE DEF Bad
          <6> QED
            BY <3>1, <6>1
        <5>2. B(i - 1)
          BY <5>1
        <5> QED
          BY <4>2, <5>2
      <4> QED
        BY <4>1, <4>2
    <3>4. c \in Char /\ seqs[i] = Utf8(c) /\ Utf8(c) \in Seq(Byte)
      <4>1. c \in Char /\ seqs[i] = Utf8(c)
        BY <1>1, <3>2
      <4> QED
        BY <4>1, Utf8Facts
    <3>5. f[i] = b \o Utf8(c)
      <4>1. CASE i = 1
        <5>1. <<>> \o Utf8(c) = Utf8(c)
          BY <3>4, ConcatEmptySeq
        <5> QED
          BY <2>3, <3>2, <3>4, <4>1, <5>1
      <4>2. CASE i # 1
        BY <2>3, <3>2, <3>4, <4>2
      <4> QED
        BY <4>1, <4>2
    <3>6. SubSeq(text, 1, i) = Append(SubSeq(text, 1, i - 1), c)
      <4>1. SubSeq(text, 1, i) = SubSeq(text, 1, i - 1) \o <<text[i]>>
        BY <1>1, <3>2, SubSeqRecursiveSecond
      <4>2. SubSeq(text, 1, i - 1) \in Seq(Char)
        BY <1>1, <3>2
      <4> QED
        BY <3>4, <4>1, <4>2, AppendIsConcat
    <3> HIDE DEF b, c, B
    <3>7. /\ f[i] \in Seq(Byte) /\ Begins(f[i]) /\ Len(f[i]) <= Len(b) + 2
          /\ FromUTF8ByteArray(f[i]) = Append(FromUTF8ByteArray(b), c)
      BY <3>3, <3>4, <3>5, DecodeMore
    <3>8. Len(f[i]) <= 2 * i
      <4>1. Len(f[i]) \in Nat /\ Len(b) \in Nat /\ i \in Nat
        BY <1>1, <3>2, <3>3, <3>7
      <4> QED
        BY <3>3, <3>7, <4>1
    <3>9. B(i)
      BY <3>3, <3>6, <3>7, <3>8 DEF B
    <3> QED
      BY <3>2, <3>9
  <2>5. B(n)
    <3>1. n \in 1..n
      BY <1>1, <1>6
    <3> HIDE DEF B
    <3> QED
      BY <2>4, <3>1
  <2>6. SubSeq(text, 1, n) = text
    BY SubSeqFull
  <2> QED
    BY <1>3, <2>2, <2>5, <2>6
<1> QED
  BY <1>5, <1>6

-----------------------------------------------------------------------------
(* A frame is the same when it is read from its bytes. *)

\* The lengths that four bytes can say, the first of which carries the sign.
Lengths == {n \in Nat : n < 128 * 256 * 256 * 256}

(* Short texts have such a length. *)
LEMMA ShortLengths == 0 \in Lengths /\ 1 \in Lengths /\ \A m, n \in Nat : m <= n /\ n \in Lengths => m \in Lengths
  BY DEF Lengths

(* Division by 256. *)
LEMMA Quotient ==
    ASSUME NEW a \in Nat, NEW n \in Nat, a < n * 256
    PROVE  a \div 256 \in Nat /\ a \div 256 < n /\ a = (a \div 256) * 256 + (a % 256)
<1>1. a \div 256 \in Nat /\ a % 256 \in 0..255 /\ a = (a \div 256) * 256 + (a % 256)
  OBVIOUS
<1> DEFINE q == a \div 256
           r == a % 256
<1> HIDE DEF q, r
<1>2. q \in Nat /\ r \in Nat /\ a = q * 256 + r
  BY <1>1 DEF q, r
<1>3. q < n
  BY <1>2
<1> QED
  BY <1>1, <1>2, <1>3 DEF q, r

(* A length is read as it is written. *)
LEMMA ReadBack == ASSUME NEW a \in Lengths
  PROVE /\ WriteInt(a) \in Seq(Int) /\ Len(WriteInt(a)) = 4
        /\ ReadInt(WriteInt(a)) = a
<1>1. WriteInt(a) \in Seq(Int) /\ Len(WriteInt(a)) = 4
  <2>1. a \in Nat
    BY DEF Lengths
  <2> QED
    BY <2>1 DEF WriteInt
<1> DEFINE h == a \div 256
           i == h \div 256
           j == i \div 256
<1>2. a \in Nat /\ a < 8388608 * 256
  BY DEF Lengths
<1>3. h \in Nat /\ h < 8388608 /\ a = h * 256 + (a % 256)
  BY <1>2, Quotient
<1> HIDE DEF h
<1>4. i \in Nat /\ i < 32768 /\ h = i * 256 + (h % 256)
  <2>1. h < 32768 * 256
    BY <1>3
  <2> QED
    BY <1>3, <2>1, Quotient
<1> HIDE DEF i
<1>5. j \in Nat /\ j < 128 /\ i = j * 256 + (i % 256)
  <2>1. i < 128 * 256
    BY <1>4
  <2> QED
    BY <1>4, <2>1, Quotient
<1> HIDE DEF j
<1>6. j % 256 = j
  BY <1>5
<1>7. WriteInt(a) = <<j % 256, i % 256, h % 256, a % 256>>
  BY DEF WriteInt, h, i, j
<1>8. ReadInt(WriteInt(a)) = (((j % 256) * 256 + (i % 256)) * 256 + (h % 256)) * 256 + (a % 256)
  BY <1>7 DEF ReadInt
<1> QED
  BY <1>1, <1>3, <1>4, <1>5, <1>6, <1>8

(* Concatenations, of numbers. *)
LEMMA IntConcat ==
    \A s, t \in Seq(Int) :
        /\ s \o t \in Seq(Int) /\ Len(s \o t) = Len(s) + Len(t)
        /\ \A i \in 1..(Len(s) + Len(t)) :
              (s \o t)[i] = IF i <= Len(s) THEN s[i] ELSE t[i - Len(s)]
  BY ConcatProperties

(* They are associative. *)
LEMMA IntAssociative == \A s, t, u \in Seq(Int) : (s \o t) \o u = s \o (t \o u)
<1> TAKE s, t, u \in Seq(Int)
<1> DEFINE S == Int
<1>1. s \in Seq(S) /\ t \in Seq(S) /\ u \in Seq(S)
  OBVIOUS
<1> HIDE DEF S
<1> QED
  BY <1>1, ConcatAssociative, SMTT(20)

(* A part of a buffer is where it was written. *)
LEMMA PartIsThere ==
    ASSUME NEW p \in Seq(Int), NEW x \in Seq(Int), NEW q \in Seq(Int)
    PROVE  Subarray((p \o x) \o q, Len(p) + 1, Len(x)) = x
<1> DEFINE y == p \o x
           buf == y \o q
           part == SubSeq(buf, Len(p) + 1, Len(p) + Len(x))
<1>1. Len(p) \in Nat /\ Len(x) \in Nat /\ Len(q) \in Nat
  OBVIOUS
<1>2. /\ y \in Seq(Int) /\ Len(y) = Len(p) + Len(x)
      /\ \A i \in 1..(Len(p) + Len(x)) : y[i] = IF i <= Len(p) THEN p[i] ELSE x[i - Len(p)]
  BY IntConcat
<1> HIDE DEF y
<1>3. /\ buf \in Seq(Int) /\ Len(buf) = Len(y) + Len(q)
      /\ \A i \in 1..(Len(y) + Len(q)) : buf[i] = IF i <= Len(y) THEN y[i] ELSE q[i - Len(y)]
  BY <1>2, IntConcat
<1> HIDE DEF buf
<1>4. Subarray(buf, Len(p) + 1, Len(x)) = part
  <2>1. Len(buf) = Len(p) + Len(x) + Len(q)
    BY <1>2, <1>3
  <2> DEFINE last == IF Len(p) + 1 + Len(x) - 1 < Len(buf) THEN Len(p) + 1 + Len(x) - 1 ELSE Len(buf)
  <2>2. last = Len(p) + Len(x)
    <3> DEFINE lp == Len(p)
               lx == Len(x)
               lq == Len(q)
               lb == Len(buf)
    <3>1. lp \in Nat /\ lx \in Nat /\ lq \in Nat /\ lb = lp + lx + lq
      BY <1>1, <2>1
    <3> HIDE DEF lp, lx, lq, lb
    <3>2. (IF lp + 1 + lx - 1 < lb THEN lp + 1 + lx - 1 ELSE lb) = lp + lx
      BY <3>1
    <3> QED
      BY <3>2, Zenon DEF lp, lx, lb
  <2>3. Subarray(buf, Len(p) + 1, Len(x)) = SubSeq(buf, Len(p) + 1, last)
    BY DEF Subarray
  <2> HIDE DEF last
  <2> QED
    BY <2>2, <2>3
<1>5. \A i \in (Len(p) + 1)..(Len(p) + Len(x)) : buf[i] \in Int
  BY <1>1, <1>2, <1>3
<1>6. /\ part \in Seq(Int) /\ Len(part) = Len(x)
      /\ \A i \in 1..Len(x) : part[i] = buf[Len(p) + i]
  <2> DEFINE m == Len(p) + 1
             n == Len(p) + Len(x)
  <2>1. m \in Int /\ n \in Int /\ \A i \in m..n : buf[i] \in Int
    BY <1>1, <1>5
  <2>2. n - m + 1 = Len(x) /\ (m <= n \/ Len(x) = 0) /\ \A i \in 1..Len(x) : m + i - 1 = Len(p) + i
    BY <1>1
  <2> HIDE DEF m, n
  <2>3. /\ SubSeq(buf, m, n) \in Seq(Int)
        /\ Len(SubSeq(buf, m, n)) = IF m <= n THEN n - m + 1 ELSE 0
        /\ \A i \in 1..(n - m + 1) : SubSeq(buf, m, n)[i] = buf[m + i - 1]
    BY <2>1, SubSeqProperties
  <2>4. part = SubSeq(buf, m, n)
    BY DEF m, n
  <2> HIDE DEF part
  <2> QED
    BY <1>1, <2>1, <2>2, <2>3, <2>4
<1> HIDE DEF part
<1>7. \A i \in 1..Len(x) : part[i] = x[i]
  <2> TAKE i \in 1..Len(x)
  <2> DEFINE k == Len(p) + i
  <2>1. k \in 1..(Len(p) + Len(x)) /\ k \in 1..(Len(y) + Len(q)) /\ k <= Len(y) /\ ~ (k <= Len(p))
        /\ k - Len(p) = i
    BY <1>1, <1>2
  <2>2. part[i] = buf[k]
    BY <1>6
  <2> HIDE DEF k
  <2>3. buf[k] = y[k] /\ y[k] = x[i]
    BY <1>2, <1>3, <2>1
  <2> QED
    BY <2>2, <2>3
<1>8. part = x
  BY <1>6, <1>7, SeqEqual
<1> QED
  BY <1>4, <1>8 DEF buf, y

(* The same, for the provers to take \o as any operator. *)
Cat(s, t) == s \o t

(* So is the renamed one. *)
LEMMA CatAssociative == \A s, t, u \in Seq(Int) : Cat(Cat(s, t), u) = Cat(s, Cat(t, u))
  BY IntAssociative DEF Cat

(* What it returns. *)
LEMMA CatIsSeq ==
    /\ \A s, t \in Seq(Int) : Cat(s, t) \in Seq(Int) /\ Len(Cat(s, t)) = Len(s) + Len(t)
    /\ \A s \in Seq(Int) : Cat(s, <<>>) = s
<1>1. \A s, t \in Seq(Int) : Cat(s, t) \in Seq(Int) /\ Len(Cat(s, t)) = Len(s) + Len(t)
  BY IntConcat DEF Cat
<1>2. \A s \in Seq(Int) : Cat(s, <<>>) = s
  BY ConcatEmptySeq DEF Cat
<1> QED
  BY <1>1, <1>2

(* The field x of a buffer, behind p and before q. *)
HasField(buf, p, x, q) ==
    /\ p \in Seq(Int) /\ x \in Seq(Int) /\ q \in Seq(Int) /\ Len(x) \in Lengths
    /\ buf = Cat(Cat(p, WithLength(x)), q)

(* It is read as it was written, and the next one begins behind it. *)
LEMMA FieldIsThere ==
    ASSUME NEW p, NEW x, NEW q, NEW buf, HasField(buf, p, x, q)
    PROVE  /\ FieldAt(buf, Len(p) + 1) = x
           /\ Behind(buf, Len(p) + 1) = Len(Cat(p, WithLength(x))) + 1
<1> DEFINE w == WriteInt(Len(x))
           f == WithLength(x)
           pw == Cat(p, w)
           pf == Cat(p, f)
           xq == Cat(x, q)
<1> p \in Seq(Int) /\ x \in Seq(Int) /\ q \in Seq(Int) /\ Len(x) \in Lengths
    /\ buf = Cat(Cat(p, WithLength(x)), q)
  BY DEF HasField
<1>1. w \in Seq(Int) /\ Len(w) = 4 /\ ReadInt(w) = Len(x)
  BY ReadBack
<1>2. f = Cat(w, x)
  BY DEF WithLength, Cat
<1> HIDE DEF w, f
<1>3. /\ f \in Seq(Int) /\ pw \in Seq(Int) /\ pf \in Seq(Int) /\ xq \in Seq(Int)
      /\ Len(f) = Len(w) + Len(x) /\ Len(pw) = Len(p) + Len(w) /\ Len(pf) = Len(p) + Len(f)
  BY <1>1, <1>2, CatIsSeq
<1>4. Len(pw) = Len(p) + 4 /\ Len(pf) = Len(p) + 4 + Len(x)
  <2> HIDE DEF pw, pf
  <2>1. Len(p) \in Nat /\ Len(x) \in Nat
    OBVIOUS
  <2> QED
    BY <1>1, <1>3, <2>1
<1>5. pf = Cat(pw, x)
  BY <1>1, <1>2, CatAssociative
<1>6. buf = Cat(Cat(pw, x), q)
  BY <1>5, Zenon DEF f
<1>7. buf = Cat(pw, xq)
  BY <1>3, <1>6, CatAssociative
<1>8. Subarray((p \o w) \o xq, Len(p) + 1, Len(w)) = w
  BY <1>1, <1>3, PartIsThere, Zenon
<1>9. Subarray(buf, Len(p) + 1, Len(w)) = w
  BY <1>7, <1>8, Zenon DEF Cat
<1>10. Subarray((pw \o x) \o q, Len(pw) + 1, Len(x)) = x
  BY <1>3, PartIsThere, Zenon
<1>11. Subarray(buf, Len(pw) + 1, Len(x)) = x
  <2>1. buf = (pw \o x) \o q
    BY <1>6, Zenon DEF Cat
  <2> QED
    BY <1>10, <2>1, Zenon
<1> HIDE DEF pw, pf, xq
<1>12. LengthAt(buf, Len(p) + 1) = Len(x)
  BY <1>1, <1>9 DEF LengthAt
<1>13. Len(p) + 1 + 4 = Len(pw) + 1
  BY <1>4
<1>14. FieldAt(buf, Len(p) + 1) = Subarray(buf, Len(p) + 1 + 4, Len(x))
  BY <1>12 DEF FieldAt
<1>15. FieldAt(buf, Len(p) + 1) = x
  BY <1>11, <1>13, <1>14
<1>16. Behind(buf, Len(p) + 1) = Len(p) + 1 + 4 + Len(x)
  BY <1>12 DEF Behind
<1>17. Behind(buf, Len(p) + 1) = Len(pf) + 1
  <2>1. Len(p) \in Nat /\ Len(x) \in Nat
    OBVIOUS
  <2> QED
    BY <1>4, <1>16, <2>1
<1> QED
  BY <1>15, <1>17 DEF pf, f

(* The parts of a frame in a row, whichever of them one looks at. *)
InParts(w, o, a, b, c, d) ==
    LET h == Cat(w, o)
        ha == Cat(h, a)
        hab == Cat(ha, b)
        habc == Cat(hab, c)
        cd == Cat(c, d)
        bcd == Cat(Cat(b, c), d)
        buf == Cat(w, Cat(Cat(Cat(Cat(o, a), b), c), d))
    IN  /\ h \in Seq(Int) /\ ha \in Seq(Int) /\ hab \in Seq(Int) /\ habc \in Seq(Int)
        /\ cd \in Seq(Int) /\ bcd \in Seq(Int)
        /\ buf = Cat(ha, bcd)
        /\ buf = Cat(hab, cd)
        /\ buf = Cat(habc, d)
        /\ buf = Cat(Cat(habc, d), <<>>)

(* Every part has its own view of the frame. *)
LEMMA FrameInParts ==
    ASSUME NEW w \in Seq(Int), NEW o \in Seq(Int), NEW a \in Seq(Int), NEW b \in Seq(Int),
           NEW c \in Seq(Int), NEW d \in Seq(Int)
    PROVE  InParts(w, o, a, b, c, d)
<1> DEFINE oa == Cat(o, a)
           oab == Cat(oa, b)
           oabc == Cat(oab, c)
           h == Cat(w, o)
           ha == Cat(h, a)
           hab == Cat(ha, b)
           habc == Cat(hab, c)
           cd == Cat(c, d)
           bcd == Cat(Cat(b, c), d)
           buf == Cat(w, Cat(oabc, d))
<1>1. oa \in Seq(Int) /\ oab \in Seq(Int) /\ oabc \in Seq(Int)
  BY CatIsSeq
<1>2. /\ h \in Seq(Int) /\ ha \in Seq(Int) /\ hab \in Seq(Int) /\ habc \in Seq(Int)
      /\ cd \in Seq(Int) /\ Cat(b, c) \in Seq(Int) /\ bcd \in Seq(Int)
  BY CatIsSeq
<1>3. ha = Cat(w, oa)
  BY CatAssociative
<1>4. hab = Cat(w, oab)
  <2> HIDE DEF oa
  <2> QED
    BY <1>1, <1>3, CatAssociative
<1>5. habc = Cat(w, oabc)
  <2> HIDE DEF oab
  <2> QED
    BY <1>1, <1>4, CatAssociative
<1>6. buf = Cat(habc, d)
  <2> HIDE DEF oabc
  <2> QED
    BY <1>1, <1>5, CatAssociative
<1>7. Cat(habc, d) = Cat(hab, cd)
  <2> HIDE DEF hab
  <2> QED
    BY <1>2, CatAssociative
<1>8. bcd = Cat(b, cd)
  BY CatAssociative
<1>9. Cat(hab, cd) = Cat(ha, bcd)
  <2> HIDE DEF ha, cd
  <2> QED
    BY <1>2, <1>8, CatAssociative
<1>10. buf = Cat(Cat(habc, d), <<>>)
  <2>1. Cat(habc, d) \in Seq(Int)
    BY <1>2, CatIsSeq
  <2> QED
    BY <2>1, <1>6, CatIsSeq
<1> QED
  BY <1>2, <1>6, <1>7, <1>9, <1>10, Zenon DEF InParts

(* Every frame of the bus, whatever name and payload it carries whose lengths four
   bytes can say (below 2^31, as the shifts are of signed numbers), is the same when it is read from its bytes (tmb.js, serialize and deserialize). *)
THEOREM FrameSurvives ==
    ASSUME NEW op \in Int, NEW to \in Seq(Char), 2 * Len(to) \in Lengths,
           NEW payload \in Seq(Int), Len(payload) \in Lengths
    PROVE  Deserialize(Serialize(Message(op, to, <<>>, payload))) = Message(op, to, <<>>, payload)
<1> DEFINE m == Message(op, to, <<>>, payload)
           x == ToUTF8ByteArray(to)
           e == ToUTF8ByteArray(<<>>)
           a == WithLength(x)
           b == WithLength(e)
           d == WithLength(payload)
           o == <<op>>
           body == (((o \o a) \o b) \o b) \o d
           w == WriteInt(4 + Len(body))
           h == Cat(w, o)
           ha == Cat(h, a)
           hab == Cat(ha, b)
           habc == Cat(hab, b)
           cd == Cat(b, d)
           bcd == Cat(Cat(b, b), d)
           buf == Cat(w, Cat(Cat(Cat(Cat(o, a), b), b), d))
<1>1. /\ x \in Seq(Int) /\ Len(x) \in Lengths /\ FromUTF8ByteArray(x) = to
      /\ e \in Seq(Int) /\ Len(e) \in Lengths /\ FromUTF8ByteArray(e) = <<>>
  <2>1. x \in Seq(Byte) /\ Len(x) <= 2 * Len(to) /\ FromUTF8ByteArray(x) = to
    BY TextSurvives
  <2>2. <<>> \in Seq(Char) /\ Len(<<>>) = 0
    OBVIOUS
  <2>3. e \in Seq(Byte) /\ Len(e) <= 2 * Len(<<>>) /\ FromUTF8ByteArray(e) = <<>>
    BY <2>2, TextSurvives
  <2> HIDE DEF x, e
  <2>4. \A s \in Seq(Byte) : s \in Seq(Int) /\ Len(s) \in Nat
    BY BytesAreInts
  <2>5. Len(x) \in Nat /\ Len(e) \in Nat /\ Len(to) \in Nat
    BY <2>1, <2>3, <2>4
  <2>6. Len(x) \in Lengths /\ Len(e) \in Lengths
    BY <2>1, <2>2, <2>3, <2>5, ShortLengths
  <2> QED
    BY <2>1, <2>3, <2>4, <2>6
<1> HIDE DEF x, e
<1>2. /\ m.op = op /\ m.to = to /\ m.from = <<>> /\ m.channel = <<>> /\ m.payload = payload
      /\ m = [op |-> op, to |-> to, from |-> <<>>, channel |-> <<>>, payload |-> payload]
  BY DEF Message
<1>3. Serialize(m) = w \o body
  BY <1>2, Zenon DEF Serialize, x, e
<1> HIDE DEF m
<1>4. Serialize(m) = buf
  BY <1>3, Zenon DEF Cat
<1>5. /\ a \in Seq(Int) /\ b \in Seq(Int) /\ d \in Seq(Int) /\ o \in Seq(Int)
      /\ o = <<op>> /\ Len(o) = 1
  <2>1. \A s \in Seq(Int) : Len(s) \in Lengths => WithLength(s) \in Seq(Int)
    <3> TAKE s \in Seq(Int)
    <3> HAVE Len(s) \in Lengths
    <3>1. WriteInt(Len(s)) \in Seq(Int)
      BY ReadBack
    <3> QED
      BY <3>1, IntConcat DEF WithLength
  <2> QED
    BY <1>1, <2>1
<1>6. w \in Seq(Int) /\ Len(w) = 4
  BY DEF WriteInt
<1>7. /\ h \in Seq(Int) /\ ha \in Seq(Int) /\ hab \in Seq(Int) /\ habc \in Seq(Int)
      /\ cd \in Seq(Int) /\ bcd \in Seq(Int)
      /\ buf = Cat(ha, bcd)
      /\ buf = Cat(hab, cd)
      /\ buf = Cat(habc, d)
      /\ buf = Cat(Cat(habc, d), <<>>)
  <2> HIDE DEF w, a, b, d, o
  <2>1. InParts(w, o, a, b, b, d)
    BY <1>5, <1>6, FrameInParts
  <2> QED
    BY <2>1, Zenon DEF InParts
<1>8. Len(h) = 5 /\ h[5] = op
  <2> HIDE DEF w
  <2>1. h = w \o o
    BY DEF Cat
  <2>2. Len(h) = Len(w) + Len(o) /\ h[5] = o[1]
    <3> HIDE DEF h, o
    <3>1. /\ Len(w \o o) = Len(w) + Len(o)
          /\ \A i \in 1..(Len(w) + Len(o)) : (w \o o)[i] = IF i <= Len(w) THEN w[i] ELSE o[i - Len(w)]
      BY <1>5, <1>6, IntConcat
    <3>2. 5 \in 1..(Len(w) + Len(o)) /\ ~ (5 <= Len(w)) /\ 5 - Len(w) = 1
      BY <1>5, <1>6
    <3> QED
      BY <2>1, <3>1, <3>2
  <2> QED
    BY <1>5, <1>6, <2>2
<1>9. buf[5] = op
  <2>1. ha = h \o a /\ buf = ha \o bcd
    BY <1>7, Zenon DEF Cat
  <2> HIDE DEF h, ha, a, bcd, buf
  <2>2. Len(ha) = Len(h) + Len(a) /\ ha[5] = h[5]
    <3>1. /\ Len(h \o a) = Len(h) + Len(a)
          /\ \A i \in 1..(Len(h) + Len(a)) : (h \o a)[i] = IF i <= Len(h) THEN h[i] ELSE a[i - Len(h)]
      BY <1>5, <1>7, IntConcat
    <3>2. 5 \in 1..(Len(h) + Len(a)) /\ 5 <= Len(h)
      BY <1>5, <1>8
    <3> QED
      BY <2>1, <3>1, <3>2
  <2>3. buf[5] = ha[5]
    <3>1. \A i \in 1..(Len(ha) + Len(bcd)) :
             (ha \o bcd)[i] = IF i <= Len(ha) THEN ha[i] ELSE bcd[i - Len(ha)]
      BY <1>7, IntConcat
    <3>2. Len(a) \in Nat /\ Len(bcd) \in Nat
      BY <1>5, <1>7
    <3>3. 5 \in 1..(Len(ha) + Len(bcd)) /\ 5 <= Len(ha)
      BY <1>8, <2>2, <3>2
    <3> QED
      BY <2>1, <3>1, <3>3
  <2> QED
    BY <1>8, <2>2, <2>3
<1> HIDE DEF w, o
<1>10. FieldAt(buf, 6) = x /\ Behind(buf, 6) = Len(ha) + 1
  <2>1. 6 = Len(h) + 1
    BY <1>8
  <2>2. HasField(buf, h, x, bcd)
    BY <1>1, <1>7, Zenon DEF HasField
  <2> HIDE DEF h, bcd, buf
  <2>3. FieldAt(buf, Len(h) + 1) = x /\ Behind(buf, Len(h) + 1) = Len(Cat(h, WithLength(x))) + 1
    BY <2>2, FieldIsThere
  <2> QED
    BY <2>1, <2>3
<1>11. FieldAt(buf, Len(ha) + 1) = e /\ Behind(buf, Len(ha) + 1) = Len(hab) + 1
  <2>1. HasField(buf, ha, e, cd)
    BY <1>1, <1>7, Zenon DEF HasField
  <2> HIDE DEF ha, cd, buf
  <2>2. FieldAt(buf, Len(ha) + 1) = e /\ Behind(buf, Len(ha) + 1) = Len(Cat(ha, WithLength(e))) + 1
    BY <2>1, FieldIsThere
  <2> QED
    BY <2>2
<1>12. FieldAt(buf, Len(hab) + 1) = e /\ Behind(buf, Len(hab) + 1) = Len(habc) + 1
  <2>1. HasField(buf, hab, e, d)
    BY <1>1, <1>5, <1>7, Zenon DEF HasField
  <2> HIDE DEF hab, d, buf
  <2>2. FieldAt(buf, Len(hab) + 1) = e /\ Behind(buf, Len(hab) + 1) = Len(Cat(hab, WithLength(e))) + 1
    BY <2>1, FieldIsThere
  <2> QED
    BY <2>2
<1>13. FieldAt(buf, Len(habc) + 1) = payload
  <2>1. <<>> \in Seq(Int)
    OBVIOUS
  <2>2. HasField(buf, habc, payload, <<>>)
    BY <1>7, <2>1, Zenon DEF HasField
  <2> HIDE DEF habc, buf
  <2> QED
    BY <2>2, FieldIsThere
<1> HIDE DEF buf, h, ha, hab, habc
<1>14. Deserialize(buf) = [op |-> op, to |-> to, from |-> <<>>, channel |-> <<>>, payload |-> payload]
  <2> DEFINE p == Behind(buf, 6)
             q == Behind(buf, p)
             r == Behind(buf, q)
  <2>1. p = Len(ha) + 1 /\ q = Len(hab) + 1 /\ r = Len(habc) + 1
    BY <1>10, <1>11, <1>12
  <2> HIDE DEF p, q, r
  <2>2. /\ FromUTF8ByteArray(FieldAt(buf, 6)) = to /\ FromUTF8ByteArray(FieldAt(buf, p)) = <<>>
        /\ FromUTF8ByteArray(FieldAt(buf, q)) = <<>> /\ FieldAt(buf, r) = payload
    BY <1>1, <1>10, <1>11, <1>12, <1>13, <2>1
  <2>3. Deserialize(buf) = [op |-> buf[5], to |-> FromUTF8ByteArray(FieldAt(buf, 6)),
                            from |-> FromUTF8ByteArray(FieldAt(buf, p)),
                            channel |-> FromUTF8ByteArray(FieldAt(buf, q)),
                            payload |-> FieldAt(buf, r)]
    BY Zenon DEF Deserialize, p, q, r
  <2> QED
    BY <1>9, <2>2, <2>3
<1> QED
  BY <1>2, <1>4, <1>14 DEF m
-----------------------------------------------------------------------------
(* Sequences that are only known to be ones. *)

IsSeq(q) == /\ Len(q) \in Nat /\ DOMAIN q = 1..Len(q)
            /\ q = [i \in 1..Len(q) |-> q[i]]

(* Such a sequence is one of any set that holds its elements. *)
LEMMA SeqOfItsOwn ==
    ASSUME NEW q, IsSeq(q), NEW S, \A i \in 1..Len(q) : q[i] \in S
    PROVE  q \in Seq(S)
<1> DEFINE n == Len(q)
           f == [i \in 1..n |-> q[i]]
<1>1. n \in Nat /\ q = f
  BY DEF IsSeq
<1> HIDE DEF n
<1>2. f \in Seq(S)
  <2>1. \A i \in 1..n : q[i] \in S
    BY DEF n
  <2> QED
    BY <1>1, <2>1
<1> QED
  BY <1>1, <1>2

(* A sequence of any set is one. *)
LEMMA SeqIsOne == ASSUME NEW S, NEW q \in Seq(S) PROVE IsSeq(q)
  BY DEF IsSeq

(* One element more. *)
LEMMA Appended ==
    ASSUME NEW q, IsSeq(q), NEW x
    PROVE  /\ IsSeq(Append(q, x)) /\ Len(Append(q, x)) = Len(q) + 1
           /\ \A i \in 1..Len(q) : Append(q, x)[i] = q[i]
           /\ Append(q, x)[Len(q) + 1] = x
<1> DEFINE S == {q[i] : i \in 1..Len(q)} \cup {x}
<1>1. q \in Seq(S)
  BY SeqOfItsOwn
<1> HIDE DEF S
<1>2. x \in S
  BY DEF S
<1>3. /\ Append(q, x) \in Seq(S) /\ Len(Append(q, x)) = Len(q) + 1
      /\ \A i \in 1..Len(q) : Append(q, x)[i] = q[i]
      /\ Append(q, x)[Len(q) + 1] = x
  BY <1>1, <1>2, AppendProperties
<1> QED
  BY <1>3, SeqIsOne

(* The first element, and the rest. *)
LEMMA Taken ==
    ASSUME NEW q, IsSeq(q), q # <<>>
    PROVE  /\ Len(q) > 0 /\ Head(q) = q[1]
           /\ IsSeq(Tail(q)) /\ Len(Tail(q)) = Len(q) - 1
           /\ \A i \in 1..(Len(q) - 1) : Tail(q)[i] = q[i + 1]
<1> DEFINE S == {q[i] : i \in 1..Len(q)}
<1>1. q \in Seq(S)
  BY SeqOfItsOwn
<1> HIDE DEF S
<1>2. /\ Head(q) = q[1]
      /\ Tail(q) \in Seq(S) /\ Len(Tail(q)) = Len(q) - 1
      /\ \A i \in 1..(Len(q) - 1) : Tail(q)[i] = q[i + 1]
  BY <1>1, HeadTailProperties
<1>3. Len(q) > 0
  BY <1>1, EmptySeq
<1> QED
  BY <1>2, <1>3, SeqIsOne

(* Paths of up to three names. *)
ShortPaths(n, s, u) ==
    /\ Append(<<>>, u) = <<u>> /\ Append(<<s>>, u) = <<s, u>>
    /\ Tail(<<n>> \o <<u>>) = <<u>> /\ Tail(<<n>> \o <<s, u>>) = <<s, u>>

(* The sequence operators on paths. *)
LEMMA Tuples == \A n, s, u : ShortPaths(n, s, u)
<1> TAKE n, s, u
<1> DEFINE S == {n, s, u}
<1>1. n \in S /\ s \in S /\ u \in S
  OBVIOUS
<1> HIDE DEF S
<1>2. /\ <<s>> \in Seq(S) /\ <<n>> \in Seq(S) /\ <<u>> \in Seq(S)
      /\ <<s, u>> \in Seq(S) /\ <<n, u>> \in Seq(S) /\ <<n, s, u>> \in Seq(S)
  BY <1>1
<1>3. Append(<<>>, u) = <<u>>
  OBVIOUS
<1>4. Append(<<s>>, u) = <<s, u>>
  <2>1. /\ Append(<<s>>, u) \in Seq(S) /\ Len(Append(<<s>>, u)) = Len(<<s>>) + 1
        /\ \A i \in 1..Len(<<s>>) : Append(<<s>>, u)[i] = <<s>>[i]
        /\ Append(<<s>>, u)[Len(<<s>>) + 1] = u
    BY <1>1, <1>2, AppendProperties
  <2> DEFINE q == Append(<<s>>, u)
  <2>2. Len(q) = 2 /\ q[1] = s /\ q[2] = u
    <3> HIDE DEF q
    <3>1. Len(<<s>>) = 1 /\ <<s>>[1] = s
      OBVIOUS
    <3> QED
      BY <2>1, <3>1 DEF q
  <2> HIDE DEF q
  <2>3. Len(<<s, u>>) = 2 /\ \A i \in 1..Len(q) : q[i] = <<s, u>>[i]
    BY <2>2
  <2>4. q \in Seq(S)
    BY <2>1 DEF q
  <2>5. q = <<s, u>>
    BY <1>2, <2>2, <2>3, <2>4, SeqEqual
  <2> QED
    BY <2>5 DEF q
<1>5. <<n>> \o <<u>> = <<n, u>>
  <2> DEFINE q == <<n>> \o <<u>>
  <2>1. q \in Seq(S) /\ Len(q) = 2 /\ q[1] = n /\ q[2] = u
    <3>1. /\ q \in Seq(S) /\ Len(q) = Len(<<n>>) + Len(<<u>>)
          /\ \A i \in 1..(Len(<<n>>) + Len(<<u>>)) :
                q[i] = IF i <= Len(<<n>>) THEN <<n>>[i] ELSE <<u>>[i - Len(<<n>>)]
      BY <1>2, ConcatProperties
    <3> HIDE DEF q
    <3>2. Len(<<n>>) = 1 /\ Len(<<u>>) = 1 /\ <<n>>[1] = n /\ <<u>>[1] = u
      OBVIOUS
    <3> QED
      BY <3>1, <3>2
  <2> HIDE DEF q
  <2>2. Len(<<n, u>>) = 2 /\ \A i \in 1..Len(q) : q[i] = <<n, u>>[i]
    BY <2>1
  <2>3. q = <<n, u>>
    BY <1>2, <2>1, <2>2, SeqEqual
  <2> QED
    BY <2>3 DEF q
<1>6. <<n>> \o <<s, u>> = <<n, s, u>>
  <2> DEFINE q == <<n>> \o <<s, u>>
  <2>1. q \in Seq(S) /\ Len(q) = 3 /\ q[1] = n /\ q[2] = s /\ q[3] = u
    <3>1. /\ q \in Seq(S) /\ Len(q) = Len(<<n>>) + Len(<<s, u>>)
          /\ \A i \in 1..(Len(<<n>>) + Len(<<s, u>>)) :
                q[i] = IF i <= Len(<<n>>) THEN <<n>>[i] ELSE <<s, u>>[i - Len(<<n>>)]
      BY <1>2, ConcatProperties
    <3> HIDE DEF q
    <3>2. Len(<<n>>) = 1 /\ Len(<<s, u>>) = 2 /\ <<n>>[1] = n /\ <<s, u>>[1] = s /\ <<s, u>>[2] = u
      OBVIOUS
    <3> QED
      BY <3>1, <3>2
  <2> HIDE DEF q
  <2>2. Len(<<n, s, u>>) = 3 /\ \A i \in 1..Len(q) : q[i] = <<n, s, u>>[i]
    BY <2>1
  <2>3. q = <<n, s, u>>
    BY <1>2, <2>1, <2>2, SeqEqual
  <2> QED
    BY <2>3 DEF q
<1>7. Tail(<<n, u>>) = <<u>>
  OBVIOUS
<1>8. Tail(<<n, s, u>>) = <<s, u>>
  OBVIOUS
<1> QED
  BY <1>3, <1>4, <1>5, <1>6, <1>7, <1>8, Zenon DEF ShortPaths

(* A sequence that only gets longer. *)
Grows(q, r) == /\ IsSeq(q) /\ IsSeq(r) /\ Len(q) <= Len(r)
               /\ \A i \in 1..Len(q) : r[i] = q[i]

(* Appending makes a sequence longer. *)
LEMMA GrowsByOne == ASSUME NEW q, IsSeq(q), NEW x PROVE Grows(q, Append(q, x))
  <1>1. Len(q) \in Nat
    BY DEF IsSeq
  <1> QED
    BY <1>1, Appended DEF Grows

(* What stays as it is has not got shorter. *)
LEMMA GrowsOrNot == ASSUME NEW q, IsSeq(q) PROVE Grows(q, q)
  BY DEF Grows, IsSeq

-----------------------------------------------------------------------------
(* The texts and the frames that carry them. *)

(* The resource of request k has an id of its own. *)
PathOf(k) == {<<Uids[k]>>, <<"start", Uids[k]>>}

IsAddress(s) == s \in Seq(Char) /\ 2 * Len(s) \in Lengths

(* A text asks for an answer if it comes from below the page; the Master sends
   answers, with what the text they answer to says, and updates. *)
Asks(rs, t) == \E k \in 1..Len(rs) : Tail(t.from) = rs[k].path /\ t.data = k
Answers(rs, t) == \E k \in 1..Len(rs) : Tail(t.to) = rs[k].path /\ t.data = k
IsUpdate(t) == Tail(t.to) = <<"update">>

PageTexts(rs, ts) == {i \in 1..Len(ts) : Len(ts[i].from) > 1 => Asks(rs, ts[i])}
MasterTexts(rs, ts) == {i \in 1..Len(ts) : Answers(rs, ts[i]) \/ IsUpdate(ts[i])}

IsFrame(m, I) == \/ \E n \in {m.to} : IsAddress(n) /\ m = Message(HELLO, n, <<>>, <<>>)
                 \/ \E n \in {m.to}, i \in I : /\ IsAddress(n) /\ i \in Nat
                                               /\ m = Message(SEND, n, <<>>, <<i>>)

Queue(q, I) == IsSeq(q) /\ \A i \in 1..Len(q) : IsFrame(q[i], I)

Hellos(q) == {i \in 1..Len(q) : q[i].op = HELLO}
AtMostOne(S) == \A i, j \in S : i = j

(* A text keeps its kind when there are more requests and more texts. *)
LEMMA MoreTexts ==
    ASSUME NEW rs, NEW rs2, Grows(rs, rs2), NEW ts, NEW ts2, Grows(ts, ts2)
    PROVE  /\ PageTexts(rs, ts) \subseteq PageTexts(rs2, ts2)
           /\ MasterTexts(rs, ts) \subseteq MasterTexts(rs2, ts2)
<1>1. /\ \A k \in 1..Len(rs) : k \in 1..Len(rs2) /\ rs2[k] = rs[k]
      /\ \A i \in 1..Len(ts) : i \in 1..Len(ts2) /\ ts2[i] = ts[i]
  <2>1. Len(rs) \in Nat /\ Len(rs2) \in Nat /\ Len(ts) \in Nat /\ Len(ts2) \in Nat
    BY DEF Grows, IsSeq
  <2> QED
    BY <2>1 DEF Grows
<1>2. \A t : (Asks(rs, t) => Asks(rs2, t)) /\ (Answers(rs, t) => Answers(rs2, t))
  BY <1>1, Zenon DEF Asks, Answers
<1> QED
  BY <1>1, <1>2, Zenon DEF PageTexts, MasterTexts

(* Frames that carry some texts carry some of more texts. *)
LEMMA QueueMore ==
    ASSUME NEW q, NEW I, NEW J, Queue(q, I), I \subseteq J
    PROVE  Queue(q, J)
  BY Zenon DEF Queue, IsFrame

(* What the constructor of a HELLO returns. *)
LEMMA HelloIsFrame ==
    ASSUME NEW n, IsAddress(n), NEW I
    PROVE  IsFrame(Message(HELLO, n, <<>>, <<>>), I) /\ Message(HELLO, n, <<>>, <<>>).op = HELLO
  BY DEF IsFrame, Message

(* What the constructor of a SEND returns. *)
LEMMA SendIsFrame ==
    ASSUME NEW n, IsAddress(n), NEW I, NEW i \in I, i \in Nat
    PROVE  IsFrame(Message(SEND, n, <<>>, <<i>>), I) /\ Message(SEND, n, <<>>, <<i>>).op # HELLO
  BY DEF IsFrame, Message, SEND, HELLO

(* A frame more under way. *)
LEMMA QueueLonger ==
    ASSUME NEW q, NEW I, Queue(q, I), NEW m, IsFrame(m, I)
    PROVE  /\ Queue(Append(q, m), I)
           /\ m.op # HELLO => Hellos(Append(q, m)) = Hellos(q)
           /\ Hellos(q) = {} => AtMostOne(Hellos(Append(q, m)))
<1> DEFINE r == Append(q, m)
<1>1. /\ Len(q) \in Nat /\ IsSeq(r) /\ Len(r) = Len(q) + 1
      /\ \A i \in 1..Len(q) : r[i] = q[i]
      /\ r[Len(q) + 1] = m
  BY Appended DEF Queue, IsSeq
<1> HIDE DEF r
<1>2. \A i \in 1..Len(r) : i \in 1..Len(q) \/ i = Len(q) + 1
  BY <1>1
<1>3. \A i \in 1..Len(q) : i \in 1..Len(r) /\ i # Len(q) + 1
  BY <1>1
<1>4. Queue(r, I)
  <2>1. \A i \in 1..Len(q) : IsFrame(q[i], I)
    BY DEF Queue
  <2>2. \A i \in 1..Len(r) : IsFrame(r[i], I)
    BY <1>1, <1>2, <2>1, Zenon
  <2> QED
    BY <1>1, <2>2, Zenon DEF Queue
<1>5. m.op # HELLO => Hellos(r) = Hellos(q)
  <2> DEFINE l == Len(q) + 1
  <2>1. r[l] = m /\ \A i \in 1..Len(r) : i \in 1..Len(q) \/ i = l
    BY <1>1, <1>2
  <2> HIDE DEF l
  <2> QED
    BY <1>1, <1>3, <2>1, Zenon DEF Hellos
<1>6. Hellos(q) = {} => AtMostOne(Hellos(r))
  <2> DEFINE l == Len(q) + 1
  <2>1. \A i \in 1..Len(r) : i \in 1..Len(q) \/ i = l
    BY <1>2
  <2> HIDE DEF l
  <2> QED
    BY <1>1, <2>1, Zenon DEF Hellos, AtMostOne
<1> QED
  BY <1>4, <1>5, <1>6 DEF r

(* The first frame is taken. *)
LEMMA QueueShorter ==
    ASSUME NEW q, NEW I, Queue(q, I), q # <<>>
    PROVE  /\ IsFrame(Head(q), I) /\ Queue(Tail(q), I)
           /\ Hellos(q) = {} => Hellos(Tail(q)) = {} /\ Head(q).op # HELLO
           /\ AtMostOne(Hellos(q)) => /\ AtMostOne(Hellos(Tail(q)))
                                      /\ Head(q).op = HELLO => Hellos(Tail(q)) = {}
           /\ Head(q).op = HELLO => Hellos(q) # {}
           /\ Hellos(Tail(q)) # {} => Hellos(q) # {}
<1> DEFINE r == Tail(q)
           h == Head(q)
<1>1. /\ Len(q) \in Nat /\ Len(q) > 0 /\ h = q[1]
      /\ IsSeq(r) /\ Len(r) = Len(q) - 1
      /\ \A i \in 1..(Len(q) - 1) : r[i] = q[i + 1]
  BY Taken DEF Queue, IsSeq
<1> HIDE DEF r, h
<1>2. 1 \in 1..Len(q)
  BY <1>1
<1>3. \A i \in 1..Len(r) : i + 1 \in 1..Len(q) /\ i + 1 # 1 /\ r[i] = q[i + 1]
  BY <1>1
<1>4. \A i \in 1..Len(q) : IsFrame(q[i], I)
  BY DEF Queue
<1>5. IsFrame(h, I)
  BY <1>1, <1>2, <1>4
<1>6. Queue(r, I)
  <2>1. \A i \in 1..Len(r) : IsFrame(r[i], I)
    BY <1>3, <1>4
  <2> QED
    BY <1>1, <2>1 DEF Queue
<1>7. \A i \in Hellos(r) : i \in Int /\ i + 1 \in Hellos(q) /\ i + 1 # 1
  BY <1>3 DEF Hellos
<1>8. h.op = HELLO => 1 \in Hellos(q)
  BY <1>1, <1>2 DEF Hellos
<1>9. AtMostOne(Hellos(q)) => AtMostOne(Hellos(r)) /\ (h.op = HELLO => Hellos(r) = {})
  BY <1>7, <1>8 DEF AtMostOne
<1> QED
  BY <1>5, <1>6, <1>7, <1>8, <1>9 DEF r, h

(* Every frame of the bus is read as it was sent. *)
LEMMA FrameIsRead ==
    ASSUME NEW m, NEW I, IsFrame(m, I)
    PROVE  /\ Read(m) = m /\ m.op \in {HELLO, SEND} /\ IsAddress(m.to)
           /\ m.op = SEND => m.payload[1] \in I
<1>1. Read(m) = Received(m)
  BY Zenon DEF Read, FirstReceived
<1>2. CASE \E n \in {m.to} : IsAddress(n) /\ m = Message(HELLO, n, <<>>, <<>>)
  <2>1. m = Message(HELLO, m.to, <<>>, <<>>) /\ IsAddress(m.to)
    BY <1>2
  <2>2. <<>> \in Seq(Int) /\ Len(<<>>) \in Lengths /\ HELLO \in Int
    BY ShortLengths DEF HELLO
  <2>3. Received(m) = m
    BY <2>1, <2>2, FrameSurvives DEF Received, IsAddress
  <2>4. m.op = HELLO /\ HELLO # SEND
    BY <2>1 DEF Message, HELLO, SEND
  <2> QED
    BY <1>1, <2>1, <2>3, <2>4
<1>3. CASE \E n \in {m.to}, i \in I : /\ IsAddress(n) /\ i \in Nat
                                       /\ m = Message(SEND, n, <<>>, <<i>>)
  <2>1. PICK i \in I : i \in Nat /\ m = Message(SEND, m.to, <<>>, <<i>>) /\ IsAddress(m.to)
    BY <1>3
  <2>2. <<i>> \in Seq(Int) /\ Len(<<i>>) \in Lengths /\ SEND \in Int
    BY <2>1, ShortLengths DEF SEND
  <2>3. Received(m) = m
    BY <2>1, <2>2, FrameSurvives DEF Received, IsAddress
  <2>4. m.op = SEND /\ m.payload = <<i>>
    BY <2>1 DEF Message
  <2> QED
    BY <1>1, <2>1, <2>3, <2>4
<1> QED
  BY <1>2, <1>3 DEF IsFrame

-----------------------------------------------------------------------------
(* The invariant. *)

(* Of every request: a resource with its own id, and only its own answer. *)
RequestsOK ==
    /\ IsSeq(requests) /\ IsSeq(called) /\ Len(called) = Len(requests)
    /\ Len(requests) <= MaxRequests + 1
    /\ \A k \in 1..Len(requests) : requests[k].path \in PathOf(k)
    /\ \A k \in 1..Len(called) : called[k] \subseteq {k}

TextsOK ==
    /\ IsSeq(texts)
    /\ \A i \in pending : i \in 1..Len(texts) /\ Asks(requests, texts[i])
    /\ \A u \in {webClientURI} : u = <<>> \/ u = <<u[1]>>

QueuesOK ==
    /\ IsAddress(name) /\ IsAddress(peer)
    /\ Queue(toBroker, PageTexts(requests, texts))
    /\ Queue(toPage, MasterTexts(requests, texts))

(* Until the one HELLO has come back, no request was made for the page. *)
Opening == link \in {"none", "opening"}
HelloAhead == Opening \/ Hellos(toBroker) # {} \/ Hellos(toPage) # {}

HelloOK ==
    /\ Opening => toBroker = <<>> /\ toPage = <<>>
    /\ AtMostOne(Hellos(toBroker)) /\ AtMostOne(Hellos(toPage))
    /\ Hellos(toBroker) = {} \/ Hellos(toPage) = {}
    /\ HelloAhead => Len(requests) <= MaxRequests

BusInv == RequestsOK /\ TextsOK /\ QueuesOK /\ HelloOK

(* The empty sequence is all of these. *)
LEMMA EmptyFacts == /\ IsSeq(<<>>) /\ Len(<<>>) = 0 /\ Hellos(<<>>) = {} /\ IsAddress(<<>>)
                    /\ \A I : Queue(<<>>, I)
<1>1. Len(<<>>) = 0 /\ <<>> \in Seq(Char) /\ 2 * 0 = 0
  OBVIOUS
<1>2. IsAddress(<<>>)
  BY <1>1, ShortLengths DEF IsAddress
<1> QED
  BY <1>1, <1>2 DEF IsSeq, Hellos, Queue

(* Every name can be written into a frame. *)
LEMMA NamesAreAddresses == \A n \in Names : IsAddress(n)
<1> TAKE n \in Names
<1>1. n \in Seq(Char) /\ Len(n) < 64 * 256 * 256 * 256 /\ Len(n) \in Nat
  BY BusAssumption
<1> QED
  BY <1>1 DEF IsAddress, Lengths

(* The invariant holds in the beginning. *)
LEMMA BusInit == Init => BusInv
<1> SUFFICES ASSUME Init
             PROVE  BusInv
  OBVIOUS
<1>1. IsAddress(name) /\ IsAddress(peer)
  <2>1. IdOf[page] \in Names
    BY DEF Init, Names, Pages, Range
  <2> QED
    BY <2>1, NamesAreAddresses, EmptyFacts DEF Init
<1>2. Len(requests) = 0 /\ MaxRequests \in Nat
  BY EmptyFacts, BusAssumption DEF Init
<1>3. RequestsOK
  BY <1>2, EmptyFacts DEF Init, RequestsOK
<1>4. TextsOK
  BY EmptyFacts DEF Init, TextsOK
<1>5. QueuesOK
  BY <1>1, EmptyFacts DEF Init, QueuesOK
<1>6. HelloOK
  BY <1>2, EmptyFacts DEF Init, HelloOK, AtMostOne
<1> QED
  BY <1>3, <1>4, <1>5, <1>6 DEF BusInv

(* More texts and more requests leave the texts in order. *)
LEMMA TextsKept ==
    ASSUME TextsOK, Grows(requests, requests'), Grows(texts, texts'),
           pending' = pending, webClientURI' = webClientURI
    PROVE  TextsOK'
<1>1. IsSeq(texts)' /\ \A u \in {webClientURI'} : u = <<>> \/ u = <<u[1]>>
  BY DEF Grows, TextsOK
<1>2. \A k \in 1..Len(requests) : k \in 1..Len(requests') /\ requests'[k] = requests[k]
  BY DEF Grows, IsSeq
<1>3. \A i \in 1..Len(texts) : i \in 1..Len(texts') /\ texts'[i] = texts[i]
  BY DEF Grows, IsSeq
<1>4. \A t : Asks(requests, t) => Asks(requests', t)
  BY <1>2, Zenon DEF Asks
<1>5. \A i \in pending' : i \in 1..Len(texts') /\ Asks(requests', texts'[i])
  BY <1>3, <1>4 DEF TextsOK
<1> QED
  BY <1>1, <1>5 DEF TextsOK

(* What a text more leaves true. *)
LEMMA TextAdded ==
    ASSUME TextsOK, QueuesOK, Grows(requests, requests'), NEW t, Stringify(t)
    PROVE  /\ Grows(texts, texts') /\ IsSeq(texts')
           /\ Len(texts') \in Nat /\ Len(texts') \in 1..Len(texts') /\ texts'[Len(texts')] = t
           /\ \A i \in 1..Len(texts) : /\ i \in 1..Len(texts') /\ texts'[i] = texts[i]
                                       /\ Asks(requests, texts[i]) => Asks(requests', texts'[i])
           /\ Queue(toBroker, PageTexts(requests', texts'))
           /\ Queue(toPage, MasterTexts(requests', texts'))
<1>1. Len(texts) \in Nat /\ texts' = Append(texts, t) /\ IsSeq(texts)
  BY DEF TextsOK, IsSeq, Stringify
<1>2. /\ Grows(texts, texts') /\ IsSeq(texts') /\ Len(texts') = Len(texts) + 1
      /\ texts'[Len(texts) + 1] = t
  BY <1>1, GrowsByOne, Appended
<1>3. Len(texts') \in Nat /\ Len(texts') \in 1..Len(texts') /\ texts'[Len(texts')] = t
  BY <1>1, <1>2
<1>4. /\ PageTexts(requests, texts) \subseteq PageTexts(requests', texts')
      /\ MasterTexts(requests, texts) \subseteq MasterTexts(requests', texts')
  BY <1>2, MoreTexts
<1>5. /\ Queue(toBroker, PageTexts(requests', texts'))
      /\ Queue(toPage, MasterTexts(requests', texts'))
  BY <1>4, QueueMore DEF QueuesOK
<1>6. \A i \in 1..Len(texts) : i \in 1..Len(texts') /\ texts'[i] = texts[i]
  BY <1>1, <1>2 DEF Grows
<1>7. \A u : Asks(requests, u) => Asks(requests', u)
  <2>1. \A k \in 1..Len(requests) : k \in 1..Len(requests') /\ requests'[k] = requests[k]
    BY DEF Grows, IsSeq
  <2> QED
    BY <2>1, Zenon DEF Asks
<1> QED
  BY <1>2, <1>3, <1>5, <1>6, <1>7

(* A message of the page: it goes to the broker if the endpoint is open. *)
LEMMA PageSends ==
    ASSUME TextsOK, QueuesOK, Grows(requests, requests'), NEW t, Stringify(t),
           t.to[1] = Master, Len(t.from) > 1 => Asks(requests', t),
           \/ toBroker' = Append(toBroker, Carry(Master))
           \/ toBroker' = toBroker
    PROVE  /\ Queue(toBroker', PageTexts(requests', texts'))
           /\ Hellos(toBroker') = Hellos(toBroker)
<1> DEFINE I == PageTexts(requests', texts')
           m == Carry(Master)
<1>1. /\ Len(texts') \in Nat /\ Len(texts') \in 1..Len(texts') /\ texts'[Len(texts')] = t
      /\ Queue(toBroker, I)
  BY TextAdded
<1>2. Len(texts') \in I
  BY <1>1, Zenon DEF PageTexts
<1>3. IsAddress(Master)
  BY NamesAreAddresses DEF Names
<1>4. IsFrame(m, I) /\ m.op # HELLO
  <2> HIDE DEF I
  <2> QED
    BY <1>1, <1>2, <1>3, SendIsFrame DEF Carry
<1> HIDE DEF I, m
<1>5. CASE toBroker' = toBroker
  BY <1>1, <1>5 DEF I
<1>6. CASE toBroker' = Append(toBroker, m)
  BY <1>1, <1>4, <1>6, QueueLonger DEF I
<1> QED
  BY <1>5, <1>6 DEF m

(* A request more, with a path of its own. *)
LEMMA RequestAdded ==
    ASSUME RequestsOK, NEW r, Len(requests) <= MaxRequests,
           r.path \in PathOf(Len(requests) + 1),
           requests' = Append(requests, r), called' = Append(called, {})
    PROVE  /\ RequestsOK' /\ Grows(requests, requests')
           /\ Len(requests') = Len(requests) + 1 /\ Len(requests) + 1 \in 1..Len(requests')
           /\ requests'[Len(requests) + 1].path = r.path
<1> DEFINE k == Len(requests) + 1
<1>1. /\ Len(requests) \in Nat /\ MaxRequests \in Nat /\ Len(called) = Len(requests)
      /\ IsSeq(requests) /\ IsSeq(called)
  BY BusAssumption DEF RequestsOK, IsSeq
<1>2. /\ IsSeq(requests') /\ Len(requests') = k
      /\ \A i \in 1..Len(requests) : requests'[i] = requests[i]
      /\ requests'[k] = r
  BY <1>1, Appended
<1>3. /\ IsSeq(called') /\ Len(called') = k
      /\ \A i \in 1..Len(requests) : called'[i] = called[i]
      /\ called'[k] = {}
  BY <1>1, Appended
<1>4. k \in 1..k /\ k <= MaxRequests + 1 /\ \A i \in 1..k : i \in 1..Len(requests) \/ i = k
  BY <1>1
<1>5. Grows(requests, requests')
  BY <1>1, GrowsByOne
<1> HIDE DEF k
<1>6. \A i \in 1..Len(requests') : requests'[i].path \in PathOf(i)
  <2>1. r.path \in PathOf(k)
    BY DEF k
  <2> QED
    BY <1>2, <1>4, <2>1 DEF RequestsOK
<1>7. \A i \in 1..Len(called') : called'[i] \subseteq {i}
  BY <1>1, <1>3, <1>4 DEF RequestsOK
<1>8. RequestsOK'
  BY <1>2, <1>3, <1>4, <1>6, <1>7 DEF RequestsOK
<1> QED
  BY <1>2, <1>4, <1>5, <1>8 DEF k

(* Nobody but its asker listens on the resource of a request. *)
LEMMA OneListener ==
    ASSUME RequestsOK, NEW path
    PROVE  /\ \A k \in 1..Len(requests) :
                 Tail(path) = requests[k].path => Listener(path) = {k} /\ Callback(path) = k
           /\ Tail(path) = <<"update">> => Listener(path) = {}
<1>1. /\ DOMAIN requests = 1..Len(requests) /\ Len(requests) \in Nat /\ MaxRequests \in Nat
      /\ \A k \in 1..Len(requests) : k \in 1..(MaxRequests + 1) /\ requests[k].path \in PathOf(k)
  BY BusAssumption DEF RequestsOK, IsSeq
<1>2. \A j, k \in 1..(MaxRequests + 1) :
         \A p \in PathOf(j) : p \in PathOf(k) => j = k
  <2>1. \A j, k \in 1..(MaxRequests + 1) : Uids[j] = Uids[k] => j = k
    BY BusAssumption
  <2> TAKE j, k \in 1..(MaxRequests + 1)
  <2> DEFINE a == Uids[j]
             b == Uids[k]
  <2>2. a = b => j = k
    BY <2>1
  <2> HIDE DEF a, b
  <2>3. ({<<a>>, <<"start", a>>} \cap {<<b>>, <<"start", b>>} # {}) => a = b
    OBVIOUS
  <2> QED
    BY <2>2, <2>3 DEF PathOf, a, b
<1>3. \A k \in 1..(MaxRequests + 1) : <<"update">> \notin PathOf(k)
  <2>1. \A k \in 1..(MaxRequests + 1) : Uids[k] # "update"
    BY BusAssumption
  <2> TAKE k \in 1..(MaxRequests + 1)
  <2> DEFINE a == Uids[k]
  <2>2. a # "update"
    BY <2>1
  <2> HIDE DEF a
  <2>3. <<"update">> \notin {<<a>>, <<"start", a>>}
    BY <2>2
  <2> QED
    BY <2>3 DEF PathOf, a
<1>4. ASSUME NEW k \in 1..Len(requests), Tail(path) = requests[k].path
      PROVE  Listener(path) = {k} /\ Callback(path) = k
  <2>1. \A j \in 1..Len(requests) : requests[j].path = requests[k].path => j = k
    BY <1>1, <1>2
  <2>2. Listener(path) = {k}
    BY <1>1, <1>4, <2>1, Zenon DEF Listener
  <2>3. Callback(path) = k
    BY <1>1, <2>2 DEF Callback
  <2> QED
    BY <2>2, <2>3
<1>5. Tail(path) = <<"update">> => Listener(path) = {}
  BY <1>1, <1>3 DEF Listener
<1> QED
  BY <1>4, <1>5

-----------------------------------------------------------------------------
(* The steps of the page. *)

(* The link opens or ends, or the script gets ready. *)
LEMMA OpeningSteps ==
    ASSUME BusInv, Connect \/ EndpointOpens \/ EndpointCloses \/ Ready
    PROVE  BusInv'
<1> RequestsOK /\ TextsOK /\ QueuesOK /\ HelloOK
  BY DEF BusInv
<1> DEFINE I == PageTexts(requests, texts)
           J == MasterTexts(requests, texts)
           m == Message(HELLO, name, <<>>, <<>>)
<1>1. /\ UNCHANGED <<requests, called, texts, name, masterVars>>
      /\ requests' = requests /\ called' = called /\ texts' = texts /\ name' = name
      /\ webClientURI' = webClientURI /\ peer' = peer /\ pending' = pending
  BY DEF Connect, EndpointOpens, EndpointCloses, Ready, masterVars
<1>2. RequestsOK' /\ TextsOK'
  BY <1>1 DEF RequestsOK, TextsOK
<1>3. IsAddress(name)' /\ IsAddress(peer)'
  BY <1>1 DEF QueuesOK
<1>4. PageTexts(requests, texts)' = I /\ MasterTexts(requests, texts)' = J
  BY <1>1
<1>5. Queue(toBroker, I) /\ Queue(toPage, J)
  BY DEF QueuesOK
<1> HIDE DEF I, J
<1>6. CASE Connect \/ Ready
  <2>1. toBroker' = toBroker /\ toPage' = toPage /\ (Opening' => Opening) /\ (HelloAhead' => HelloAhead)
    BY <1>6 DEF Connect, Ready, Opening, HelloAhead
  <2>2. QueuesOK'
    BY <1>3, <1>4, <1>5, <2>1 DEF QueuesOK
  <2>3. HelloOK'
    BY <1>1, <2>1 DEF HelloOK
  <2> QED
    BY <1>2, <2>2, <2>3 DEF BusInv
<1>7. CASE EndpointOpens
  <2>1. /\ Opening /\ ~Opening' /\ toBroker = <<>> /\ toPage = <<>>
        /\ toBroker' = Append(toBroker, m) /\ toPage' = <<>>
    BY <1>7 DEF EndpointOpens, Opening, HelloOK
  <2>2. Hellos(toBroker) = {} /\ Hellos(toPage') = {} /\ Queue(toPage', J)
    BY <2>1, EmptyFacts
  <2>3. IsFrame(m, I)
    BY HelloIsFrame DEF QueuesOK
  <2> HIDE DEF m
  <2>4. Queue(toBroker', I) /\ AtMostOne(Hellos(toBroker'))
    BY <1>5, <2>1, <2>2, <2>3, QueueLonger
  <2>5. QueuesOK'
    BY <1>3, <1>4, <2>2, <2>4 DEF QueuesOK
  <2>6. Len(requests') <= MaxRequests
    BY <1>1, <2>1 DEF HelloOK, HelloAhead
  <2>7. HelloOK'
    BY <2>1, <2>2, <2>4, <2>6 DEF HelloOK, AtMostOne
  <2> QED
    BY <1>2, <2>5, <2>7 DEF BusInv
<1>8. CASE EndpointCloses
  <2>1. ~Opening' /\ toBroker' = <<>> /\ toPage' = <<>>
    BY <1>8 DEF EndpointCloses, Opening
  <2>2. QueuesOK'
    BY <1>3, <2>1, EmptyFacts DEF QueuesOK
  <2>3. HelloOK'
    BY <2>1, EmptyFacts DEF HelloOK, HelloAhead, AtMostOne
  <2> QED
    BY <1>2, <2>2, <2>3 DEF BusInv
<1> QED
  BY <1>6, <1>7, <1>8

(* The HELLO comes back: the name is known, and there is none after it. *)
LEMMA HelloSteps ==
    ASSUME BusInv, ReceiveHello
    PROVE  BusInv'
<1> DEFINE m == Head(toPage)
           I == PageTexts(requests', texts')
           J == MasterTexts(requests', texts')
           k == Len(requests) + 1
<1> RequestsOK /\ TextsOK /\ QueuesOK /\ HelloOK
  BY DEF BusInv
<1>1. toPage # <<>> /\ Queue(toPage, MasterTexts(requests, texts))
  BY DEF ReceiveHello, QueuesOK
<1>2. Read(m) = m /\ IsAddress(m.to)
  BY <1>1, QueueShorter, FrameIsRead
<1>3. /\ m.op = HELLO /\ name' = m.to /\ toPage' = Tail(toPage)
      /\ link' = link /\ webClientURI' = webClientURI /\ peer' = peer /\ pending' = pending
      /\ \/ \E t : /\ t.to[1] = Master /\ Len(t.from) = 1 /\ Stringify(t)
                   /\ toBroker' = Append(toBroker, Carry(Master))
                   /\ requests' = requests /\ called' = called
         \/ \E t, r : /\ requests' = Append(requests, r) /\ r.path = <<Uids[k]>>
                      /\ called' = Append(called, {})
                      /\ t.to[1] = Master /\ Tail(t.from) = <<Uids[k]>> /\ t.data = k /\ Stringify(t)
                      /\ toBroker' = Append(toBroker, Carry(Master))
         \/ /\ requests' = requests /\ called' = called /\ texts' = texts
            /\ toBroker' = toBroker
  <2>1. /\ m.op = HELLO /\ name' = m.to /\ toPage' = Tail(toPage)
        /\ link' = link /\ webClientURI' = webClientURI /\ peer' = peer /\ pending' = pending
    BY <1>2 DEF ReceiveHello, TakeName, masterVars
  <2>2. CASE ready /\ page = "webclient"
    <3> DEFINE t == Text(<<Master, "register_webclient">>, <<m.to>>, "POST", m.to)
    <3>1. t.to[1] = Master /\ Len(t.from) = 1
      BY DEF Text
    <3>2. /\ Stringify(t) /\ toBroker' = Append(toBroker, Carry(Master))
          /\ requests' = requests /\ called' = called
      BY <1>2, <2>2 DEF ReceiveHello
    <3> HIDE DEF t
    <3> QED
      BY <2>1, <3>1, <3>2, Zenon
  <2>3. CASE ready /\ page # "webclient"
    <3> DEFINE t == Text(<<Master, "nodes">>, <<m.to, Uids[k]>>, "GET", k)
               r == [path |-> <<Uids[k]>>, open |-> TRUE]
    <3>1. t.to[1] = Master /\ Tail(t.from) = <<Uids[k]>> /\ t.data = k /\ r.path = <<Uids[k]>>
      BY DEF Text
    <3>2. /\ Stringify(t) /\ toBroker' = Append(toBroker, Carry(Master))
          /\ requests' = Append(requests, r) /\ called' = Append(called, {})
      BY <1>2, <2>3, Zenon DEF ReceiveHello
    <3> HIDE DEF t, r
    <3> QED
      BY <2>1, <3>1, <3>2, Zenon
  <2>4. CASE ~ready
    BY <2>1, <2>4 DEF ReceiveHello
  <2> QED
    BY <2>2, <2>3, <2>4
<1> HIDE DEF m
<1>4. /\ Queue(Tail(toPage), MasterTexts(requests, texts))
      /\ Hellos(toPage) # {} /\ Hellos(toPage') = {} /\ Hellos(toBroker) = {}
      /\ ~Opening /\ Opening' = Opening
  <2>1. ~Opening /\ Opening' = Opening
    BY <1>1, <1>3 DEF Opening, HelloOK
  <2> QED
    BY <1>1, <1>3, <2>1, QueueShorter DEF m, HelloOK
<1>5. /\ RequestsOK' /\ TextsOK' /\ Hellos(toBroker') = {}
      /\ Queue(toBroker', I) /\ Queue(Tail(toPage), J)
  <2>1. IsSeq(requests) /\ IsSeq(texts) /\ Grows(requests, requests) /\ Grows(texts, texts)
    BY GrowsOrNot DEF RequestsOK, TextsOK
  <2>2. ASSUME NEW t, t.to[1] = Master, Stringify(t), toBroker' = Append(toBroker, Carry(Master)),
               RequestsOK', Grows(requests, requests'), Len(t.from) > 1 => Asks(requests', t)
        PROVE  /\ RequestsOK' /\ TextsOK' /\ Hellos(toBroker') = {}
               /\ Queue(toBroker', I) /\ Queue(Tail(toPage), J)
    <3>1. Grows(texts, texts') /\ IsSeq(texts')
      BY <2>2, TextAdded
    <3>2. Queue(toBroker', I) /\ Hellos(toBroker') = Hellos(toBroker)
      BY <2>2, PageSends
    <3>3. MasterTexts(requests, texts) \subseteq J
      BY <2>2, <3>1, MoreTexts
    <3> HIDE DEF I, J
    <3>4. Queue(Tail(toPage), J)
      BY <1>4, <3>3, QueueMore
    <3>5. TextsOK'
      BY <1>3, <2>2, <3>1, TextsKept
    <3> QED
      BY <1>4, <2>2, <3>2, <3>4, <3>5
  <2>3. ASSUME NEW t, t.to[1] = Master, Len(t.from) = 1, Stringify(t),
               toBroker' = Append(toBroker, Carry(Master)),
               requests' = requests, called' = called
        PROVE  /\ RequestsOK' /\ TextsOK' /\ Hellos(toBroker') = {}
               /\ Queue(toBroker', I) /\ Queue(Tail(toPage), J)
    <3>1. RequestsOK' /\ Grows(requests, requests')
      BY <2>1, <2>3 DEF RequestsOK
    <3>2. Len(t.from) > 1 => Asks(requests', t)
      BY <2>3
    <3> HIDE DEF I, J
    <3> QED
      BY <2>2, <2>3, <3>1, <3>2
  <2>4. ASSUME NEW t, NEW r, requests' = Append(requests, r), r.path = <<Uids[k]>>,
               called' = Append(called, {}),
               t.to[1] = Master, Tail(t.from) = <<Uids[k]>>, t.data = k, Stringify(t),
               toBroker' = Append(toBroker, Carry(Master))
        PROVE  /\ RequestsOK' /\ TextsOK' /\ Hellos(toBroker') = {}
               /\ Queue(toBroker', I) /\ Queue(Tail(toPage), J)
    <3>1. Len(requests) <= MaxRequests /\ r.path \in PathOf(k)
      BY <1>4, <2>4 DEF HelloOK, HelloAhead, PathOf
    <3>2. /\ RequestsOK' /\ Grows(requests, requests')
          /\ k \in 1..Len(requests') /\ requests'[k].path = r.path
      BY <2>4, <3>1, RequestAdded
    <3>3. Asks(requests', t)
      <4> HIDE DEF k
      <4> QED
        BY <2>4, <3>2, Zenon DEF Asks
    <3> HIDE DEF I, J
    <3> QED
      BY <2>2, <2>4, <3>2, <3>3
  <2>5. ASSUME requests' = requests, called' = called, texts' = texts, toBroker' = toBroker
        PROVE  /\ RequestsOK' /\ TextsOK' /\ Hellos(toBroker') = {}
               /\ Queue(toBroker', I) /\ Queue(Tail(toPage), J)
    <3>1. RequestsOK' /\ TextsOK'
      BY <1>3, <2>5 DEF RequestsOK, TextsOK
    <3> QED
      BY <1>4, <2>5, <3>1 DEF QueuesOK
  <2> HIDE DEF I, J, k
  <2> QED
    BY <1>3, <2>3, <2>4, <2>5
<1>6. QueuesOK'
  BY <1>2, <1>3, <1>5 DEF QueuesOK
<1>7. HelloOK'
  BY <1>3, <1>4, <1>5 DEF HelloOK, HelloAhead, AtMostOne
<1> QED
  BY <1>5, <1>6, <1>7 DEF BusInv

(* An answer calls the callback of its asker. *)
LEMMA MessageSteps ==
    ASSUME BusInv, ReceiveMessage
    PROVE  BusInv'
<1> DEFINE m == Head(toPage)
           J == MasterTexts(requests, texts)
           i == m.payload[1]
           msg == texts[i]
<1> RequestsOK /\ TextsOK /\ QueuesOK /\ HelloOK
  BY DEF BusInv
<1>1. toPage # <<>> /\ Queue(toPage, J)
  BY DEF ReceiveMessage, QueuesOK
<1>2. Read(m) = m /\ (m.op = SEND => i \in J)
  BY <1>1, QueueShorter, FrameIsRead
<1>3. /\ m.op = SEND /\ toPage' = Tail(toPage)
      /\ link' = link /\ name' = name /\ requests' = requests
      /\ toBroker' = toBroker /\ texts' = texts
      /\ webClientURI' = webClientURI /\ peer' = peer /\ pending' = pending
      /\ \/ called' = called
         \/ /\ Listener(msg.to) # {}
            /\ called' = [called EXCEPT ![Callback(msg.to)] = @ \cup {msg.data}]
  BY <1>2 DEF ReceiveMessage, masterVars
<1>4. /\ Queue(toPage', J)
      /\ Hellos(toPage) = {} => Hellos(toPage') = {}
      /\ AtMostOne(Hellos(toPage)) => AtMostOne(Hellos(toPage'))
      /\ Hellos(toPage') # {} => Hellos(toPage) # {}
  BY <1>1, <1>3, QueueShorter
<1>5. Answers(requests, msg) \/ IsUpdate(msg)
  BY <1>2, <1>3 DEF MasterTexts
<1> HIDE DEF m, i, msg, J
<1>6. \/ called' = called
      \/ \E k \in 1..Len(called) : called' = [called EXCEPT ![k] = @ \cup {k}]
  <2>1. CASE IsUpdate(msg)
    <3>1. Listener(msg.to) = {}
      BY <2>1, OneListener DEF IsUpdate
    <3> QED
      BY <1>3, <3>1
  <2>2. CASE Answers(requests, msg)
    <3>1. PICK k \in 1..Len(requests) : Tail(msg.to) = requests[k].path /\ msg.data = k
      BY <2>2 DEF Answers
    <3>2. Callback(msg.to) = k
      BY <3>1, OneListener
    <3>3. k \in 1..Len(called)
      BY DEF RequestsOK
    <3> QED
      BY <1>3, <3>1, <3>2, <3>3, Zenon
  <2> QED
    BY <1>5, <2>1, <2>2
<1>7. RequestsOK'
  <2>1. CASE called' = called
    BY <1>3, <2>1 DEF RequestsOK
  <2>2. ASSUME NEW k \in 1..Len(called), called' = [called EXCEPT ![k] = @ \cup {k}]
        PROVE  IsSeq(called') /\ Len(called') = Len(called) /\ \A j \in 1..Len(called) : called'[j] \subseteq {j}
    <3> DEFINE S == SUBSET Int
    <3>1. called \in Seq(S)
      <4>1. \A j \in 1..Len(called) : called[j] \in S
        BY DEF RequestsOK
      <4> HIDE DEF S
      <4> QED
        BY <4>1, SeqOfItsOwn DEF RequestsOK
    <3>2. called'[k] = called[k] \cup {k} /\ \A j \in 1..Len(called) : j # k => called'[j] = called[j]
      BY <2>2, <3>1
    <3>3. called' \in Seq(S) /\ Len(called') = Len(called)
      BY <2>2, <3>1
    <3>4. IsSeq(called')
      BY <3>3, SeqIsOne
    <3>5. \A j \in 1..Len(called) : called'[j] \subseteq {j}
      BY <3>2 DEF RequestsOK
    <3> QED
      BY <3>3, <3>4, <3>5
  <2> QED
    BY <1>3, <1>6, <2>1, <2>2 DEF RequestsOK
<1>8. TextsOK'
  BY <1>3 DEF TextsOK
<1>9. QueuesOK'
  <2>1. PageTexts(requests, texts)' = PageTexts(requests, texts) /\ MasterTexts(requests, texts)' = J
    BY <1>3 DEF J
  <2> QED
    BY <1>3, <1>4, <2>1 DEF QueuesOK
<1>10. HelloOK'
  <2>1. Opening' = Opening /\ ~Opening
    BY <1>1, <1>3 DEF Opening, HelloOK
  <2> QED
    BY <1>3, <1>4, <2>1 DEF HelloOK, HelloAhead
<1> QED
  BY <1>7, <1>8, <1>9, <1>10 DEF BusInv

(* The user's messages: a request, or one that has no answer. *)
LEMMA UserSteps ==
    ASSUME BusInv, Ask \/ Tell
    PROVE  BusInv'
<1> DEFINE I == PageTexts(requests', texts')
           J == MasterTexts(requests', texts')
           k == Len(requests) + 1
<1> RequestsOK /\ TextsOK /\ QueuesOK /\ HelloOK
  BY DEF BusInv
<1>1. /\ link' = link /\ name' = name /\ toPage' = toPage
      /\ webClientURI' = webClientURI /\ peer' = peer
  BY DEF Ask, Tell, pageVars, masterVars
<1>2. ASSUME NEW t, t.to[1] = Master, Send(t), pending' = pending,
             RequestsOK', Grows(requests, requests'), Len(t.from) > 1 => Asks(requests', t),
             HelloAhead => Len(requests') <= MaxRequests
      PROVE  BusInv'
  <2>1. /\ Stringify(t)
        /\ \/ IsOpen /\ toBroker' = Append(toBroker, Carry(Master))
           \/ toBroker' = toBroker
    BY <1>2 DEF Send
  <2>2. Grows(texts, texts') /\ IsSeq(texts') /\ Queue(toPage, J)
    BY <1>2, <2>1, TextAdded
  <2>3. Queue(toBroker', I) /\ Hellos(toBroker') = Hellos(toBroker)
    BY <1>2, <2>1, PageSends
  <2>4. TextsOK'
    BY <1>1, <1>2, <2>2, TextsKept
  <2>5. QueuesOK'
    BY <1>1, <2>2, <2>3 DEF QueuesOK
  <2>6. HelloOK'
    <3>1. Opening' = Opening /\ (Opening => toBroker' = toBroker)
      BY <1>1, <2>1 DEF Opening, IsOpen
    <3> QED
      BY <1>1, <1>2, <2>3, <3>1 DEF HelloOK, HelloAhead
  <2> QED
    BY <1>2, <2>4, <2>5, <2>6 DEF BusInv
<1>3. ASSUME NEW src, src \in {<<>>, <<"start">>}, NEW resource, NEW method,
             Request(src, resource, method), Len(requests) < MaxRequests, pending' = pending
      PROVE  BusInv'
  <2> DEFINE res == Append(src, Uids[k])
             t == Text(<<Master, resource>>, Root \o res, method, k)
             r == [path |-> res, open |-> id # <<>> /\ IsOpen]
  <2>1. res \in PathOf(k) /\ Tail(Root \o res) = res
    <3> DEFINE u == Uids[k]
    <3>1. res = <<u>> \/ res = <<"start", u>>
      <4> HIDE DEF u
      <4>1. ShortPaths(<<>>, "start", u)
        BY Tuples
      <4>2. Append(src, u) = <<u>> \/ Append(src, u) = <<"start", u>>
        BY <1>3, <4>1, Zenon DEF ShortPaths
      <4> QED
        BY <4>2 DEF u
    <3> HIDE DEF u
    <3>2. ShortPaths(name, "start", u)
      BY Tuples
    <3>3. Tail(<<name>> \o <<u>>) = <<u>> /\ Tail(<<name>> \o <<"start", u>>) = <<"start", u>>
      BY <3>2, Zenon DEF ShortPaths
    <3> QED
      BY <3>1, <3>3, Zenon DEF PathOf, Root, u
  <2> HIDE DEF res
  <2>2. /\ t.to[1] = Master /\ Tail(t.from) = res /\ t.data = k /\ r.path = res
    BY <2>1 DEF Text
  <2>3. requests' = Append(requests, r) /\ called' = Append(called, {}) /\ Send(t)
    BY <1>3, Zenon DEF Request, res
  <2> HIDE DEF t, r
  <2>4. Len(requests) \in Nat /\ MaxRequests \in Nat /\ Len(requests) <= MaxRequests
    BY <1>3, BusAssumption DEF RequestsOK, IsSeq
  <2>5. r.path \in PathOf(k)
    BY <2>1, <2>2
  <2>6. /\ RequestsOK' /\ Grows(requests, requests') /\ Len(requests') = k
        /\ k \in 1..Len(requests') /\ requests'[k].path = r.path
    BY <2>3, <2>4, <2>5, RequestAdded
  <2>7. Len(requests') <= MaxRequests
    BY <1>3, <2>4, <2>6
  <2> HIDE DEF k
  <2>8. Asks(requests', t)
    BY <2>2, <2>6, Zenon DEF Asks
  <2> QED
    BY <1>2, <1>3, <2>2, <2>3, <2>6, <2>7, <2>8
<1>4. ASSUME NEW resource, SendMessage(resource, "DELETE", 0), pending' = pending,
             requests' = requests, called' = called
      PROVE  BusInv'
  <2> DEFINE t == Text(<<Master, resource>>, Root, "DELETE", 0)
  <2>1. t.to[1] = Master /\ ~ (Len(t.from) > 1) /\ Send(t)
    BY <1>4 DEF Text, Root, SendMessage
  <2>2. RequestsOK' /\ Grows(requests, requests')
    BY <1>4, GrowsOrNot DEF RequestsOK
  <2>3. HelloAhead => Len(requests') <= MaxRequests
    BY <1>4 DEF HelloOK
  <2> HIDE DEF t
  <2> QED
    BY <1>2, <1>4, <2>1, <2>2, <2>3
<1>5. CASE Ask
  <2>1. /\ Len(requests) < MaxRequests /\ pending' = pending
        /\ \/ Request(<<"start">>, "work_config", "POST")
           \/ Request(<<>>, "nodes", "GET")
    BY <1>5 DEF Ask, masterVars
  <2> QED
    BY <1>3, <2>1
<1>6. CASE Tell
  <2>1. /\ pending' = pending /\ requests' = requests /\ called' = called
        /\ \E resource \in {"simulations", "work_config"} : SendMessage(resource, "DELETE", 0)
    BY <1>6 DEF Tell, pageVars, masterVars
  <2> QED
    BY <1>4, <2>1
<1> QED
  BY <1>5, <1>6

-----------------------------------------------------------------------------
(* The steps of the broker and the Master. *)

(* The broker answers the HELLO with a HELLO. *)
LEMMA BrokerSteps ==
    ASSUME BusInv, BrokerHello
    PROVE  BusInv'
<1> DEFINE m == Head(toBroker)
           h == Message(HELLO, peer', <<>>, <<>>)
           I == PageTexts(requests, texts)
           J == MasterTexts(requests, texts)
<1> RequestsOK /\ TextsOK /\ QueuesOK /\ HelloOK
  BY DEF BusInv
<1>1. toBroker # <<>> /\ Queue(toBroker, I) /\ Queue(toPage, J)
  BY DEF BrokerHello, QueuesOK
<1>2. Read(m) = m /\ IsAddress(m.to)
  BY <1>1, QueueShorter, FrameIsRead
<1>3. /\ m.op = HELLO /\ peer' \in {m.to} \cup OtherNames
      /\ toBroker' = Tail(toBroker) /\ toPage' = Append(toPage, h)
      /\ link' = link /\ name' = name /\ requests' = requests /\ called' = called
      /\ texts' = texts /\ webClientURI' = webClientURI /\ pending' = pending
  BY <1>2 DEF BrokerHello, pageVars
<1> HIDE DEF m
<1>4. IsAddress(peer')
  BY <1>2, <1>3, NamesAreAddresses DEF Names
<1>5. /\ Queue(toBroker', I) /\ Hellos(toBroker) # {} /\ Hellos(toBroker') = {}
      /\ Hellos(toPage) = {}
  <2>1. AtMostOne(Hellos(toBroker)) /\ (Hellos(toBroker) = {} \/ Hellos(toPage) = {})
    BY DEF HelloOK
  <2> HIDE DEF I, J
  <2> QED
    BY <1>1, <1>3, <2>1, QueueShorter DEF m
<1>6. Queue(toPage', J) /\ AtMostOne(Hellos(toPage'))
  <2>1. IsFrame(h, J)
    BY <1>4, HelloIsFrame
  <2> HIDE DEF h, J
  <2> QED
    BY <1>1, <1>3, <1>5, <2>1, QueueLonger
<1>7. RequestsOK' /\ TextsOK'
  BY <1>3 DEF RequestsOK, TextsOK
<1>8. QueuesOK'
  <2>1. PageTexts(requests, texts)' = I /\ MasterTexts(requests, texts)' = J
    BY <1>3
  <2>2. IsAddress(name)'
    BY <1>3 DEF QueuesOK
  <2> HIDE DEF I, J
  <2> QED
    BY <1>4, <1>5, <1>6, <2>1, <2>2 DEF QueuesOK
<1>9. HelloOK'
  <2>1. ~Opening /\ Opening' = Opening
    BY <1>1, <1>3 DEF Opening, HelloOK
  <2>2. Len(requests') <= MaxRequests
    BY <1>3, <1>5 DEF HelloOK, HelloAhead
  <2> QED
    BY <1>5, <1>6, <2>1, <2>2 DEF HelloOK, AtMostOne
<1> QED
  BY <1>7, <1>8, <1>9 DEF BusInv

(* A request of the page waits for an answer. *)
LEMMA MasterSteps ==
    ASSUME BusInv, MasterReceives
    PROVE  BusInv'
<1> DEFINE m == Head(toBroker)
           I == PageTexts(requests, texts)
           J == MasterTexts(requests, texts)
           i == m.payload[1]
           msg == texts[i]
<1> RequestsOK /\ TextsOK /\ QueuesOK /\ HelloOK
  BY DEF BusInv
<1>1. toBroker # <<>> /\ Queue(toBroker, I) /\ Queue(toPage, J)
  BY DEF MasterReceives, QueuesOK
<1>2. Read(m) = m /\ (m.op = SEND => i \in I)
  BY <1>1, QueueShorter, FrameIsRead
<1>3. /\ m.op = SEND /\ toBroker' = Tail(toBroker) /\ toPage' = toPage
      /\ webClientURI' = webClientURI \/ webClientURI' = <<msg.data>>
      /\ pending' = pending \/ (Len(msg.from) > 1 /\ pending' = pending \cup {i})
      /\ link' = link /\ name' = name /\ requests' = requests /\ called' = called
      /\ texts' = texts /\ peer' = peer
  BY <1>2 DEF MasterReceives, pageVars
<1>4. i \in 1..Len(texts) /\ (Len(msg.from) > 1 => Asks(requests, msg))
  BY <1>2, <1>3 DEF PageTexts
<1>5. /\ Queue(toBroker', I)
      /\ AtMostOne(Hellos(toBroker)) => AtMostOne(Hellos(toBroker'))
      /\ Hellos(toBroker') # {} => Hellos(toBroker) # {}
  <2> HIDE DEF I
  <2> QED
    BY <1>1, <1>3, QueueShorter
<1> HIDE DEF m, i
<1>6. RequestsOK'
  BY <1>3 DEF RequestsOK
<1>7. TextsOK'
  <2>1. \A j \in pending' : j \in 1..Len(texts) /\ Asks(requests, texts[j])
    BY <1>3, <1>4 DEF TextsOK
  <2>2. \A u \in {webClientURI'} : u = <<>> \/ u = <<u[1]>>
    <3> HIDE DEF msg
    <3> QED
      BY <1>3 DEF TextsOK
  <2> QED
    BY <1>3, <2>1, <2>2 DEF TextsOK
<1>8. QueuesOK'
  <2>1. PageTexts(requests, texts)' = I /\ MasterTexts(requests, texts)' = J
    BY <1>3
  <2>2. IsAddress(name)' /\ IsAddress(peer)' /\ toPage' = toPage
    BY <1>3 DEF QueuesOK
  <2> HIDE DEF I, J
  <2> QED
    BY <1>1, <1>5, <2>1, <2>2 DEF QueuesOK
<1>9. HelloOK'
  <2>1. ~Opening /\ Opening' = Opening
    BY <1>1, <1>3 DEF Opening, HelloOK
  <2>2. HelloAhead' => HelloAhead
    BY <1>3, <1>5, <2>1 DEF HelloAhead
  <2> QED
    BY <1>3, <1>5, <2>1, <2>2 DEF HelloOK
<1> QED
  BY <1>6, <1>7, <1>8, <1>9 DEF BusInv

(* An answer, with the path and the data of the request, or an update. *)
LEMMA AnswerSteps ==
    ASSUME BusInv, MasterAnswers \/ MasterUpdates
    PROVE  BusInv'
<1> DEFINE I == PageTexts(requests', texts')
           J == MasterTexts(requests', texts')
<1> RequestsOK /\ TextsOK /\ QueuesOK /\ HelloOK
  BY DEF BusInv
<1>1. /\ toBroker' = toBroker /\ link' = link /\ name' = name /\ requests' = requests
      /\ called' = called /\ webClientURI' = webClientURI /\ peer' = peer
  BY DEF MasterAnswers, MasterUpdates, pageVars, masterVars
<1>2. \E t : /\ ToPage(t) /\ (Answers(requests, t) \/ IsUpdate(t))
             /\ \/ pending' = pending
                \/ \E s \in pending : pending' = pending \ {s}
  <2>1. CASE MasterAnswers
    <3>1. PICK s \in pending : /\ ToPage(Text(texts[s].from, <<Master>>, "none", texts[s].data))
                               /\ pending' = pending \ {s}
      BY <2>1 DEF MasterAnswers
    <3> DEFINE t == Text(texts[s].from, <<Master>>, "none", texts[s].data)
    <3>2. Asks(requests, texts[s])
      BY DEF TextsOK
    <3>3. t.to = texts[s].from /\ t.data = texts[s].data
      BY DEF Text
    <3> HIDE DEF t
    <3>4. Answers(requests, t)
      BY <3>2, <3>3, Zenon DEF Asks, Answers
    <3>5. ToPage(t)
      BY <3>1 DEF t
    <3> QED
      BY <3>1, <3>4, <3>5, Zenon
  <2>2. CASE MasterUpdates
    <3> DEFINE t == Text(Append(webClientURI, "update"), <<Master>>, "POST", 0)
    <3>1. ToPage(t) /\ pending' = pending /\ webClientURI # <<>>
      BY <2>2 DEF MasterUpdates, masterVars
    <3>2. webClientURI = <<webClientURI[1]>>
      BY <3>1 DEF TextsOK
    <3>3. \A x : Tail(Append(<<x>>, "update")) = <<"update">>
      <4> TAKE x
      <4>1. ShortPaths(x, x, "update")
        BY Tuples
      <4>2. Append(<<x>>, "update") = <<x, "update">>
        BY <4>1, Zenon DEF ShortPaths
      <4>3. Tail(<<x, "update">>) = <<"update">>
        OBVIOUS
      <4> QED
        BY <4>2, <4>3, Zenon
    <3>4. t.to = Append(webClientURI, "update")
      BY DEF Text
    <3> HIDE DEF t
    <3>5. IsUpdate(t)
      BY <3>2, <3>3, <3>4, Zenon DEF IsUpdate
    <3> QED
      BY <3>1, <3>5
  <2> QED
    BY <2>1, <2>2
<1>3. PICK t : /\ ToPage(t) /\ (Answers(requests, t) \/ IsUpdate(t))
               /\ \/ pending' = pending
                  \/ \E s \in pending : pending' = pending \ {s}
  BY <1>2
<1>4. /\ Stringify(t)
      /\ \/ IsOpen /\ toPage' = Append(toPage, Carry(peer))
         \/ toPage' = toPage
  BY <1>3 DEF ToPage
<1>5. RequestsOK' /\ Grows(requests, requests')
  BY <1>1, GrowsOrNot DEF RequestsOK
<1>6. /\ Grows(texts, texts') /\ IsSeq(texts')
      /\ Len(texts') \in Nat /\ Len(texts') \in 1..Len(texts') /\ texts'[Len(texts')] = t
      /\ \A i \in 1..Len(texts) : /\ i \in 1..Len(texts')
                                  /\ Asks(requests, texts[i]) => Asks(requests', texts'[i])
      /\ Queue(toBroker, I) /\ Queue(toPage, J)
  BY <1>4, <1>5, TextAdded
<1>7. Len(texts') \in J
  BY <1>1, <1>3, <1>6, Zenon DEF MasterTexts
<1>8. IsAddress(peer)
  BY DEF QueuesOK
<1>9. Queue(toPage', J) /\ Hellos(toPage') = Hellos(toPage)
  <2> DEFINE m == Carry(peer)
  <2>1. IsFrame(m, J) /\ m.op # HELLO
    <3> HIDE DEF J
    <3> QED
      BY <1>6, <1>7, <1>8, SendIsFrame DEF Carry
  <2> HIDE DEF J, m
  <2>2. CASE toPage' = toPage
    BY <1>6, <2>2
  <2>3. CASE toPage' = Append(toPage, m)
    BY <1>6, <2>1, <2>3, QueueLonger
  <2> QED
    BY <1>4, <2>2, <2>3 DEF m
<1>10. TextsOK'
  <2>1. \A i \in pending' : i \in 1..Len(texts') /\ Asks(requests', texts'[i])
    BY <1>3, <1>6 DEF TextsOK
  <2> QED
    BY <1>1, <1>6, <2>1 DEF TextsOK
<1>11. QueuesOK'
  BY <1>1, <1>6, <1>9 DEF QueuesOK
<1>12. HelloOK'
  <2>1. Opening' = Opening /\ (Opening => toPage' = toPage)
    BY <1>1, <1>4 DEF Opening, IsOpen
  <2> QED
    BY <1>1, <1>9, <2>1 DEF HelloOK, HelloAhead
<1> QED
  BY <1>5, <1>10, <1>11, <1>12 DEF BusInv

(* Every step keeps the invariant. *)
LEMMA BusStep == BusInv /\ [Next]_vars => BusInv'
<1> SUFFICES ASSUME BusInv, [Next]_vars
             PROVE  BusInv'
  OBVIOUS
<1>1. CASE UserStep
  BY <1>1, UserSteps DEF UserStep
<1>2. CASE PageStep
  BY <1>2, OpeningSteps, HelloSteps, MessageSteps DEF PageStep
<1>3. CASE MasterStep
  BY <1>3, BrokerSteps, MasterSteps, AnswerSteps DEF MasterStep
<1>4. CASE MasterUpdates
  BY <1>4, AnswerSteps
<1>5. CASE EndpointCloses
  BY <1>5, OpeningSteps
<1>6. CASE UNCHANGED vars
  BY <1>6 DEF vars, pageVars, masterVars, BusInv, RequestsOK, TextsOK, QueuesOK, HelloOK,
              Opening, HelloAhead
<1> QED
  BY <1>1, <1>2, <1>3, <1>4, <1>5, <1>6 DEF Next

(* In whatever order the Master answers, whatever name the broker gives the page
   and whenever its script is ready: an answer calls the callback of the request
   it answers, and no other (rmb-amb.js, request and dispatchFun). *)
THEOREM AnswerReachesItsAskerAlways == Spec => []AnswerReachesItsAsker
<1>1. BusInv => AnswerReachesItsAsker
  BY DEF BusInv, RequestsOK, IsSeq, AnswerReachesItsAsker
<1> QED
  BY BusInit, BusStep, <1>1, PTL DEF Spec
=============================================================================
