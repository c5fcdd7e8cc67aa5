---------------------------- MODULE FramesProofs ----------------------------
(***************************************************************************)
(* Theorems of Bytes and Frames, for all messages, registrations and       *)
(* limits: what is encoded is decoded again, however the stream is cut.    *)
(***************************************************************************)
EXTENDS Frames, SequenceTheorems, WellFoundedInduction, TLAPS

-----------------------------------------------------------------------------
(* Induction and recursion over numbers, with sets in place of predicates. *)
LEMMA LeastNumber ==
  ASSUME NEW T \in SUBSET Nat, T # {}
  PROVE  \E n \in T : \A m \in T : n <= m
<1>1. PICK n \in T : \A m \in T : ~ (<<m, n>> \in OpToRel(<, Nat))
  BY NatLessThanWellFounded, WFMin
<1>2. \A m \in T : ~ (m < n)
  BY <1>1 DEF OpToRel
<1> QED
  BY <1>2

LEMMA Induction ==
  ASSUME NEW T, 0 \in T, \A n \in Nat : n \in T => n + 1 \in T
  PROVE  Nat \subseteq T
<1> SUFFICES ASSUME Nat \ T # {} PROVE FALSE
  OBVIOUS
<1>1. PICK n \in Nat \ T : \A m \in Nat \ T : n <= m
  BY LeastNumber
<1>2. n # 0 /\ n - 1 \in Nat /\ ~ (n <= n - 1) /\ (n - 1) + 1 = n
  BY <1>1
<1>3. n - 1 \in T
  BY <1>1, <1>2
<1> QED
  BY <1>2, <1>3, <1>1

(* A function that is defined by recursion from 0 to N exists.             *)
Iterates(g, S, c, N, next) ==
  /\ g \in [0..N -> S]
  /\ g[0] = c
  /\ \A i \in 1..N : g[i] = next[i][g[i - 1]]

LEMMA Recursion ==
  ASSUME NEW S, NEW c \in S, NEW N \in Nat, NEW next \in [1..N -> [S -> S]]
  PROVE  \E g : Iterates(g, S, c, N, next)
<1> DEFINE Upto(n, g) == /\ g[0] = c
                         /\ \A i \in 1..n : g[i] = next[i][g[i - 1]]
           T == {n \in Nat : n <= N => \E g \in [0..n -> S] : Upto(n, g)}
<1>1. 0 \in T
  <2> DEFINE g == [i \in 0..0 |-> c]
  <2>1. g \in [0..0 -> S] /\ Upto(0, g)
    OBVIOUS
  <2> QED
    BY <2>1
<1>2. ASSUME NEW n \in Nat, n \in T PROVE n + 1 \in T
  <2> SUFFICES ASSUME n + 1 <= N
               PROVE  \E g \in [0..(n + 1) -> S] : Upto(n + 1, g)
    OBVIOUS
  <2>1. PICK g \in [0..n -> S] : Upto(n, g)
    BY <1>2
  <2>2. g[n] \in S /\ n + 1 \in 1..N /\ (n + 1) - 1 = n
    OBVIOUS
  <2> DEFINE h == [i \in 0..(n + 1) |-> IF i = n + 1 THEN next[n + 1][g[n]] ELSE g[i]]
  <2>3. next[n + 1][g[n]] \in S
    BY <2>2
  <2>4. h \in [0..(n + 1) -> S]
    BY <2>3
  <2>5. h[0] = c
    BY <2>1
  <2>6. ASSUME NEW i \in 1..(n + 1) PROVE h[i] = next[i][h[i - 1]]
    <3>1. CASE i = n + 1
      <4>1. h[n + 1] = next[n + 1][g[n]] /\ h[n] = g[n]
        BY <2>2
      <4> QED
        BY <3>1, <2>2, <4>1
    <3>2. CASE i # n + 1
      <4>1. i \in 1..n /\ i - 1 \in 0..n /\ i - 1 # n + 1
        BY <3>2
      <4>2. h[i] = g[i] /\ h[i - 1] = g[i - 1]
        BY <3>2, <4>1
      <4> QED
        BY <4>1, <4>2, <2>1
    <3> QED
      BY <3>1, <3>2
  <2> HIDE DEF h
  <2> QED
    BY <2>4, <2>5, <2>6
<1>3. Nat \subseteq T
  <2> HIDE DEF T
  <2> QED
    BY <1>1, <1>2, Induction
<1> QED
  BY <1>3 DEF Iterates

-----------------------------------------------------------------------------
(* The definitions by recursion. *)
Byte == 0..255

Shifts(f, n, w) ==
  /\ f \in [0..w -> Nat]
  /\ f[0] = n
  /\ \A i \in 1..w : f[i] = f[i - 1] \div 256

LowBytes(f, w) == [i \in 1..w |-> f[i - 1] % 256]

LEMMA LittleEndianIs ==
  ASSUME NEW n \in Nat, NEW w \in Nat
  PROVE  \E f : Shifts(f, n, w) /\ LittleEndian(n, w) = LowBytes(f, w)
<1> DEFINE next == [i \in 1..w |-> [v \in Nat |-> v \div 256]]
<1>1. next \in [1..w -> [Nat -> Nat]]
  OBVIOUS
<1>2. PICK g : Iterates(g, Nat, n, w, next)
  <2> HIDE DEF next
  <2> QED
    BY <1>1, Recursion
<1>3. ASSUME NEW i \in 1..w PROVE g[i] = g[i - 1] \div 256
  <2>1. next[i] = [v \in Nat |-> v \div 256]
    OBVIOUS
  <2> HIDE DEF next
  <2>2. g[i - 1] \in Nat /\ g[i] = next[i][g[i - 1]]
    BY <1>2 DEF Iterates
  <2> QED
    BY <2>1, <2>2
<1> DEFINE Rec(h) == [i \in 0..w |-> IF i = 0 THEN n ELSE h[i - 1] \div 256]
           f == CHOOSE h : h = Rec(h)
<1>4. g = Rec(g)
  BY <1>2, <1>3 DEF Iterates
<1>5. f = Rec(f)
  <2> HIDE DEF Rec
  <2> QED
    BY <1>4
<1>6. LittleEndian(n, w) = LowBytes(f, w)
  BY DEF LittleEndian, LowBytes
<1> HIDE DEF f
<1>7. f[0] = n /\ \A i \in 1..w : f[i] = f[i - 1] \div 256
  BY <1>5
<1> DEFINE T == {k \in Nat : k <= w => f[k] \in Nat}
<1>8. Nat \subseteq T
  <2>1. 0 \in T
    BY <1>7
  <2>2. ASSUME NEW k \in Nat, k \in T PROVE k + 1 \in T
    <3> SUFFICES ASSUME k + 1 <= w PROVE f[k + 1] \in Nat
      OBVIOUS
    <3>1. f[k + 1] = f[k] \div 256 /\ f[k] \in Nat
      BY <1>7, <2>2
    <3> QED
      BY <3>1
  <2> HIDE DEF T
  <2> QED
    BY <2>1, <2>2, Induction
<1>9. f \in [0..w -> Nat]
  <2>1. \A k \in 0..w : f[k] \in Nat
    BY <1>8
  <2> QED
    BY <1>5, <2>1
<1> QED
  BY <1>6, <1>7, <1>9 DEF Shifts

Gathers(f, b) ==
  /\ f \in [0..Len(b) -> Nat]
  /\ f[0] = 0
  /\ \A i \in 1..Len(b) : f[i] = b[Len(b) + 1 - i] + 256 * f[i - 1]

LEMMA FromBytesIs ==
  ASSUME NEW b \in Seq(Nat)
  PROVE  \E f : Gathers(f, b) /\ FromBytes(b) = f[Len(b)]
<1> DEFINE N == Len(b)
           next == [i \in 1..N |-> [v \in Nat |-> b[N + 1 - i] + 256 * v]]
<1>0. N \in Nat /\ \A i \in 1..N : N + 1 - i \in 1..N /\ b[N + 1 - i] \in Nat
  <2>1. N \in Nat
    BY LenProperties
  <2>2. ASSUME NEW i \in 1..N PROVE N + 1 - i \in 1..N
    BY <2>1
  <2> QED
    BY <2>1, <2>2, ElementOfSeq
<1>1. next \in [1..N -> [Nat -> Nat]]
  <2> HIDE DEF N
  <2> QED
    BY <1>0
<1>2. PICK g : Iterates(g, Nat, 0, N, next)
  <2> HIDE DEF next, N
  <2> QED
    BY <1>0, <1>1, Recursion
<1>3. ASSUME NEW i \in 1..N PROVE g[i] = b[N + 1 - i] + 256 * g[i - 1]
  <2>1. next[i] = [v \in Nat |-> b[N + 1 - i] + 256 * v]
    OBVIOUS
  <2> HIDE DEF next, N
  <2>2. g[i - 1] \in Nat /\ g[i] = next[i][g[i - 1]]
    BY <1>0, <1>2 DEF Iterates
  <2> QED
    BY <2>1, <2>2
<1> DEFINE Rec(h) == [i \in 0..N |-> IF i = 0 THEN 0 ELSE b[N + 1 - i] + 256 * h[i - 1]]
           f == CHOOSE h : h = Rec(h)
<1>4. g = Rec(g)
  <2> HIDE DEF N, next
  <2> QED
    BY <1>0, <1>2, <1>3 DEF Iterates
<1>5. f = Rec(f)
  <2> HIDE DEF Rec
  <2> QED
    BY <1>4
<1>6. FromBytes(b) = f[Len(b)]
  BY DEF FromBytes
<1> HIDE DEF f, N
<1>7. f[0] = 0 /\ \A i \in 1..N : f[i] = b[N + 1 - i] + 256 * f[i - 1]
  BY <1>0, <1>5
<1> DEFINE T == {k \in Nat : k <= N => f[k] \in Nat}
<1>8. Nat \subseteq T
  <2>1. 0 \in T
    BY <1>7
  <2>2. ASSUME NEW k \in Nat, k \in T PROVE k + 1 \in T
    <3> SUFFICES ASSUME k + 1 <= N PROVE f[k + 1] \in Nat
      OBVIOUS
    <3>1. k + 1 \in 1..N /\ (k + 1) - 1 = k /\ f[k] \in Nat
      BY <1>0, <2>2
    <3>2. f[k + 1] = b[N + 1 - (k + 1)] + 256 * f[k] /\ b[N + 1 - (k + 1)] \in Nat
      BY <1>0, <1>7, <3>1
    <3> QED
      BY <3>1, <3>2
  <2> HIDE DEF T
  <2> QED
    BY <2>1, <2>2, Induction
<1>9. f \in [0..N -> Nat]
  <2>1. \A k \in 0..N : f[k] \in Nat
    BY <1>0, <1>8
  <2> QED
    BY <1>5, <2>1
<1> QED
  BY <1>6, <1>7, <1>9 DEF N, Gathers

-----------------------------------------------------------------------------
(* A number of w bytes is read back from them.                             *)
LEMMA LittleEndianBytes ==
  ASSUME NEW n \in Nat, NEW w \in Nat
  PROVE  /\ LittleEndian(n, w) \in Seq(Byte)
         /\ Len(LittleEndian(n, w)) = w
<1>1. PICK f : Shifts(f, n, w) /\ LittleEndian(n, w) = LowBytes(f, w)
  BY LittleEndianIs
<1>2. ASSUME NEW i \in 1..w PROVE f[i - 1] % 256 \in Byte
  <2>1. f[i - 1] \in Nat
    BY <1>1 DEF Shifts
  <2> QED
    BY <2>1 DEF Byte
<1>3. LowBytes(f, w) \in Seq(Byte) /\ Len(LowBytes(f, w)) = w
  BY <1>2 DEF LowBytes
<1> QED
  BY <1>1, <1>3

LEMMA ShiftsOnce ==
  ASSUME NEW n \in Nat, NEW w \in Nat, NEW f, Shifts(f, n, w)
  PROVE  LittleEndian(n, w) = LowBytes(f, w)
<1>1. PICK g : Shifts(g, n, w) /\ LittleEndian(n, w) = LowBytes(g, w)
  BY LittleEndianIs
<1> DEFINE T == {k \in Nat : k <= w => g[k] = f[k]}
<1>2. Nat \subseteq T
  <2>1. 0 \in T
    BY <1>1 DEF Shifts
  <2>2. ASSUME NEW k \in Nat, k \in T PROVE k + 1 \in T
    <3> SUFFICES ASSUME k + 1 <= w PROVE g[k + 1] = f[k + 1]
      OBVIOUS
    <3>1. g[k] = f[k] /\ k + 1 \in 1..w /\ (k + 1) - 1 = k
      BY <2>2
    <3> QED
      BY <3>1, <1>1 DEF Shifts
  <2> HIDE DEF T
  <2> QED
    BY <2>1, <2>2, Induction
<1>3. \A i \in 1..w : g[i - 1] = f[i - 1]
  BY <1>2
<1>4. LowBytes(g, w) = LowBytes(f, w)
  BY <1>3 DEF LowBytes
<1> QED
  BY <1>1, <1>4

LEMMA ReadsBack ==
  ASSUME NEW n \in Nat, NEW w \in Nat, NEW f, Shifts(f, n, w), f[w] = 0
  PROVE  FromBytes(LittleEndian(n, w)) = n
<1> DEFINE b == LittleEndian(n, w)
<1>1. b = LowBytes(f, w)
  BY ShiftsOnce
<1>2. b \in Seq(Nat) /\ Len(b) = w
  <2>1. LittleEndian(n, w) \in Seq(Byte) /\ Len(LittleEndian(n, w)) = w
    BY LittleEndianBytes
  <2>2. Byte \subseteq Nat
    BY DEF Byte
  <2> QED
    BY <2>1, <2>2, SeqMonotonic
<1>3. PICK g : Gathers(g, b) /\ FromBytes(b) = g[Len(b)]
  <2> HIDE DEF b
  <2> QED
    BY <1>2, FromBytesIs
<1> DEFINE T == {k \in Nat : k <= w => g[k] = f[w - k]}
<1>4. Nat \subseteq T
  <2> HIDE DEF b
  <2>1. 0 \in T
    BY <1>2, <1>3 DEF Gathers
  <2>2. ASSUME NEW k \in Nat, k \in T PROVE k + 1 \in T
    <3> SUFFICES ASSUME k + 1 <= w PROVE g[k + 1] = f[w - (k + 1)]
      OBVIOUS
    <3> DEFINE i == w - (k + 1)
    <3>1. /\ i \in 0..w /\ i + 1 \in 1..w /\ (i + 1) - 1 = i /\ w - k = i + 1
          /\ k + 1 \in 1..w /\ (k + 1) - 1 = k /\ w + 1 - (k + 1) = i + 1
      OBVIOUS
    <3> HIDE DEF i
    <3>2. g[k] = f[i + 1]
      BY <2>2, <3>1
    <3>3. f[i + 1] = f[i] \div 256 /\ f[i] \in Nat
      BY <3>1 DEF Shifts
    <3>4. b[i + 1] = f[i] % 256
      BY <1>1, <3>1 DEF LowBytes
    <3>5. g[k + 1] = b[i + 1] + 256 * g[k]
      BY <1>2, <1>3, <3>1 DEF Gathers
    <3>6. g[k + 1] = (f[i] % 256) + 256 * (f[i] \div 256)
      BY <3>2, <3>3, <3>4, <3>5
    <3>7. g[k + 1] = f[i]
      BY <3>3, <3>6
    <3> QED
      BY <3>7 DEF i
  <2> HIDE DEF T
  <2> QED
    BY <2>1, <2>2, Induction
<1>5. g[w] = f[0]
  <2>1. w \in T
    BY <1>4
  <2> QED
    BY <2>1
<1> QED
  BY <1>2, <1>3, <1>5 DEF Shifts

(* 256 to the power of w, the numbers that w bytes hold.                   *)
Power(w) == LET p[i \in 0..w] == IF i = 0 THEN 1 ELSE 256 * p[i - 1] IN p[w]

Powers(p, w) ==
  /\ p \in [0..w -> Nat]
  /\ p[0] = 1
  /\ \A i \in 1..w : p[i] = 256 * p[i - 1]

LEMMA PowerIs ==
  ASSUME NEW w \in Nat
  PROVE  \E p : Powers(p, w) /\ Power(w) = p[w]
<1> DEFINE next == [i \in 1..w |-> [v \in Nat |-> 256 * v]]
<1>1. next \in [1..w -> [Nat -> Nat]]
  OBVIOUS
<1>2. PICK g : Iterates(g, Nat, 1, w, next)
  <2>1. 1 \in Nat
    OBVIOUS
  <2> HIDE DEF next
  <2> QED
    BY <1>1, <2>1, Recursion
<1>3. ASSUME NEW i \in 1..w PROVE g[i] = 256 * g[i - 1]
  <2>1. next[i] = [v \in Nat |-> 256 * v]
    OBVIOUS
  <2> HIDE DEF next
  <2>2. g[i - 1] \in Nat /\ g[i] = next[i][g[i - 1]]
    BY <1>2 DEF Iterates
  <2> QED
    BY <2>1, <2>2
<1> DEFINE Rec(h) == [i \in 0..w |-> IF i = 0 THEN 1 ELSE 256 * h[i - 1]]
           f == CHOOSE h : h = Rec(h)
<1>4. g = Rec(g)
  BY <1>2, <1>3 DEF Iterates
<1>5. f = Rec(f)
  <2> HIDE DEF Rec
  <2> QED
    BY <1>4
<1>6. Power(w) = f[w]
  BY DEF Power
<1> HIDE DEF f
<1>7. f[0] = 1 /\ \A i \in 1..w : f[i] = 256 * f[i - 1]
  BY <1>5
<1> DEFINE T == {k \in Nat : k <= w => f[k] \in Nat}
<1>8. Nat \subseteq T
  <2>1. 0 \in T
    BY <1>7
  <2>2. ASSUME NEW k \in Nat, k \in T PROVE k + 1 \in T
    <3> SUFFICES ASSUME k + 1 <= w PROVE f[k + 1] \in Nat
      OBVIOUS
    <3>1. f[k + 1] = 256 * f[k] /\ f[k] \in Nat
      BY <1>7, <2>2
    <3> QED
      BY <3>1
  <2> HIDE DEF T
  <2> QED
    BY <2>1, <2>2, Induction
<1>9. f \in [0..w -> Nat]
  <2>1. \A k \in 0..w : f[k] \in Nat
    BY <1>8
  <2> QED
    BY <1>5, <2>1
<1> QED
  BY <1>6, <1>7, <1>9 DEF Powers

LEMMA PowersOnce ==
  ASSUME NEW w \in Nat, NEW p, Powers(p, w), NEW v \in 0..w
  PROVE  Power(v) = p[v]
<1>1. PICK q : Powers(q, v) /\ Power(v) = q[v]
  BY PowerIs
<1> DEFINE T == {k \in Nat : k <= v => q[k] = p[k]}
<1>2. Nat \subseteq T
  <2>1. 0 \in T
    BY <1>1 DEF Powers
  <2>2. ASSUME NEW k \in Nat, k \in T PROVE k + 1 \in T
    <3> SUFFICES ASSUME k + 1 <= v PROVE q[k + 1] = p[k + 1]
      OBVIOUS
    <3>1. q[k] = p[k] /\ k + 1 \in 1..v /\ k + 1 \in 1..w /\ (k + 1) - 1 = k
      BY <2>2
    <3> QED
      BY <3>1, <1>1 DEF Powers
  <2> HIDE DEF T
  <2> QED
    BY <2>1, <2>2, Induction
<1>3. v \in Nat
  OBVIOUS
<1> QED
  BY <1>1, <1>2, <1>3

LEMMA PowerSteps ==
  /\ Power(0) = 1
  /\ \A w \in Nat : Power(w) \in Nat /\ Power(w + 1) = 256 * Power(w)
<1>1. Power(0) = 1
  <2>1. 0 \in Nat
    OBVIOUS
  <2>2. PICK p : Powers(p, 0) /\ Power(0) = p[0]
    BY <2>1, PowerIs, Zenon
  <2> QED
    BY <2>2 DEF Powers
<1>2. ASSUME NEW w \in Nat PROVE Power(w) \in Nat /\ Power(w + 1) = 256 * Power(w)
  <2>1. w + 1 \in Nat /\ w \in 0..(w + 1) /\ w + 1 \in 1..(w + 1) /\ (w + 1) - 1 = w
    OBVIOUS
  <2>2. PICK p : Powers(p, w + 1) /\ Power(w + 1) = p[w + 1]
    BY <2>1, PowerIs, Zenon
  <2>3. Power(w) = p[w]
    BY <2>1, <2>2, PowersOnce
  <2> QED
    BY <2>1, <2>2, <2>3 DEF Powers
<1> QED
  BY <1>1, <1>2

LEMMA NumberRead ==
  ASSUME NEW n \in Nat, NEW w \in Nat, n < Power(w)
  PROVE  FromBytes(LittleEndian(n, w)) = n
<1>1. PICK f : Shifts(f, n, w)
  BY LittleEndianIs
<1> DEFINE T == {k \in Nat : k <= w => f[k] < Power(w - k)}
<1>2. Nat \subseteq T
  <2>1. 0 \in T
    BY <1>1 DEF Shifts
  <2>2. ASSUME NEW k \in Nat, k \in T PROVE k + 1 \in T
    <3> SUFFICES ASSUME k + 1 <= w PROVE f[k + 1] < Power(w - (k + 1))
      OBVIOUS
    <3> DEFINE j == w - (k + 1)
    <3>1. j \in Nat /\ j + 1 = w - k /\ k + 1 \in 1..w /\ (k + 1) - 1 = k /\ k \in 0..w
      OBVIOUS
    <3> HIDE DEF j
    <3>2. f[k] < Power(j + 1) /\ Power(j) \in Nat /\ Power(j + 1) = 256 * Power(j)
      BY <2>2, <3>1, PowerSteps
    <3>3. f[k + 1] = f[k] \div 256 /\ f[k] \in Nat
      BY <1>1, <3>1 DEF Shifts
    <3>4. f[k + 1] < Power(j)
      BY <3>2, <3>3
    <3> QED
      BY <3>4 DEF j
  <2> HIDE DEF T
  <2> QED
    BY <2>1, <2>2, Induction
<1>3. f[w] = 0
  <2>1. w \in T /\ w - w = 0
    BY <1>2
  <2>2. f[w] < Power(0) /\ f[w] \in Nat
    BY <1>1, <2>1 DEF Shifts
  <2> QED
    BY <2>2, PowerSteps
<1> QED
  BY <1>1, <1>3, ReadsBack

-----------------------------------------------------------------------------
(* Strings are read back from what precedes the rest.                      *)
LEMMA NumberParsed ==
  ASSUME NEW n \in Nat, NEW w \in Nat, n < Power(w)
  PROVE  ParseUIntLE(LittleEndian(n, w), w) = n
<1>1. FromBytes(LittleEndian(n, w)) = n
  BY NumberRead
<1>2. Len(LittleEndian(n, w)) = w
  BY LittleEndianBytes
<1>3. ~ (Len(LittleEndian(n, w)) > w)
  BY <1>2
<1> QED
  BY <1>1, <1>3 DEF ParseUIntLE

LEMMA ByteIsNat == Byte \subseteq Nat /\ Seq(Byte) \subseteq Seq(Nat)
<1>1. Byte \subseteq Nat
  BY DEF Byte
<1> QED
  BY <1>1, SeqMonotonic

Grouped(a, b, c) == (a \o b) \o c = a \o (b \o c)

LEMMA Groups ==
  ASSUME NEW a \in Seq(Byte), NEW b \in Seq(Byte), NEW c \in Seq(Byte)
  PROVE  Grouped(a, b, c)
BY ConcatAssociative DEF Grouped

LEMMA Regroup ==
  ASSUME NEW a \in Seq(Byte), NEW b \in Seq(Byte), NEW c \in Seq(Byte)
  PROVE  (a \o b) \o c = a \o (b \o c)
BY ConcatAssociative

LEMMA Joins ==
  ASSUME NEW a \in Seq(Byte), NEW b \in Seq(Byte)
  PROVE  a \o b \in Seq(Byte) /\ Len(a \o b) = Len(a) + Len(b)
BY ConcatProperties

LEMMA ReadSplit ==
  ASSUME NEW s \in Seq(Byte), NEW t \in Seq(Byte)
  PROVE  /\ Read(s \o t, Len(s)) = [value |-> s, rest |-> t]
         /\ [value |-> s, rest |-> t] # Throws
<1> DEFINE b == s \o t
<1>1. b \in Seq(Byte) /\ Len(b) = Len(s) + Len(t) /\ Len(s) \in Nat /\ Len(t) \in Nat
  BY ConcatProperties, LenProperties
<1>2. SubSeq(b, 1, Len(s)) = s /\ SubSeq(b, Len(s) + 1, Len(b)) = t
  <2> DEFINE x == SubSeq(b, 1, Len(s))
             y == SubSeq(b, Len(s) + 1, Len(b))
  <2>1. x \in Seq(Byte) /\ Len(x) = Len(s) /\ \A i \in 1..Len(s) : x[i] = s[i]
    BY <1>1, ConcatProperties
  <2>2. y \in Seq(Byte) /\ Len(y) = Len(t) /\ \A i \in 1..Len(t) : y[i] = t[i]
    BY <1>1, ConcatProperties
  <2> HIDE DEF x, y
  <2>3. x = s
    BY <2>1, SeqEqual
  <2>4. y = t
    BY <2>2, SeqEqual
  <2> QED
    BY <2>3, <2>4 DEF x, y
<1>3. [value |-> s, rest |-> t] \in [value : Seq(Nat), rest : Seq(Nat)]
  BY ByteIsNat
<1> HIDE DEF b
<1>4. ~ (Len(b) < Len(s))
  BY <1>1
<1>5. Read(b, Len(s)) = [value |-> s, rest |-> t]
  BY <1>2, <1>4 DEF Read
<1> QED
  BY <1>3, <1>5, ThrowsAssumption DEF b

LEMMA LengthRead ==
  ASSUME NEW n \in Nat, n < Power(4), NEW t \in Seq(Byte)
  PROVE  /\ LittleEndian(n, 4) \in Seq(Byte)
         /\ Len(LittleEndian(n, 4)) = 4
         /\ ParseUIntLE(LittleEndian(n, 4), 4) = n
         /\ Read(LittleEndian(n, 4) \o t, 4) = [value |-> LittleEndian(n, 4), rest |-> t]
         /\ Read(LittleEndian(n, 4) \o t, 4) # Throws
<1>1. LittleEndian(n, 4) \in Seq(Byte) /\ Len(LittleEndian(n, 4)) = 4
  <2>1. 4 \in Nat
    OBVIOUS
  <2> QED
    BY <2>1, LittleEndianBytes, Zenon
<1>2. ParseUIntLE(LittleEndian(n, 4), 4) = n
  <2>1. 4 \in Nat
    OBVIOUS
  <2> QED
    BY <2>1, NumberParsed, Zenon
<1> DEFINE b == LittleEndian(n, 4)
<1> HIDE DEF b
<1>3. Read(b \o t, 4) = [value |-> b, rest |-> t] /\ [value |-> b, rest |-> t] # Throws
  <2>1. b \in Seq(Byte) /\ Len(b) = 4
    BY <1>1 DEF b
  <2> QED
    BY <2>1, ReadSplit
<1> QED
  BY <1>1, <1>2, <1>3 DEF b

LEMMA StringRead ==
  ASSUME NEW s \in Seq(Byte), Len(s) < Power(4), NEW t \in Seq(Byte)
  PROVE  /\ WithLength(s) \in Seq(Byte)
         /\ Len(WithLength(s)) = 4 + Len(s)
         /\ ReadString(WithLength(s) \o t) = [value |-> s, rest |-> t]
         /\ ReadString(WithLength(s) \o t) # Throws
<1> DEFINE b == LittleEndian(Len(s), 4)
<1>1. Len(s) \in Nat
  BY LenProperties
<1>2. /\ b \in Seq(Byte) /\ Len(b) = 4 /\ ParseUIntLE(b, 4) = Len(s)
      /\ s \o t \in Seq(Byte)
      /\ Read(b \o (s \o t), 4) = [value |-> b, rest |-> s \o t]
      /\ Read(b \o (s \o t), 4) # Throws
  <2>1. s \o t \in Seq(Byte)
    BY ConcatProperties
  <2> QED
    BY <1>1, <2>1, LengthRead
<1>3. WithLength(s) = b \o s
  BY DEF WithLength
<1> HIDE DEF b
<1>4. (b \o s) \o t = b \o (s \o t)
  BY <1>2, Regroup
<1>5. Read(s \o t, Len(s)) = [value |-> s, rest |-> t] /\ [value |-> s, rest |-> t] # Throws
  BY ReadSplit
<1>6. ReadString((b \o s) \o t) = [value |-> s, rest |-> t]
  <2> DEFINE r == Read((b \o s) \o t, 4)
  <2>1. r # Throws /\ r.value = b /\ r.rest = s \o t
    BY <1>2, <1>4
  <2> HIDE DEF r
  <2>2. Read(r.rest, ParseUIntLE(r.value, 4)) = [value |-> s, rest |-> t]
    BY <1>2, <1>5, <2>1
  <2> QED
    BY <2>1, <2>2 DEF ReadString, r
<1>7. b \o s \in Seq(Byte) /\ Len(b \o s) = 4 + Len(s)
  <2>1. b \o s \in Seq(Byte) /\ Len(b \o s) = Len(b) + Len(s)
    BY <1>2, ConcatProperties, Zenon
  <2> QED
    BY <1>2, <2>1
<1> QED
  BY <1>3, <1>5, <1>6, <1>7

-----------------------------------------------------------------------------
(* Messages whose payload has a length that four bytes hold.               *)
Payload(m) == WithLength(m.class) \o WithLength(m.type) \o WithLength(m.content)

Messages == [class : Seq(Byte), type : Seq(Byte), content : Seq(Byte)]

Sendable == {m \in Messages : Len(Payload(m)) < Power(4)}

LEMMA MakerIsFirst ==
  ASSUME NEW class, NEW type, NEW content
  PROVE  LET makers == {i \in DOMAIN Registrations :
                          /\ Registrations[i].class = class
                          /\ Registrations[i].type = type}
         IN  MakeMessage(class, type, content) =
               IF makers = {} THEN Throws
               ELSE [class |-> class, type |-> type, content |-> content,
                     maker |-> CHOOSE i \in makers : \A k \in makers : i <= k]
<1> DEFINE makers == {i \in DOMAIN Registrations : /\ Registrations[i].class = class
                                                   /\ Registrations[i].type = type}
           kept == {i \in Implementations : /\ Registrations[i].class = class
                                            /\ Registrations[i].type = type}
<1>0. /\ DOMAIN Registrations = 1..Len(Registrations)
      /\ Len(Registrations) \in Nat
  BY RegistrationsAssumption, LenProperties
<1>1. CASE makers = {}
  <2>1. kept = {}
    BY <1>1 DEF Implementations
  <2> QED
    BY <1>1, <2>1 DEF MakeMessage
<1>2. CASE makers # {}
  <2>1. makers \in SUBSET Nat
    BY <1>0
  <2>2. PICK n \in makers : \A m \in makers : n <= m
    <3> HIDE DEF makers
    <3> QED
      BY <1>2, <2>1, LeastNumber
  <2>3. n \in kept
    <3>1. \A k \in 1..(n - 1) : k \notin makers
      BY <2>1, <2>2
    <3>2. \A k \in 1..(n - 1) : k \in DOMAIN Registrations
      BY <1>0, <2>2
    <3>3. n \in Implementations
      BY <2>2, <3>1, <3>2 DEF Implementations
    <3> QED
      BY <2>2, <3>3
  <2>4. ASSUME NEW i \in kept PROVE i = n
    <3>1. i \in makers /\ i \in Nat /\ n \in Nat /\ n <= i
      BY <1>0, <2>2 DEF Implementations
    <3>2. ~ (n \in 1..(i - 1))
      BY <2>2 DEF Implementations
    <3>3. n >= 1
      BY <1>0, <2>2
    <3> QED
      BY <3>1, <3>2, <3>3
  <2>5. kept = {n}
    BY <2>3, <2>4
  <2>6. (CHOOSE i \in kept : TRUE) = n
    BY <2>5
  <2>7. (CHOOSE i \in makers : \A k \in makers : i <= k) = n
    <3>1. \A i \in makers : (\A k \in makers : i <= k) => i = n
      BY <2>1, <2>2
    <3> HIDE DEF makers
    <3> QED
      BY <2>2, <3>1
  <2> HIDE DEF makers, kept
  <2>8. MakeMessage(class, type, content) =
          IF kept = {} THEN Throws
          ELSE [class |-> class, type |-> type, content |-> content,
                maker |-> CHOOSE i \in kept : TRUE]
    BY DEF MakeMessage, kept
  <2> QED
    BY <1>2, <2>5, <2>6, <2>7, <2>8 DEF makers
<1> QED
  BY <1>1, <1>2

LEMMA PayloadIs ==
  ASSUME NEW m \in Sendable
  PROVE  /\ m.class \in Seq(Byte) /\ Len(m.class) < Power(4)
         /\ m.type \in Seq(Byte) /\ Len(m.type) < Power(4)
         /\ m.content \in Seq(Byte) /\ Len(m.content) < Power(4)
         /\ Payload(m) \in Seq(Byte) /\ Len(Payload(m)) < Power(4)
         /\ Payload(m) = WithLength(m.class)
                            \o (WithLength(m.type) \o (WithLength(m.content) \o <<>>))
<1>1. m.class \in Seq(Byte) /\ m.type \in Seq(Byte) /\ m.content \in Seq(Byte)
  BY DEF Sendable, Messages
<1>2. ASSUME NEW s \in Seq(Byte)
      PROVE  WithLength(s) \in Seq(Byte) /\ Len(WithLength(s)) = 4 + Len(s) /\ Len(s) \in Nat
  <2>1. Len(s) \in Nat /\ 4 \in Nat
    BY LenProperties
  <2>2. LittleEndian(Len(s), 4) \in Seq(Byte) /\ Len(LittleEndian(Len(s), 4)) = 4
    BY <2>1, LittleEndianBytes, Zenon
  <2> DEFINE b == LittleEndian(Len(s), 4)
  <2>3. b \o s \in Seq(Byte) /\ Len(b \o s) = Len(b) + Len(s)
    <3> HIDE DEF b
    <3> QED
      BY <2>2, ConcatProperties, Zenon DEF b
  <2> QED
    BY <2>1, <2>2, <2>3 DEF WithLength
<1> DEFINE A == WithLength(m.class)
           B == WithLength(m.type)
           C == WithLength(m.content)
<1>3. /\ A \in Seq(Byte) /\ Len(A) = 4 + Len(m.class) /\ Len(m.class) \in Nat
      /\ B \in Seq(Byte) /\ Len(B) = 4 + Len(m.type) /\ Len(m.type) \in Nat
      /\ C \in Seq(Byte) /\ Len(C) = 4 + Len(m.content) /\ Len(m.content) \in Nat
  BY <1>1, <1>2
<1>4. Payload(m) = (A \o B) \o C
  BY DEF Payload
<1> HIDE DEF A, B, C
<1>5. A \o B \in Seq(Byte) /\ Len(A \o B) = Len(A) + Len(B)
  BY <1>3, ConcatProperties, Zenon
<1>6. (A \o B) \o C \in Seq(Byte) /\ Len((A \o B) \o C) = Len(A \o B) + Len(C)
  BY <1>3, <1>5, ConcatProperties, Zenon
<1>7. (A \o B) \o C = A \o (B \o (C \o <<>>))
  <2>1. C \o <<>> = C
    BY <1>3, ConcatEmptySeq
  <2>2. C \o <<>> \in Seq(Byte) /\ A \in Seq(Byte) /\ B \in Seq(Byte)
    BY <1>3, <2>1
  <2>3. (A \o B) \o (C \o <<>>) = A \o (B \o (C \o <<>>))
    BY <2>2, Regroup, Zenon
  <2> QED
    BY <2>1, <2>3, Zenon
<1>8. Len(Payload(m)) < Power(4) /\ Power(4) \in Nat
  <2>1. 4 \in Nat
    OBVIOUS
  <2> QED
    BY <2>1, PowerSteps, Zenon DEF Sendable
<1>9. Len(m.class) < Power(4) /\ Len(m.type) < Power(4) /\ Len(m.content) < Power(4)
  <2> DEFINE x == Len(m.class)
             y == Len(m.type)
             z == Len(m.content)
             u == Len(A \o B)
             v == Len(Payload(m))
             p == Power(4)
  <2>1. x \in Nat /\ y \in Nat /\ z \in Nat /\ p \in Nat /\ v < p
    BY <1>3, <1>8
  <2>2. u = (4 + x) + (4 + y)
    BY <1>3, <1>5
  <2>3. v = u + (4 + z)
    BY <1>3, <1>4, <1>6
  <2> HIDE DEF x, y, z, u, v, p
  <2>4. x < p /\ y < p /\ z < p
    BY <2>1, <2>2, <2>3
  <2> QED
    BY <2>4 DEF x, y, z, p
<1> QED
  BY <1>1, <1>4, <1>6, <1>7, <1>8, <1>9 DEF A, B, C

LEMMA DecodeEncode ==
  ASSUME NEW m \in Sendable
  PROVE  Decode(Encode(m)) = Outcome(m)
<1> DEFINE P == Payload(m)
           b == LittleEndian(Len(P), 4)
           frame == Encode(m)
           C == WithLength(m.content) \o <<>>
           B == WithLength(m.type) \o C
<1>1. /\ m.class \in Seq(Byte) /\ Len(m.class) < Power(4)
      /\ m.type \in Seq(Byte) /\ Len(m.type) < Power(4)
      /\ m.content \in Seq(Byte) /\ Len(m.content) < Power(4)
      /\ P \in Seq(Byte) /\ Len(P) < Power(4)
      /\ P = WithLength(m.class) \o B
  BY PayloadIs
<1>2. frame = b \o P
  BY DEF Encode, Payload, WithLength
<1> HIDE DEF P, frame
<1>3. /\ Read(b \o P, 4) = [value |-> b, rest |-> P]
      /\ Read(b \o P, 4) # Throws
      /\ ParseUIntLE(b, 4) = Len(P)
  <2>1. Len(P) \in Nat
    BY <1>1, LenProperties
  <2> QED
    BY <1>1, <2>1, LengthRead, Zenon
<1>4. <<>> \in Seq(Byte) /\ C \in Seq(Byte) /\ B \in Seq(Byte)
  <2>1. <<>> \in Seq(Byte)
    OBVIOUS
  <2>2. WithLength(m.content) \in Seq(Byte) /\ WithLength(m.type) \in Seq(Byte)
    BY <1>1, <2>1, StringRead, Zenon
  <2>3. C \in Seq(Byte)
    BY <2>1, <2>2, ConcatProperties, Zenon
  <2> HIDE DEF C
  <2>4. B \in Seq(Byte)
    BY <2>2, <2>3, ConcatProperties, Zenon
  <2> QED
    BY <2>1, <2>3, <2>4
<1> HIDE DEF b
<1>5. /\ ReadString(P) = [value |-> m.class, rest |-> B] /\ ReadString(P) # Throws
      /\ ReadString(B) = [value |-> m.type, rest |-> C] /\ ReadString(B) # Throws
      /\ ReadString(C) = [value |-> m.content, rest |-> <<>>] /\ ReadString(C) # Throws
  BY <1>1, <1>4, StringRead, Zenon
<1> HIDE DEF B, C
<1>6. Decode(frame) =
        IF Len(frame) > MaxMessageSize THEN Throws
        ELSE MakeMessage(m.class, m.type, m.content)
  <2> DEFINE size    == Read(frame, 4)
             class   == ReadString(size.rest)
             type    == IF class = Throws THEN Throws ELSE ReadString(class.rest)
             content == IF type = Throws THEN Throws ELSE ReadString(type.rest)
  <2>1. size # Throws /\ size.value = b /\ size.rest = P
    BY <1>2, <1>3
  <2> HIDE DEF size
  <2>2. class # Throws /\ class.value = m.class /\ class.rest = B
    BY <1>5, <2>1
  <2> HIDE DEF class
  <2>3. type # Throws /\ type.value = m.type /\ type.rest = C
    BY <1>5, <2>2
  <2> HIDE DEF type
  <2>4. content # Throws /\ content.value = m.content /\ content.rest = <<>>
    BY <1>5, <2>3
  <2> HIDE DEF content
  <2>5. ParseUIntLE(size.value, 4) = Len(size.rest)
    BY <1>3, <2>1
  <2>6. Decode(frame) =
          CASE Len(frame) > MaxMessageSize -> Throws
            [] size = Throws -> Throws
            [] ParseUIntLE(size.value, 4) # Len(size.rest) -> Throws
            [] content = Throws -> Throws
            [] content.rest # <<>> -> Throws
            [] OTHER -> MakeMessage(class.value, type.value, content.value)
    BY DEF Decode, size, class, type, content
  <2> QED
    BY <2>1, <2>2, <2>3, <2>4, <2>5, <2>6
<1>7. Outcome(m) = IF Len(frame) > MaxMessageSize THEN Throws
                   ELSE MakeMessage(m.class, m.type, m.content)
  <2> DEFINE makers == {i \in DOMAIN Registrations :
                          /\ Registrations[i].class = m.class
                          /\ Registrations[i].type = m.type}
             made == [class |-> m.class, type |-> m.type, content |-> m.content,
                      maker |-> CHOOSE i \in makers : \A k \in makers : i <= k]
  <2>1. MakeMessage(m.class, m.type, m.content) = IF makers = {} THEN Throws ELSE made
    BY MakerIsFirst
  <2>2. Outcome(m) = IF makers = {} \/ Len(frame) > MaxMessageSize THEN Throws ELSE made
    BY DEF Outcome, frame
  <2> HIDE DEF makers, made
  <2> QED
    BY <2>1, <2>2
<1> QED
  BY <1>6, <1>7 DEF frame

-----------------------------------------------------------------------------
(* The stream: the frames one after another.                               *)
Joined(g, messages) ==
  /\ g \in [0..Len(messages) -> Seq(Byte)]
  /\ g[0] = <<>>
  /\ \A i \in 1..Len(messages) : g[i] = g[i - 1] \o Encode(messages[i])

LEMMA EncodeIs ==
  ASSUME NEW m \in Sendable
  PROVE  /\ Encode(m) = LittleEndian(Len(Payload(m)), 4) \o Payload(m)
         /\ Payload(m) \in Seq(Byte) /\ Len(Payload(m)) \in Nat
         /\ LittleEndian(Len(Payload(m)), 4) \in Seq(Byte)
         /\ Len(LittleEndian(Len(Payload(m)), 4)) = 4
         /\ ParseUIntLE(LittleEndian(Len(Payload(m)), 4), 4) = Len(Payload(m))
         /\ Encode(m) \in Seq(Byte)
         /\ Len(Encode(m)) = 4 + Len(Payload(m))
<1> DEFINE P == Payload(m)
           b == LittleEndian(Len(P), 4)
<1>1. P \in Seq(Byte) /\ Len(P) < Power(4)
  BY PayloadIs
<1>2. Encode(m) = b \o P
  BY DEF Encode, Payload, WithLength
<1> HIDE DEF P
<1>3. Len(P) \in Nat
  BY <1>1, LenProperties
<1>4. b \in Seq(Byte) /\ Len(b) = 4 /\ ParseUIntLE(b, 4) = Len(P)
  BY <1>1, <1>3, LengthRead, Zenon
<1> HIDE DEF b
<1>5. b \o P \in Seq(Byte) /\ Len(b \o P) = Len(b) + Len(P)
  BY <1>1, <1>4, ConcatProperties, Zenon
<1>6. Len(b \o P) = 4 + Len(P)
  BY <1>4, <1>5
<1> QED
  BY <1>1, <1>2, <1>3, <1>4, <1>5, <1>6 DEF P, b

LEMMA JoinedIs ==
  ASSUME NEW messages \in Seq(Sendable)
  PROVE  \E g : /\ Joined(g, messages)
                /\ g[Len(messages)] =
                     LET all[i \in 0..Len(messages)] ==
                           IF i = 0 THEN <<>> ELSE all[i - 1] \o Encode(messages[i])
                     IN  all[Len(messages)]
<1> DEFINE N == Len(messages)
           next == [i \in 1..N |-> [v \in Seq(Byte) |-> v \o Encode(messages[i])]]
<1>0. N \in Nat /\ \A i \in 1..N : Encode(messages[i]) \in Seq(Byte)
  <2>1. N \in Nat
    BY LenProperties
  <2>2. \A i \in 1..N : messages[i] \in Sendable
    BY ElementOfSeq
  <2> QED
    BY <2>1, <2>2, EncodeIs
<1>1. next \in [1..N -> [Seq(Byte) -> Seq(Byte)]]
  <2> HIDE DEF N
  <2>1. \A i \in 1..N, v \in Seq(Byte) : v \o Encode(messages[i]) \in Seq(Byte)
    BY <1>0, ConcatProperties
  <2> QED
    BY <2>1
<1>2. PICK g : Iterates(g, Seq(Byte), <<>>, N, next)
  <2>1. <<>> \in Seq(Byte)
    OBVIOUS
  <2> HIDE DEF next, N
  <2> QED
    BY <1>0, <1>1, <2>1, Recursion
<1>3. ASSUME NEW i \in 1..N PROVE g[i] = g[i - 1] \o Encode(messages[i])
  <2>1. next[i] = [v \in Seq(Byte) |-> v \o Encode(messages[i])]
    OBVIOUS
  <2> HIDE DEF next, N
  <2>2. g[i - 1] \in Seq(Byte) /\ g[i] = next[i][g[i - 1]]
    BY <1>0, <1>2 DEF Iterates
  <2> QED
    BY <2>1, <2>2
<1> DEFINE Rec(h) == [i \in 0..N |-> IF i = 0 THEN <<>> ELSE h[i - 1] \o Encode(messages[i])]
           f == CHOOSE h : h = Rec(h)
<1>4. g = Rec(g)
  <2> HIDE DEF N, next
  <2>1. g \in [0..N -> Seq(Byte)] /\ g[0] = <<>>
    BY <1>2 DEF Iterates
  <2>2. ASSUME NEW i \in 0..N
        PROVE  g[i] = IF i = 0 THEN <<>> ELSE g[i - 1] \o Encode(messages[i])
    <3>1. CASE i = 0
      BY <2>1, <3>1
    <3>2. CASE i # 0
      <4>1. i \in 1..N
        BY <1>0, <3>2
      <4> QED
        BY <3>2, <4>1, <1>3
    <3> QED
      BY <3>1, <3>2
  <2> QED
    BY <2>1, <2>2, Zenon
<1>5. f = Rec(f)
  <2> HIDE DEF Rec
  <2> QED
    BY <1>4
<1> HIDE DEF f, N, next
<1>6. f[0] = <<>> /\ \A i \in 1..N : f[i] = f[i - 1] \o Encode(messages[i])
  BY <1>0, <1>5
<1> DEFINE T == {k \in Nat : k <= N => f[k] = g[k]}
<1>7. Nat \subseteq T
  <2>1. 0 \in T
    BY <1>2, <1>6 DEF Iterates
  <2>2. ASSUME NEW k \in Nat, k \in T PROVE k + 1 \in T
    <3> SUFFICES ASSUME k + 1 <= N PROVE f[k + 1] = g[k + 1]
      OBVIOUS
    <3>1. f[k] = g[k] /\ k + 1 \in 1..N /\ (k + 1) - 1 = k
      BY <1>0, <2>2
    <3> QED
      BY <3>1, <1>3, <1>6
  <2> HIDE DEF T
  <2> QED
    BY <2>1, <2>2, Induction
<1>8. g[N] = f[N]
  BY <1>0, <1>7
<1>9. Joined(g, messages)
  BY <1>2, <1>3 DEF Iterates, Joined, N
<1> QED
  BY <1>8, <1>9 DEF f, N

(* From the end of one frame on, the stream goes on with the next.         *)
Follows(x, F, y) == \E t \in Seq(Byte) : y = x \o (F \o t)

LEMMA FollowsMore ==
  ASSUME NEW x \in Seq(Byte), NEW F \in Seq(Byte), NEW y, Follows(x, F, y),
         NEW E \in Seq(Byte)
  PROVE  Follows(x, F, y \o E)
<1>1. PICK t \in Seq(Byte) : y = x \o (F \o t)
  BY DEF Follows
<1> DEFINE z == F \o t
<1>2. z \in Seq(Byte) /\ t \o E \in Seq(Byte)
  BY Joins
<1>3. z \o E = F \o (t \o E)
  BY Regroup
<1> HIDE DEF z
<1>4. (x \o z) \o E = x \o (z \o E)
  <2>1. Grouped(x, z, E)
    BY <1>2, Groups, Zenon
  <2> QED
    BY <2>1 DEF Grouped
<1> DEFINE u == t \o E
<1>5. y \o E = x \o (F \o u)
  BY <1>1, <1>3, <1>4, Zenon DEF z
<1>6. u \in Seq(Byte)
  BY <1>2
<1> HIDE DEF u
<1> QED
  BY <1>5, <1>6 DEF Follows

LEMMA StreamSuffix ==
  ASSUME NEW messages \in Seq(Sendable), NEW g, Joined(g, messages),
         NEW k \in Nat, k < Len(messages)
  PROVE  Follows(g[k], Encode(messages[k + 1]), g[Len(messages)])
<1> DEFINE N == Len(messages)
           F == Encode(messages[k + 1])
           T == {j \in Nat : k + 1 + j <= N => Follows(g[k], F, g[k + 1 + j])}
           E(i) == Encode(messages[i])
<1>0. N \in Nat /\ \A i \in 1..N : E(i) \in Seq(Byte)
  <2>1. N \in Nat
    BY LenProperties
  <2>2. \A i \in 1..N : messages[i] \in Sendable
    BY ElementOfSeq
  <2> QED
    BY <2>1, <2>2, EncodeIs
<1>1. k + 1 \in 1..N /\ k \in 0..N /\ (k + 1) - 1 = k /\ k < N
  BY <1>0
<1>2. /\ g \in [0..N -> Seq(Byte)]
      /\ \A i \in 1..N : g[i] = g[i - 1] \o E(i)
  BY DEF Joined
<1>3. F = E(k + 1)
  OBVIOUS
<1> HIDE DEF N, E, F
<1>4. F \in Seq(Byte) /\ g[k] \in Seq(Byte) /\ g[k + 1] = g[k] \o F
  BY <1>0, <1>1, <1>2, <1>3
<1>5. 0 \in T
  <2>1. F \o <<>> = F /\ <<>> \in Seq(Byte)
    BY <1>4, ConcatEmptySeq
  <2>2. Follows(g[k], F, g[k + 1])
    BY <1>4, <2>1 DEF Follows
  <2>3. k + 1 + 0 = k + 1
    OBVIOUS
  <2> QED
    BY <2>2, <2>3
<1>6. ASSUME NEW j \in Nat, j \in T PROVE j + 1 \in T
  <2> SUFFICES ASSUME k + 1 + (j + 1) <= N PROVE Follows(g[k], F, g[k + 1 + (j + 1)])
    OBVIOUS
  <2> DEFINE i == k + 1 + (j + 1)
  <2>1. i \in 1..N /\ i - 1 = k + 1 + j /\ k + 1 + j <= N
    BY <1>0
  <2>2. Follows(g[k], F, g[k + 1 + j])
    BY <1>6, <2>1
  <2> HIDE DEF i, T
  <2>3. g[i] = g[k + 1 + j] \o E(i) /\ E(i) \in Seq(Byte)
    BY <1>0, <1>2, <2>1
  <2>4. Follows(g[k], F, g[i])
    BY <1>4, <2>2, <2>3, FollowsMore
  <2> QED
    BY <2>4 DEF i
<1>7. Nat \subseteq T
  <2> HIDE DEF T
  <2> QED
    BY <1>5, <1>6, Induction
<1>8. Follows(g[k], F, g[N])
  <2> DEFINE j == N - (k + 1)
  <2>1. j \in Nat /\ k + 1 + j = N /\ k + 1 + j <= N
    BY <1>0, <1>1
  <2> HIDE DEF j
  <2>2. j \in T
    <3> HIDE DEF T
    <3> QED
      BY <1>7, <2>1
  <2>3. Follows(g[k], F, g[k + 1 + j])
    BY <2>1, <2>2
  <2> QED
    BY <2>1, <2>3
<1> QED
  BY <1>8 DEF N, F

(* A sequence that is cut in two.                                          *)
LEMMA Cut ==
  ASSUME NEW b \in Seq(Byte), NEW n \in Nat, n <= Len(b)
  PROVE  /\ SubSeq(b, 1, n) \in Seq(Byte)
         /\ Len(SubSeq(b, 1, n)) = n
         /\ SubSeq(b, n + 1, Len(b)) \in Seq(Byte)
         /\ b = SubSeq(b, 1, n) \o SubSeq(b, n + 1, Len(b))
<1>1. Len(b) \in Nat /\ \A i \in 1..Len(b) : b[i] \in Byte
  BY LenProperties, ElementOfSeq
<1>2. SubSeq(b, 1, n) \in Seq(Byte) /\ Len(SubSeq(b, 1, n)) = n
  <2>1. 1 \in Int /\ n \in Int /\ \A i \in 1..n : b[i] \in Byte
    BY <1>1
  <2>2. SubSeq(b, 1, n) \in Seq(Byte) /\ Len(SubSeq(b, 1, n)) = IF 1 <= n THEN n - 1 + 1 ELSE 0
    BY <2>1, SubSeqProperties
  <2> QED
    BY <2>2
<1>3. SubSeq(b, n + 1, Len(b)) \in Seq(Byte)
  <2>1. n + 1 \in Int /\ Len(b) \in Int /\ \A i \in (n + 1)..Len(b) : b[i] \in Byte
    BY <1>1
  <2> QED
    BY <2>1, SubSeqProperties, Zenon
<1>4. SubSeq(b, 1, n) \o SubSeq(b, n + 1, Len(b)) = SubSeq(b, 1, Len(b))
  <2>1. 1 \in 1..Len(b)+1 /\ n \in 1-1..Len(b) /\ Len(b) \in n..Len(b)
    BY <1>1
  <2> QED
    BY <2>1, ConcatAdjacentSubSeq, Zenon
<1> QED
  BY <1>2, <1>3, <1>4, SubSeqFull

SameStream(b, w, x, t) == b \o w = x \o t

InFront(x, b, w, t) ==
  /\ SubSeq(b, 1, Len(x)) = x
  /\ SubSeq(b, Len(x) + 1, Len(b)) \in Seq(Byte)
  /\ SubSeq(b, Len(x) + 1, Len(b)) \o w = t

LEMMA FrontOf ==
  ASSUME NEW b \in Seq(Byte), NEW w \in Seq(Byte), NEW x \in Seq(Byte),
         NEW t \in Seq(Byte), SameStream(b, w, x, t), Len(x) <= Len(b)
  PROVE  InFront(x, b, w, t)
<1> DEFINE front == SubSeq(b, 1, Len(x))
           back == SubSeq(b, Len(x) + 1, Len(b))
<1>1. Len(x) \in Nat /\ Len(b) \in Nat
  BY LenProperties
<1>2. front \in Seq(Byte) /\ Len(front) = Len(x) /\ back \in Seq(Byte) /\ b = front \o back
  BY <1>1, Cut, Zenon
<1> HIDE DEF front, back
<1>0. b \o w = x \o t
  BY DEF SameStream
<1>3. front = x
  <2>1. ASSUME NEW i \in 1..Len(x) PROVE front[i] = x[i]
    <3>1. (front \o back)[i] = front[i] /\ i \in 1..Len(b)
      BY <1>1, <1>2, ConcatProperties
    <3>2. (b \o w)[i] = b[i]
      BY <1>1, <3>1, ConcatProperties
    <3>3. (x \o t)[i] = x[i]
      BY <1>1, ConcatProperties
    <3> QED
      BY <1>0, <1>2, <3>1, <3>2, <3>3
  <2> QED
    BY <1>2, <2>1, SeqEqual
<1>4. x \o (back \o w) = x \o t /\ back \o w \in Seq(Byte)
  <2>1. back \o w \in Seq(Byte)
    BY <1>2, ConcatProperties, Zenon
  <2>2. (x \o back) \o w = x \o (back \o w)
    BY <1>2, Regroup
  <2> QED
    BY <1>0, <1>2, <1>3, <2>1, <2>2
<1>5. back \o w = t
  BY <1>4, ConcatSimplifications, Zenon
<1> QED
  BY <1>2, <1>3, <1>5 DEF front, back, InFront

(* What the parser makes of the front of the stream.                       *)
LEMMA NothingReceived == GetReceivedMessageSize(<<>>) = 0
<1>1. Len(<<>>) < 4
  OBVIOUS
<1> QED
  BY <1>1 DEF GetReceivedMessageSize

LEMMA FrameReceived ==
  ASSUME NEW m \in Sendable, NEW b \in Seq(Byte), NEW w \in Seq(Byte),
         NEW t \in Seq(Byte), b \o w = Encode(m) \o t
  PROVE  /\ GetReceivedMessageSize(b) = Throws => Len(Encode(m)) - 4 > MaxMessageSize
         /\ GetReceivedMessageSize(b) \notin {0, Throws} =>
              /\ GetReceivedMessageSize(b) = Len(Encode(m))
              /\ Len(Encode(m)) <= Len(b)
              /\ Len(Encode(m)) - 4 <= MaxMessageSize
         /\ w = <<>> => GetReceivedMessageSize(b) # 0
<1> DEFINE P == Payload(m)
           h == LittleEndian(Len(P), 4)
           F == Encode(m)
           size == GetReceivedMessageSize(b)
<1>1. /\ F = h \o P /\ P \in Seq(Byte) /\ Len(P) \in Nat
      /\ h \in Seq(Byte) /\ Len(h) = 4 /\ ParseUIntLE(h, 4) = Len(P)
      /\ F \in Seq(Byte) /\ Len(F) = 4 + Len(P)
  BY EncodeIs, Zenon
<1> HIDE DEF F, h, P
<1>2. Len(b) \in Nat /\ MaxMessageSize \in Nat
  BY LenProperties, MaxMessageSizeAssumption
<1>3. 0 # Throws
  BY ThrowsAssumption
<1>4. CASE Len(b) < 4
  <2>1. size = 0
    BY <1>4 DEF GetReceivedMessageSize
  <2>2. ASSUME w = <<>> PROVE FALSE
    <3>1. b = F \o t
      BY <2>2, ConcatEmptySeq DEF F
    <3>2. Len(F \o t) = Len(F) + Len(t) /\ Len(t) \in Nat
      BY <1>1, ConcatProperties, LenProperties
    <3> QED
      BY <1>1, <1>2, <1>4, <3>1, <3>2
  <2> HIDE DEF size
  <2> QED
    BY <1>3, <2>1, <2>2 DEF size
<1>5. CASE ~ (Len(b) < 4)
  <2>1. SubSeq(b, 1, 4) = h
    <3>1. b \o w = h \o (P \o t) /\ P \o t \in Seq(Byte)
      <4>1. P \o t \in Seq(Byte)
        BY <1>1, ConcatProperties, Zenon
      <4>2. (h \o P) \o t = h \o (P \o t)
        <5>1. h \in Seq(Byte) /\ P \in Seq(Byte)
          BY <1>1
        <5> QED
          BY <5>1, Regroup, Zenon
      <4> QED
        BY <1>1, <4>1, <4>2 DEF F
    <3>2. Len(h) <= Len(b)
      BY <1>1, <1>2, <1>5
    <3>3. SameStream(b, w, h, P \o t) /\ h \in Seq(Byte)
      BY <1>1, <3>1 DEF SameStream
    <3>4. InFront(h, b, w, P \o t)
      BY <3>1, <3>2, <3>3, FrontOf, Zenon
    <3> QED
      BY <1>1, <3>4 DEF InFront
  <2>2. size = IF Len(P) > MaxMessageSize THEN Throws
               ELSE IF Len(b) - 4 < Len(P) THEN 0 ELSE 4 + Len(P)
    <3>1. size = LET packetSize == ParseUIntLE(SubSeq(b, 1, 4), 4)
                 IN  IF packetSize > MaxMessageSize THEN Throws
                     ELSE IF Len(b) - 4 < packetSize THEN 0 ELSE 4 + packetSize
      BY <1>5 DEF GetReceivedMessageSize
    <3> HIDE DEF size
    <3> QED
      BY <1>1, <2>1, <3>1
  <2> HIDE DEF size
  <2>3. CASE Len(P) > MaxMessageSize
    <3>1. size = Throws
      BY <2>2, <2>3
    <3>2. Len(F) - 4 > MaxMessageSize
      BY <1>1, <1>2, <2>3
    <3> QED
      BY <1>3, <3>1, <3>2 DEF F, size
  <2>4. CASE ~ (Len(P) > MaxMessageSize) /\ Len(b) - 4 < Len(P)
    <3>1. size = 0
      BY <2>2, <2>4
    <3>2. ASSUME w = <<>> PROVE FALSE
      <4>1. b = F \o t
        BY <3>2, ConcatEmptySeq DEF F
      <4>2. Len(F \o t) = Len(F) + Len(t) /\ Len(t) \in Nat
        BY <1>1, ConcatProperties, LenProperties
      <4> QED
        BY <1>1, <1>2, <2>4, <4>1, <4>2
    <3> QED
      BY <1>3, <3>1, <3>2 DEF size
  <2>5. CASE ~ (Len(P) > MaxMessageSize) /\ ~ (Len(b) - 4 < Len(P))
    <3>1. size = 4 + Len(P)
      BY <2>2, <2>5
    <3>2. size \in Nat /\ size # 0 /\ size = Len(F) /\ Len(F) <= Len(b) /\ Len(F) - 4 <= MaxMessageSize
      BY <1>1, <1>2, <2>5, <3>1
    <3>3. size # Throws
      BY <3>2, ThrowsAssumption
    <3> QED
      BY <3>2, <3>3 DEF F, size
  <2> QED
    BY <2>3, <2>4, <2>5
<1> QED
  BY <1>4, <1>5

-----------------------------------------------------------------------------
(* The inductive invariant: the stream that was sent is what was handed on,
   what is in the buffer and what is still on the wire.                      *)
Decoded(messages) ==
  /\ received \in Seq({Outcome(m) : m \in Sendable})
  /\ Len(received) <= Len(messages)
  /\ \A i \in 1..Len(received) : /\ received[i] = Outcome(messages[i])
                                /\ Len(Encode(messages[i])) - 4 <= MaxMessageSize

StreamInv(g, messages) ==
  /\ sent = messages
  /\ inBuffer \in Seq(Byte) /\ wire \in Seq(Byte)
  /\ Decoded(messages)
  /\ g[Len(messages)] = g[Len(received)] \o (inBuffer \o wire)
  /\ parser \in {"reading", "failed"}
  /\ parser = "failed" =>
       /\ Len(received) < Len(messages)
       /\ Len(Encode(messages[Len(received) + 1])) - 4 > MaxMessageSize

LEMMA MessageTypes ==
  ASSUME NEW messages \in Seq(Sendable)
  PROVE  /\ Len(messages) \in Nat
         /\ \A i \in 1..Len(messages) : messages[i] \in Sendable
  BY LenProperties, ElementOfSeq

(* What is in front of the parser: the next frame, or nothing.             *)
LEMMA NextFrame ==
  ASSUME NEW messages \in Seq(Sendable), NEW g, Joined(g, messages), StreamInv(g, messages)
  PROVE  /\ Len(received) \in Nat
         /\ \/ Len(received) = Len(messages) /\ inBuffer = <<>> /\ wire = <<>>
            \/ /\ Len(received) < Len(messages)
               /\ messages[Len(received) + 1] \in Sendable
               /\ \E t \in Seq(Byte) :
                    inBuffer \o wire = Encode(messages[Len(received) + 1]) \o t
<1> DEFINE k == Len(received)
           N == Len(messages)
           rest == inBuffer \o wire
<1>1. N \in Nat /\ \A i \in 1..N : messages[i] \in Sendable
  BY MessageTypes
<1>2. k \in Nat /\ k <= N
  BY LenProperties DEF StreamInv, Decoded
<1>3. g[k] \in Seq(Byte) /\ g[N] = g[k] \o rest
  <2>1. k \in 0..N /\ g \in [0..N -> Seq(Byte)]
    BY <1>1, <1>2 DEF Joined
  <2> QED
    BY <2>1 DEF StreamInv
<1>4. inBuffer \in Seq(Byte) /\ wire \in Seq(Byte) /\ rest \in Seq(Byte)
  BY ConcatProperties DEF StreamInv
<1> HIDE DEF k, N
<1>5. CASE k = N
  <2>1. g[k] \o rest = g[k]
    BY <1>3, <1>5
  <2> HIDE DEF rest
  <2>2. rest = <<>>
    BY <1>3, <1>4, <2>1, ConcatSimplifications
  <2>3. inBuffer = <<>> /\ wire = <<>>
    BY <1>4, <2>2, ConcatSimplifications DEF rest
  <2> QED
    BY <1>2, <1>5, <2>3 DEF k, N
<1>6. CASE k # N
  <2>1. k < N /\ k + 1 \in 1..N
    BY <1>1, <1>2, <1>6
  <2> DEFINE F == Encode(messages[k + 1])
  <2>2. messages[k + 1] \in Sendable
    BY <1>1, <2>1
  <2>3. F \in Seq(Byte)
    BY <2>2, EncodeIs
  <2>4. Follows(g[k], F, g[N])
    BY <1>2, <2>1, StreamSuffix DEF N
  <2>5. PICK t \in Seq(Byte) : g[N] = g[k] \o (F \o t)
    BY <2>4 DEF Follows
  <2> HIDE DEF F, rest
  <2>6. F \o t \in Seq(Byte)
    BY <2>3, ConcatProperties
  <2>7. g[k] \o rest = g[k] \o (F \o t)
    BY <1>3, <2>5
  <2>8. rest = F \o t
    BY <1>3, <1>4, <2>6, <2>7, ConcatSimplifications
  <2> QED
    BY <1>2, <2>1, <2>2, <2>8 DEF F, rest, k, N
<1> QED
  BY <1>5, <1>6

LEMMA StreamInit ==
  ASSUME NEW messages \in Seq(Sendable), FramesInit(messages)
  PROVE  \E g : Joined(g, messages) /\ StreamInv(g, messages)
<1>1. PICK g : Joined(g, messages) /\ g[Len(messages)] = wire
  BY JoinedIs DEF FramesInit
<1>2. wire \in Seq(Byte) /\ g[0] = <<>> /\ Len(messages) \in Nat
  <2>1. Len(messages) \in 0..Len(messages) /\ Len(messages) \in Nat
    BY MessageTypes
  <2> QED
    BY <1>1, <2>1 DEF Joined
<1>3. <<>> \o wire = wire /\ <<>> \o (<<>> \o wire) = wire
  BY <1>2, ConcatEmptySeq
<1>4. sent = messages /\ inBuffer = <<>> /\ received = <<>> /\ parser = "reading"
  BY DEF FramesInit
<1>5. Decoded(messages)
  <2>1. <<>> \in Seq({Outcome(m) : m \in Sendable}) /\ Len(<<>>) = 0
    OBVIOUS
  <2> QED
    BY <1>2, <1>4, <2>1 DEF Decoded
<1>6. inBuffer \in Seq(Byte)
  BY <1>4
<1>7. g[Len(messages)] = g[Len(received)] \o (inBuffer \o wire)
  <2>1. Len(received) = 0
    BY <1>4
  <2> QED
    BY <1>1, <1>2, <1>3, <1>4, <2>1
<1>8. StreamInv(g, messages)
  BY <1>2, <1>4, <1>5, <1>6, <1>7 DEF StreamInv
<1> QED
  BY <1>1, <1>8

LEMMA StreamStep ==
  ASSUME NEW messages \in Seq(Sendable), NEW g, Joined(g, messages),
         StreamInv(g, messages), [FramesNext]_frameVars
  PROVE  StreamInv(g, messages)'
<1> DEFINE k == Len(received)
           N == Len(messages)
<1>0. /\ inBuffer \in Seq(Byte) /\ wire \in Seq(Byte) /\ k \in Nat /\ N \in Nat
      /\ Len(inBuffer) \in Nat /\ Len(wire) \in Nat
  BY NextFrame, LenProperties, MessageTypes DEF StreamInv
<1>1. CASE ReceivePacket
  <2>1. PICK n \in 1..Len(wire) : /\ inBuffer' = inBuffer \o SubSeq(wire, 1, n)
                                  /\ wire' = SubSeq(wire, n + 1, Len(wire))
    BY <1>1 DEF ReceivePacket
  <2> DEFINE x == SubSeq(wire, 1, n)
             y == SubSeq(wire, n + 1, Len(wire))
  <2>2. x \in Seq(Byte) /\ y \in Seq(Byte) /\ wire = x \o y
    BY <1>0, Cut
  <2>3. UNCHANGED <<sent, received, parser>>
    BY <1>1 DEF ReceivePacket
  <2> HIDE DEF x, y
  <2>4. inBuffer' = inBuffer \o x /\ wire' = y
    BY <2>1 DEF x, y
  <2>5. inBuffer' \o wire' = inBuffer \o wire /\ inBuffer' \in Seq(Byte)
    <3>1. (inBuffer \o x) \o y = inBuffer \o (x \o y)
      BY <1>0, <2>2, Regroup
    <3>2. inBuffer \o x \in Seq(Byte)
      BY <1>0, <2>2, ConcatProperties
    <3> QED
      BY <2>2, <2>4, <3>1, <3>2
  <2>6. Decoded(messages)'
    BY <2>3 DEF StreamInv, Decoded
  <2> QED
    BY <2>2, <2>3, <2>4, <2>5, <2>6 DEF StreamInv
<1>2. CASE HandOn
  <2> DEFINE size == GetReceivedMessageSize(inBuffer)
             m == messages[k + 1]
             F == Encode(m)
  <2>1. /\ size \notin {0, Throws} /\ parser = "reading"
        /\ received' = Append(received, Decode(SubSeq(inBuffer, 1, size)))
        /\ inBuffer' = SubSeq(inBuffer, size + 1, Len(inBuffer))
        /\ UNCHANGED <<sent, wire, parser>>
    BY <1>2 DEF HandOn
  <2>2. inBuffer # <<>>
    BY <2>1, NothingReceived
  <2>3. /\ k < N /\ m \in Sendable
        /\ \E t \in Seq(Byte) : inBuffer \o wire = F \o t
    BY <2>2, NextFrame
  <2>4. PICK t \in Seq(Byte) : inBuffer \o wire = F \o t
    BY <2>3
  <2> HIDE DEF m
  <2>5. size = Len(F) /\ Len(F) <= Len(inBuffer) /\ Len(F) - 4 <= MaxMessageSize
    BY <1>0, <2>1, <2>3, <2>4, FrameReceived
  <2>6. F \in Seq(Byte)
    BY <2>3, EncodeIs
  <2> HIDE DEF F, size
  <2>7. /\ SubSeq(inBuffer, 1, Len(F)) = F
        /\ SubSeq(inBuffer, Len(F) + 1, Len(inBuffer)) \in Seq(Byte)
        /\ SubSeq(inBuffer, Len(F) + 1, Len(inBuffer)) \o wire = t
    <3>1. SameStream(inBuffer, wire, F, t)
      BY <2>4 DEF SameStream
    <3>2. InFront(F, inBuffer, wire, t)
      BY <1>0, <2>5, <2>6, <3>1, FrontOf, Zenon
    <3> QED
      BY <3>2 DEF InFront
  <2>8. /\ received' = Append(received, Decode(F)) /\ inBuffer' \in Seq(Byte)
        /\ inBuffer' \o wire' = t
    BY <2>1, <2>5, <2>7
  <2>9. Decode(F) = Outcome(m)
    BY <2>3, DecodeEncode DEF F
  <2>10. /\ received' \in Seq({Outcome(p) : p \in Sendable}) /\ Len(received') = k + 1
         /\ \A i \in 1..k : received'[i] = received[i]
         /\ received'[k + 1] = Outcome(m)
    <3>1. received \in Seq({Outcome(p) : p \in Sendable})
      BY DEF StreamInv, Decoded
    <3>2. Outcome(m) \in {Outcome(p) : p \in Sendable}
      BY <2>3
    <3> QED
      BY <2>8, <2>9, <3>1, <3>2, AppendProperties
  <2>11. Decoded(messages)'
    <3> SUFFICES /\ received' \in Seq({Outcome(p) : p \in Sendable})
                 /\ Len(received') <= N
                 /\ \A i \in 1..Len(received') :
                      /\ received'[i] = Outcome(messages[i])
                      /\ Len(Encode(messages[i])) - 4 <= MaxMessageSize
      BY DEF Decoded
    <3>1. Len(received') <= N
      BY <1>0, <2>3, <2>10
    <3>2. ASSUME NEW i \in 1..Len(received')
          PROVE  /\ received'[i] = Outcome(messages[i])
                 /\ Len(Encode(messages[i])) - 4 <= MaxMessageSize
      <4>1. CASE i = k + 1
        BY <2>5, <2>10, <4>1 DEF m, F
      <4>2. CASE i # k + 1
        <5>1. i \in 1..k
          BY <1>0, <2>10, <4>2
        <5> QED
          BY <2>10, <5>1 DEF StreamInv, Decoded
      <4> QED
        BY <4>1, <4>2
    <3> QED
      BY <2>10, <3>1, <3>2
  <2>12. g[N] = g[k + 1] \o t
    <3>1. g[k + 1] = g[k] \o F /\ g[k] \in Seq(Byte)
      <4>1. k + 1 \in 1..N /\ (k + 1) - 1 = k /\ k \in 0..N
        BY <1>0, <2>3
      <4> QED
        BY <4>1 DEF Joined, F, m
    <3>2. g[N] = g[k] \o (inBuffer \o wire)
      BY DEF StreamInv
    <3>3. (g[k] \o F) \o t = g[k] \o (F \o t)
      <4> DEFINE x == g[k]
      <4>1. x \in Seq(Byte)
        BY <3>1
      <4> HIDE DEF x
      <4>2. (x \o F) \o t = x \o (F \o t)
        BY <2>6, <4>1, Regroup
      <4> QED
        BY <4>2 DEF x
    <3> QED
      BY <2>4, <3>1, <3>2, <3>3
  <2>13. sent' = messages /\ wire' \in Seq(Byte) /\ parser' = "reading"
    BY <1>0, <2>1 DEF StreamInv
  <2>14. (g[N] = g[Len(received)] \o (inBuffer \o wire))'
    BY <2>8, <2>10, <2>12
  <2> QED
    BY <2>8, <2>11, <2>13, <2>14 DEF StreamInv
<1>3. CASE ParserThrows
  <2>1. /\ GetReceivedMessageSize(inBuffer) = Throws /\ parser' = "failed"
        /\ UNCHANGED <<sent, wire, inBuffer, received>>
    BY <1>3 DEF ParserThrows
  <2>2. inBuffer # <<>>
    BY <2>1, NothingReceived, ThrowsAssumption
  <2>3. /\ k < N /\ messages[k + 1] \in Sendable
        /\ \E t \in Seq(Byte) : inBuffer \o wire = Encode(messages[k + 1]) \o t
    BY <2>2, NextFrame
  <2>4. Len(Encode(messages[k + 1])) - 4 > MaxMessageSize
    BY <1>0, <2>1, <2>3, FrameReceived
  <2>5. Decoded(messages)'
    BY <2>1 DEF StreamInv, Decoded
  <2> QED
    BY <2>1, <2>3, <2>4, <2>5 DEF StreamInv
<1>4. CASE UNCHANGED frameVars
  BY <1>4 DEF StreamInv, Decoded, frameVars
<1> QED
  BY <1>1, <1>2, <1>3, <1>4 DEF FramesNext

LEMMA StreamDecodes ==
  ASSUME NEW messages \in Seq(Sendable), NEW g, Joined(g, messages), StreamInv(g, messages)
  PROVE  FramesDecode
<1> DEFINE k == Len(received)
<1>1. Len(received) <= Len(sent)
  BY DEF StreamInv, Decoded
<1>2. /\ DOMAIN received = 1..k
      /\ \A i \in 1..k : /\ received[i] = Outcome(sent[i])
                         /\ Len(Encode(sent[i])) - 4 <= MaxMessageSize
  BY LenProperties DEF StreamInv, Decoded
<1>3. ASSUME wire = <<>>, GetReceivedMessageSize(inBuffer) = 0
      PROVE  Len(received) = Len(sent) /\ inBuffer = <<>>
  <2> SUFFICES ASSUME k < Len(messages), messages[k + 1] \in Sendable,
                      NEW t \in Seq(Byte), inBuffer \o wire = Encode(messages[k + 1]) \o t
               PROVE  FALSE
    BY NextFrame DEF StreamInv
  <2>1. inBuffer \in Seq(Byte) /\ wire \in Seq(Byte)
    BY DEF StreamInv
  <2> QED
    BY <1>3, <2>1, FrameReceived
<1>4. parser = "failed" => Len(Encode(sent[k + 1])) - 4 > MaxMessageSize
  BY DEF StreamInv
<1> QED
  BY <1>1, <1>2, <1>3, <1>4 DEF FramesDecode

(***************************************************************************)
(* Whatever messages are sent, with whatever registrations and limit, and  *)
(* however the stream is cut into packets: FramesDecode holds.  (The       *)
(* length of a payload is a number that its four bytes can hold.)          *)
(***************************************************************************)
THEOREM FramesAreDecoded ==
  ASSUME NEW messages \in Seq(Sendable)
  PROVE  FramesInit(messages) /\ [][FramesNext]_frameVars => []FramesDecode
<1> DEFINE Inv == \E g : Joined(g, messages) /\ StreamInv(g, messages)
<1>1. FramesInit(messages) => Inv
  BY StreamInit
<1>2. Inv /\ [FramesNext]_frameVars => Inv'
  <2> SUFFICES ASSUME NEW g, Joined(g, messages), StreamInv(g, messages),
                      [FramesNext]_frameVars
               PROVE  Inv'
    OBVIOUS
  <2>1. StreamInv(g, messages)'
    BY StreamStep
  <2> QED
    BY <2>1
<1>3. Inv => FramesDecode
  BY StreamDecodes
<1> HIDE DEF Inv
<1> QED
  BY <1>1, <1>2, <1>3, PTL
=============================================================================
