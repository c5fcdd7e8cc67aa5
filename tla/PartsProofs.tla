---------------------------- MODULE PartsProofs ----------------------------
(***************************************************************************)
(* Theorems of the parts that MCParts checks over bounded inputs, for all  *)
(* inputs.                                                                 *)
(***************************************************************************)
EXTENDS MCParts, FramesProofs

-----------------------------------------------------------------------------
(* Sums and quotients.                                                     *)
LEMMA Quotients ==
  ASSUME NEW a \in Nat, NEW d \in Nat \ {0}
  PROVE  /\ a \div d \in Nat
         /\ d * (a \div d) <= a
         /\ a < d * (a \div d) + d
OBVIOUS

LEMMA Products ==
  ASSUME NEW a \in Nat, NEW b \in Nat, NEW c \in Nat
  PROVE  /\ a * b \in Nat /\ a * b = b * a
         /\ a * (b + c) = a * b + a * c
         /\ b <= c => a * b <= a * c
         /\ a # 0 /\ a * b <= a * c => b <= c
         /\ a # 0 /\ b < c => a * b < a * c
OBVIOUS

Sums(f, s) ==
  /\ f \in [0..Len(s) -> Nat]
  /\ f[0] = 0
  /\ \A i \in 1..Len(s) : f[i] = f[i - 1] + s[i]

LEMMA SumIs ==
  ASSUME NEW s \in Seq(Nat)
  PROVE  \E f : Sums(f, s) /\ SumOf(s) = f[Len(s)]
<1> DEFINE N == Len(s)
           next == [i \in 1..N |-> [v \in Nat |-> v + s[i]]]
<1>0. N \in Nat /\ \A i \in 1..N : s[i] \in Nat
  BY LenProperties, ElementOfSeq
<1>1. next \in [1..N -> [Nat -> Nat]]
  <2> HIDE DEF N
  <2> QED
    BY <1>0
<1>2. PICK g : Iterates(g, Nat, 0, N, next)
  <2>1. 0 \in Nat
    OBVIOUS
  <2> HIDE DEF next, N
  <2> QED
    BY <1>0, <1>1, <2>1, Recursion
<1>3. ASSUME NEW i \in 1..N PROVE g[i] = g[i - 1] + s[i]
  <2>1. next[i] = [v \in Nat |-> v + s[i]]
    OBVIOUS
  <2> HIDE DEF next, N
  <2>2. g[i - 1] \in Nat /\ g[i] = next[i][g[i - 1]]
    BY <1>0, <1>2 DEF Iterates
  <2> QED
    BY <2>1, <2>2
<1> DEFINE Rec(h) == [i \in 0..N |-> IF i = 0 THEN 0 ELSE h[i - 1] + s[i]]
           f == CHOOSE h : h = Rec(h)
<1>4. g = Rec(g)
  <2> HIDE DEF N, next
  <2> QED
    BY <1>0, <1>2, <1>3 DEF Iterates
<1>5. f = Rec(f)
  <2> HIDE DEF Rec
  <2> QED
    BY <1>4
<1>6. SumOf(s) = f[N]
  BY DEF SumOf
<1> HIDE DEF f, N, next
<1>7. f[0] = 0 /\ \A i \in 1..N : f[i] = f[i - 1] + s[i]
  BY <1>0, <1>5
<1> DEFINE T == {k \in Nat : k <= N => f[k] \in Nat}
<1>8. Nat \subseteq T
  <2>1. 0 \in T
    BY <1>7
  <2>2. ASSUME NEW k \in Nat, k \in T PROVE k + 1 \in T
    <3> SUFFICES ASSUME k + 1 <= N PROVE f[k + 1] \in Nat
      OBVIOUS
    <3>1. f[k] \in Nat /\ k + 1 \in 1..N /\ (k + 1) - 1 = k
      BY <1>0, <2>2
    <3>2. f[k + 1] = f[k] + s[k + 1] /\ s[k + 1] \in Nat
      BY <1>0, <1>7, <3>1
    <3> QED
      BY <3>1, <3>2
  <2> HIDE DEF T
  <2> QED
    BY <2>1, <2>2, Induction
<1>9. f \in [0..N -> Nat]
  <2>1. \A k \in 0..N : f[k] \in Nat
    BY <1>0, <1>8
  <2> QED
    BY <1>5, <2>1
<1> QED
  BY <1>6, <1>7, <1>9 DEF N, Sums

-----------------------------------------------------------------------------
(* Rebalancing: what a pass makes of the amounts.                          *)
LEMMA CorrectedIs ==
  ASSUME NEW s \in Seq(Nat), NEW k \in Nat
  PROVE  /\ Corrected(s, k) \in Seq(Nat)
         /\ Len(Corrected(s, k)) = Len(s)
         /\ \A i \in 1..Len(s) : /\ s[i] \in Nat
                                  /\ Corrected(s, k)[i] = (s[i] * k) \div Precision
                                  /\ Corrected(s, k)[i] \in Nat
<1> DEFINE c == Corrected(s, k)
<1>1. Len(s) \in Nat /\ DOMAIN s = 1..Len(s) /\ \A i \in 1..Len(s) : s[i] \in Nat
  BY LenProperties, ElementOfSeq
<1>2. c = [i \in 1..Len(s) |-> (s[i] * k) \div Precision]
  BY <1>1 DEF Corrected
<1>3. \A i \in 1..Len(s) : (s[i] * k) \div Precision \in Nat
  BY <1>1, Quotients, Products, CoinbaseAssumption
<1> HIDE DEF c
<1> QED
  BY <1>1, <1>2, <1>3 DEF c

LEMMA CorrectedSum ==
  ASSUME NEW s \in Seq(Nat), NEW k \in Nat
  PROVE  /\ SumOf(s) \in Nat /\ SumOf(Corrected(s, k)) \in Nat
         /\ Precision * SumOf(Corrected(s, k)) <= k * SumOf(s)
         /\ k * SumOf(s) + Len(s)
              <= Precision * SumOf(Corrected(s, k)) + Precision * Len(s)
<1> DEFINE c == Corrected(s, k)
           N == Len(s)
<1>1. /\ c \in Seq(Nat) /\ Len(c) = N
      /\ \A i \in 1..N : /\ s[i] \in Nat
                         /\ c[i] = (s[i] * k) \div Precision
                         /\ c[i] \in Nat
  BY CorrectedIs
<1>2. N \in Nat /\ Precision \in Nat \ {0}
  BY LenProperties, CoinbaseAssumption
<1> HIDE DEF c
<1>3. PICK f : Sums(f, s) /\ SumOf(s) = f[N]
  BY SumIs
<1>4. PICK g : Sums(g, c) /\ SumOf(c) = g[N]
  BY <1>1, SumIs
<1> HIDE DEF N
<1>5. /\ f \in [0..N -> Nat] /\ f[0] = 0 /\ \A i \in 1..N : f[i] = f[i - 1] + s[i]
      /\ g \in [0..N -> Nat] /\ g[0] = 0 /\ \A i \in 1..N : g[i] = g[i - 1] + c[i]
  BY <1>1, <1>3, <1>4 DEF Sums, N
<1> DEFINE Between(j) == /\ Precision * g[j] <= k * f[j]
                         /\ k * f[j] + j <= Precision * g[j] + Precision * j
           T == {j \in Nat : j <= N => Between(j)}
<1>6. Nat \subseteq T
  <2>1. 0 \in T
    BY <1>2, <1>5
  <2>2. ASSUME NEW j \in Nat, j \in T PROVE j + 1 \in T
    <3> SUFFICES ASSUME j + 1 <= N PROVE Between(j + 1)
      OBVIOUS
    <3>1. j + 1 \in 1..N /\ (j + 1) - 1 = j /\ j \in 0..N /\ Between(j)
      BY <1>2, <2>2
    <3> DEFINE x == s[j + 1]
               y == c[j + 1]
               a == f[j]
               b == g[j]
    <3>2. /\ x \in Nat /\ y \in Nat /\ a \in Nat /\ b \in Nat
          /\ y = (x * k) \div Precision
          /\ f[j + 1] = a + x /\ g[j + 1] = b + y
      BY <1>1, <1>5, <3>1
    <3>3. Precision * b <= k * a /\ k * a + j <= Precision * b + Precision * j
      BY <3>1
    <3> HIDE DEF x, y, a, b
    <3>4. /\ Precision * y <= x * k /\ x * k < Precision * y + Precision
          /\ x * k = k * x /\ x * k \in Nat
      BY <1>2, <3>2, Products, Quotients
    <3>5. /\ Precision * (b + y) = Precision * b + Precision * y
          /\ k * (a + x) = k * a + k * x
          /\ Precision * (j + 1) = Precision * j + Precision
      BY <1>2, <3>2, Products
    <3>6. /\ Precision * b \in Nat /\ Precision * y \in Nat /\ k * a \in Nat
          /\ k * x \in Nat /\ Precision * j \in Nat
      BY <1>2, <3>2, Products
    <3>7. /\ Precision * (b + y) <= k * (a + x)
          /\ k * (a + x) + (j + 1) <= Precision * (b + y) + Precision * (j + 1)
      <4> DEFINE Pb == Precision * b
                 Py == Precision * y
                 ka == k * a
                 kx == k * x
                 Pj == Precision * j
                 l1 == Precision * (b + y)
                 l2 == k * (a + x)
                 l3 == Precision * (j + 1)
      <4>1. /\ Pb \in Nat /\ Py \in Nat /\ ka \in Nat /\ kx \in Nat /\ Pj \in Nat
            /\ l1 = Pb + Py /\ l2 = ka + kx /\ l3 = Pj + Precision
            /\ Py <= kx /\ kx < Py + Precision
            /\ Pb <= ka /\ ka + j <= Pb + Pj
        BY <3>3, <3>4, <3>5, <3>6
      <4> HIDE DEF Pb, Py, ka, kx, Pj, l1, l2, l3
      <4>2. l1 <= l2 /\ l2 + (j + 1) <= l1 + l3
        BY <1>2, <4>1
      <4> QED
        BY <4>2 DEF l1, l2, l3
    <3> QED
      BY <3>2, <3>7
  <2> HIDE DEF T
  <2> QED
    BY <2>1, <2>2, Induction
<1>7. Between(N)
  BY <1>2, <1>6
<1>8. f[N] \in Nat /\ g[N] \in Nat
  BY <1>2, <1>5
<1> QED
  BY <1>3, <1>4, <1>7, <1>8 DEF c, N

(* Amounts none of which is lowered add up to more, if one is raised.      *)
LEMMA RaisedSum ==
  ASSUME NEW s \in Seq(Nat), NEW c \in Seq(Nat), Len(c) = Len(s), c # s,
         \A i \in 1..Len(s) : s[i] <= c[i]
  PROVE  SumOf(s) < SumOf(c)
<1> DEFINE N == Len(s)
<1>1. N \in Nat /\ \A i \in 1..N : s[i] \in Nat /\ c[i] \in Nat
  BY LenProperties, ElementOfSeq
<1>2. PICK f : Sums(f, s) /\ SumOf(s) = f[N]
  BY SumIs
<1>3. PICK g : Sums(g, c) /\ SumOf(c) = g[N]
  BY SumIs
<1>4. PICK p \in 1..N : s[p] < c[p]
  <2>1. PICK p \in 1..N : s[p] # c[p]
    BY SeqEqual
  <2> QED
    BY <1>1, <2>1
<1> HIDE DEF N
<1>5. /\ f \in [0..N -> Nat] /\ f[0] = 0 /\ \A i \in 1..N : f[i] = f[i - 1] + s[i]
      /\ g \in [0..N -> Nat] /\ g[0] = 0 /\ \A i \in 1..N : g[i] = g[i - 1] + c[i]
      /\ \A i \in 1..N : s[i] <= c[i]
  BY <1>2, <1>3 DEF Sums, N
<1> DEFINE T == {j \in Nat : j <= N => f[j] <= g[j] /\ (p <= j => f[j] < g[j])}
<1>6. Nat \subseteq T
  <2>1. 0 \in T
    BY <1>4, <1>5
  <2>2. ASSUME NEW j \in Nat, j \in T PROVE j + 1 \in T
    <3> SUFFICES ASSUME j + 1 <= N
                 PROVE  f[j + 1] <= g[j + 1] /\ (p <= j + 1 => f[j + 1] < g[j + 1])
      OBVIOUS
    <3>1. /\ j + 1 \in 1..N /\ (j + 1) - 1 = j /\ j \in 0..N
          /\ f[j] <= g[j] /\ (p <= j => f[j] < g[j])
      BY <1>1, <2>2
    <3>2. /\ f[j] \in Nat /\ g[j] \in Nat /\ s[j + 1] \in Nat /\ c[j + 1] \in Nat
          /\ f[j + 1] = f[j] + s[j + 1] /\ g[j + 1] = g[j] + c[j + 1]
          /\ s[j + 1] <= c[j + 1]
      BY <1>1, <1>5, <3>1
    <3>3. p <= j + 1 => p <= j \/ s[j + 1] < c[j + 1]
      <4>1. p <= j + 1 => p <= j \/ p = j + 1
        OBVIOUS
      <4> QED
        BY <1>4, <4>1
    <3> DEFINE x == s[j + 1]
               y == c[j + 1]
               a == f[j]
               b == g[j]
               u == f[j + 1]
               v == g[j + 1]
    <3>4. /\ x \in Nat /\ y \in Nat /\ a \in Nat /\ b \in Nat
          /\ u = a + x /\ v = b + y /\ x <= y /\ a <= b
          /\ p <= j + 1 => a < b \/ x < y
      BY <3>1, <3>2, <3>3
    <3> HIDE DEF x, y, a, b, u, v
    <3>5. u <= v /\ (p <= j + 1 => u < v)
      BY <3>4
    <3> QED
      BY <3>5 DEF u, v
  <2> HIDE DEF T
  <2> QED
    BY <2>1, <2>2, Induction
<1>7. f[N] < g[N]
  BY <1>1, <1>4, <1>6
<1> QED
  BY <1>2, <1>3, <1>7 DEF N

LEMMA SumOfNat ==
  ASSUME NEW s \in Seq(Nat)
  PROVE  SumOf(s) \in Nat
<1>1. PICK f : Sums(f, s) /\ SumOf(s) = f[Len(s)]
  BY SumIs
<1>2. Len(s) \in 0..Len(s)
  BY LenProperties
<1> QED
  BY <1>1, <1>2 DEF Sums

LEMMA FactorIs ==
  ASSUME NEW total \in Nat, NEW shares \in Nat \ {0}
  PROVE  /\ CorrectionFactor(total, shares) \in Nat
         /\ CorrectionFactor(total, shares) * shares <= total * Precision
         /\ total * Precision < CorrectionFactor(total, shares) * shares + shares
         /\ shares <= total => Precision <= CorrectionFactor(total, shares)
<1> DEFINE a == total * Precision
           k == CorrectionFactor(total, shares)
<1>0. Precision \in Nat \ {0}
  BY CoinbaseAssumption
<1>1. a \in Nat
  BY <1>0, Products
<1>2. k = a \div shares
  BY DEF CorrectionFactor
<1> HIDE DEF k
<1>3. k \in Nat /\ k * shares <= a /\ a < k * shares + shares
  <2> HIDE DEF a
  <2>1. k \in Nat /\ shares * k <= a /\ a < shares * k + shares
    BY <1>1, <1>2, Quotients
  <2>2. shares * k = k * shares
    BY <2>1, Products
  <2> QED
    BY <2>1, <2>2
<1>4. ASSUME shares <= total PROVE Precision <= k
  <2> SUFFICES ASSUME k + 1 <= Precision PROVE FALSE
    BY <1>0, <1>3
  <2>1. shares * (k + 1) <= shares * Precision
    BY <1>0, <1>3, Products
  <2>2. shares * Precision <= total * Precision
    BY <1>0, <1>4, Products
  <2>3. shares * (k + 1) = shares * k + shares /\ shares * k = k * shares
    BY <1>3, Products
  <2>4. a < a
    <3>1. k * shares \in Nat /\ shares * Precision \in Nat
      BY <1>0, <1>3, Products
    <3>2. k * shares + shares <= a
      BY <1>1, <2>1, <2>2, <2>3, <3>1
    <3> HIDE DEF a
    <3> QED
      BY <1>1, <1>3, <3>1, <3>2
  <2> QED
    BY <1>1, <2>4
<1> QED
  BY <1>3, <1>4 DEF k

(* One pass over outputs that have shares.                                 *)
LEMMA PassIs ==
  ASSUME NEW s \in Seq(Nat), NEW total \in Nat, SumOf(s) # 0
  PROVE  LET c == Corrected(s, CorrectionFactor(total, SumOf(s)))
         IN  /\ c \in Seq(Nat)
             /\ SumOf(c) <= total
             /\ SumOf(s) <= total /\ c # s => SumOf(s) < SumOf(c)
             /\ c = s => total * Precision
                           < SumOf(s) * Precision + Len(s) * Precision + SumOf(s)
<1> DEFINE S == SumOf(s)
           k == CorrectionFactor(total, S)
           c == Corrected(s, k)
<1>0. Precision \in Nat \ {0} /\ S \in Nat \ {0} /\ Len(s) \in Nat
  BY CoinbaseAssumption, SumOfNat, LenProperties
<1>1. /\ k \in Nat /\ k * S <= total * Precision
      /\ total * Precision < k * S + S
      /\ S <= total => Precision <= k
  <2> HIDE DEF S
  <2> QED
    BY <1>0, FactorIs
<1> HIDE DEF k
<1>2. /\ SumOf(c) \in Nat
      /\ Precision * SumOf(c) <= k * S
      /\ k * S + Len(s) <= Precision * SumOf(c) + Precision * Len(s)
  BY <1>1, CorrectedSum
<1>3. /\ c \in Seq(Nat) /\ Len(c) = Len(s)
      /\ \A i \in 1..Len(s) : /\ s[i] \in Nat
                              /\ c[i] = (s[i] * k) \div Precision
                              /\ c[i] \in Nat
  BY <1>1, CorrectedIs
<1> HIDE DEF c
<1>4. SumOf(c) <= total
  <2> DEFINE x == SumOf(c)
  <2>1. x \in Nat /\ Precision * x <= k * S
    BY <1>2
  <2> HIDE DEF x, S
  <2>2. Precision * x <= Precision * total
    <3>1. total * Precision = Precision * total /\ Precision * total \in Nat
          /\ Precision * x \in Nat /\ k * S \in Nat
      BY <1>0, <1>1, <2>1, Products
    <3> QED
      BY <1>1, <2>1, <3>1
  <2>3. x <= total
    BY <1>0, <2>1, <2>2, Products
  <2> QED
    BY <2>3 DEF x
<1>5. ASSUME S <= total, c # s PROVE S < SumOf(c)
  <2>1. ASSUME NEW i \in 1..Len(s) PROVE s[i] <= c[i]
    <3> DEFINE x == s[i]
               y == c[i]
    <3>1. x \in Nat /\ y \in Nat /\ y = (x * k) \div Precision
      BY <1>3
    <3> HIDE DEF x, y
    <3>2. /\ x * k \in Nat /\ x * Precision <= x * k
          /\ x * Precision = Precision * x /\ x * Precision \in Nat
      BY <1>0, <1>1, <1>5, <3>1, Products
    <3>3. x * k < Precision * y + Precision /\ Precision * y \in Nat
      BY <1>0, <3>1, <3>2, Quotients, Products
    <3>4. Precision * x < Precision * (y + 1)
      <4>1. Precision * (y + 1) = Precision * y + Precision
        BY <1>0, <3>1, Products
      <4> QED
        BY <1>0, <3>2, <3>3, <4>1
    <3>5. x < y + 1
      <4> SUFFICES ASSUME y + 1 <= x PROVE FALSE
        BY <3>1
      <4>1. Precision * (y + 1) <= Precision * x
        <5> DEFINE z == y + 1
        <5>1. z \in Nat /\ z <= x
          BY <3>1
        <5> HIDE DEF z
        <5>2. Precision * z <= Precision * x
          <6>1. Precision \in Nat
            BY <1>0
          <6> QED
            BY <3>1, <5>1, <6>1, Products
        <5> QED
          BY <5>2 DEF z
      <4>2. Precision * (y + 1) \in Nat /\ Precision * x \in Nat
        BY <1>0, <3>1, Products
      <4> QED
        BY <3>4, <4>1, <4>2
    <3>6. x <= y
      BY <3>1, <3>5
    <3> QED
      BY <3>6 DEF x, y
  <2> QED
    BY <1>3, <1>5, <2>1, RaisedSum
<1>6. ASSUME c = s
      PROVE  total * Precision < S * Precision + Len(s) * Precision + S
  <2> DEFINE n == Len(s)
             kS == k * S
             tP == total * Precision
             PS == Precision * S
             Pn == Precision * n
  <2>1. kS + n <= PS + Pn /\ tP < kS + S
    BY <1>1, <1>2, <1>6
  <2>2. /\ kS \in Nat /\ tP \in Nat /\ PS \in Nat /\ Pn \in Nat /\ n \in Nat
        /\ PS = S * Precision /\ Pn = n * Precision
    BY <1>0, <1>1, Products
  <2> HIDE DEF n, kS, tP, PS, Pn, S
  <2>3. tP < PS + Pn + S
    BY <1>0, <2>1, <2>2
  <2> QED
    BY <2>2, <2>3 DEF n, tP
<1> QED
  BY <1>3, <1>4, <1>5, <1>6 DEF c, k

-----------------------------------------------------------------------------
(* The callers of one connection: the inductive invariant.                 *)
RpcTypes ==
  /\ socket \in Sockets
  /\ link \in [Sockets -> {"new", "open", "ended", "closed", "freed"}]
  /\ request \in [Sockets -> Callers \cup {Nobody}]
  /\ unread \in [Sockets -> BOOLEAN]
  /\ response \in [Sockets -> Callers \cup {Nobody}]
  /\ at \in [Callers -> {"idle", "open", "send", "receive"}]
  /\ using \in [Callers -> Sockets \cup {NoSocket}]
  /\ result \in [Callers -> Callers \cup {Nobody}]
  /\ overlapped \subseteq Callers
  /\ touchedFreed \subseteq Callers

(* The socket of the connection exists; who receives uses one that does.   *)
SocketsMade ==
  /\ link[socket] \notin {"new", "freed"}
  /\ \A c \in Callers : at[c] = "receive" => /\ using[c] \in Sockets
                                             /\ link[using[c]] # "new"

(* A request that a node still reads belongs to who waits for its answer.  *)
RequestsAwaited ==
  \A s \in Sockets :
    request[s] # Nobody =>
      \/ link[s] \in {"closed", "freed"}
      \/ \E c \in Callers : request[s] = c /\ at[c] = "receive" /\ using[c] = s

(* Who overlaps with no one is alone, and so is its socket.                *)
AloneIsAlone ==
  \A c \in Callers \ overlapped :
    /\ at[c] # "idle" => Busy = {c}
    /\ at[c] = "send" => link[socket] \in {"open", "ended"}
    /\ at[c] = "receive" =>
         /\ link[using[c]] # "freed"
         /\ request[using[c]] \in {c, Nobody}
         /\ response[using[c]] \in {c, Nobody}

RpcInv == RpcTypes /\ SocketsMade /\ RequestsAwaited /\ AloneIsAlone /\ OwnAnswer

LEMMA RpcStart ==
  ASSUME RpcInit
  PROVE  RpcInv
<1>1. 1 \in Sockets
  BY MaxRequestsAssumption DEF Sockets
<1> QED
  BY <1>1 DEF RpcInit, RpcInv, RpcTypes, SocketsMade, RequestsAwaited, AloneIsAlone,
     OwnAnswer

LEMMA OpenSocketIs ==
  ASSUME RpcInv, NEW c \in Callers, NEW made \in BOOLEAN, OpenSocket(c, made)
  PROVE  \E s \in Sockets :
           /\ link[s] = "new" /\ socket' = s
           /\ link' = [n \in Sockets |-> IF n = s THEN (IF made THEN "open" ELSE "closed")
                                         ELSE IF n = socket THEN "freed" ELSE link[n]]
<1> DEFINE T == {n \in Sockets : link[n] = "new"}
           s == CHOOSE n \in Sockets : link[n] = "new" /\ \A k \in 1..(n - 1) : link[k] # "new"
<1>1. T \in SUBSET Nat /\ T # {}
  BY DEF OpenSocket, Sockets
<1>2. PICK n \in T : \A k \in T : n <= k
  <2> HIDE DEF T
  <2> QED
    BY <1>1, LeastNumber
<1>3. \A k \in 1..(n - 1) : link[k] # "new"
  <2>1. n \in Nat /\ n <= MaxRequests + 1 /\ MaxRequests \in Nat
    BY <1>2, MaxRequestsAssumption DEF Sockets
  <2>2. \A k \in 1..(n - 1) : k \in Sockets /\ ~ (n <= k)
    BY <2>1 DEF Sockets
  <2> QED
    BY <1>2, <2>2
<1>4. s \in Sockets /\ link[s] = "new"
  BY <1>2, <1>3
<1> HIDE DEF s
<1> QED
  BY <1>4 DEF OpenSocket, s

LEMMA BeginRequestKeeps ==
  ASSUME RpcInv, NEW c \in Callers, BeginRequest(c)
  PROVE  RpcInv'
<1>1. RpcTypes'
  BY DEF RpcInv, RpcTypes, BeginRequest, Busy
<1>2. SocketsMade'
  BY DEF RpcInv, SocketsMade, BeginRequest
<1>3. RequestsAwaited'
  BY DEF RpcInv, RequestsAwaited, BeginRequest
<1>4. AloneIsAlone'
  BY DEF AloneIsAlone, BeginRequest, Busy, Connected
<1>5. OwnAnswer'
  BY DEF RpcInv, RpcTypes, OwnAnswer, BeginRequest
<1> QED
  BY <1>1, <1>2, <1>3, <1>4, <1>5 DEF RpcInv

LEMMA OpenSocketKeeps ==
  ASSUME RpcInv, NEW c \in Callers, NEW made \in BOOLEAN, OpenSocket(c, made)
  PROVE  RpcInv'
<1>0. PICK s \in Sockets :
           /\ link[s] = "new" /\ socket' = s
           /\ link' = [n \in Sockets |-> IF n = s THEN (IF made THEN "open" ELSE "closed")
                                         ELSE IF n = socket THEN "freed" ELSE link[n]]
  BY OpenSocketIs
<1>1. RpcTypes'
  BY <1>0 DEF RpcInv, RpcTypes, SocketsMade, OpenSocket
<1>2. SocketsMade'
  BY <1>0 DEF RpcInv, RpcTypes, SocketsMade, OpenSocket
<1>3. RequestsAwaited'
  BY <1>0 DEF RpcInv, RequestsAwaited, OpenSocket
<1>4. AloneIsAlone'
  BY <1>0 DEF RpcInv, RpcTypes, SocketsMade, AloneIsAlone, OpenSocket, Busy
<1>5. OwnAnswer'
  BY <1>0 DEF RpcInv, OwnAnswer, OpenSocket
<1> QED
  BY <1>1, <1>2, <1>3, <1>4, <1>5 DEF RpcInv

LEMMA SendRequestKeeps ==
  ASSUME RpcInv, NEW c \in Callers, SendRequest(c)
  PROVE  RpcInv'
<1>1. RpcTypes'
  BY DEF RpcInv, RpcTypes, SendRequest
<1>2. SocketsMade'
  BY DEF RpcInv, RpcTypes, SocketsMade, SendRequest
<1>3. RequestsAwaited'
  BY DEF RpcInv, RpcTypes, RequestsAwaited, SendRequest
<1>4. AloneIsAlone'
  BY DEF RpcInv, RpcTypes, RequestsAwaited, AloneIsAlone, SendRequest, Busy
<1>5. OwnAnswer'
  BY DEF RpcInv, OwnAnswer, SendRequest
<1> QED
  BY <1>1, <1>2, <1>3, <1>4, <1>5 DEF RpcInv

LEMMA ReceiveResponseKeeps ==
  ASSUME RpcInv, NEW c \in Callers, ReceiveResponse(c)
  PROVE  RpcInv'
<1>1. RpcTypes'
  <2>1. using[c] \in Sockets
    BY DEF RpcInv, SocketsMade, ReceiveResponse
  <2>2. CASE unread[using[c]]
    BY <2>1, <2>2 DEF RpcInv, RpcTypes, ReceiveResponse
  <2>3. CASE ~ unread[using[c]]
    BY <2>1, <2>3 DEF RpcInv, RpcTypes, ReceiveResponse
  <2> QED
    BY <2>2, <2>3
<1>2. SocketsMade'
  BY DEF RpcInv, RpcTypes, SocketsMade, ReceiveResponse
<1>3. RequestsAwaited'
  BY DEF RpcInv, RpcTypes, RequestsAwaited, ReceiveResponse
<1>4. AloneIsAlone'
  BY DEF RpcInv, RpcTypes, AloneIsAlone, ReceiveResponse, Busy
<1>5. OwnAnswer'
  BY DEF RpcInv, OwnAnswer, ReceiveResponse
<1> QED
  BY <1>1, <1>2, <1>3, <1>4, <1>5 DEF RpcInv

LEMMA ReturnResponseKeeps ==
  ASSUME RpcInv, NEW c \in Callers, ReturnResponse(c)
  PROVE  RpcInv'
<1>1. RpcTypes'
  BY DEF RpcInv, RpcTypes, SocketsMade, ReturnResponse, AnswerOf
<1>2. SocketsMade'
  BY DEF RpcInv, SocketsMade, ReturnResponse
<1>3. RequestsAwaited'
  BY DEF RpcInv, RequestsAwaited, ReturnResponse
<1>4. AloneIsAlone'
  BY DEF RpcInv, AloneIsAlone, ReturnResponse, Busy
<1>5. OwnAnswer'
  BY DEF RpcInv, AloneIsAlone, OwnAnswer, ReturnResponse, AnswerOf
<1> QED
  BY <1>1, <1>2, <1>3, <1>4, <1>5 DEF RpcInv

LEMMA UseFreedKeeps ==
  ASSUME RpcInv, NEW c \in Callers, UseFreed(c)
  PROVE  RpcInv'
<1>1. RpcTypes'
  BY DEF RpcInv, RpcTypes, UseFreed
<1>2. SocketsMade'
  BY DEF RpcInv, SocketsMade, UseFreed
<1>3. RequestsAwaited'
  BY DEF RpcInv, RequestsAwaited, UseFreed
<1>4. AloneIsAlone'
  BY DEF RpcInv, AloneIsAlone, UseFreed, Busy
<1>5. OwnAnswer'
  BY DEF RpcInv, AloneIsAlone, OwnAnswer, UseFreed
<1> QED
  BY <1>1, <1>2, <1>3, <1>4, <1>5 DEF RpcInv

LEMMA NodeAnswersKeeps ==
  ASSUME RpcInv, NEW s \in Sockets, NEW answers \in BOOLEAN, NodeAnswers(s, answers)
  PROVE  RpcInv'
<1>1. RpcTypes'
  BY DEF RpcInv, RpcTypes, NodeAnswers
<1>2. SocketsMade'
  BY DEF RpcInv, SocketsMade, NodeAnswers
<1>3. RequestsAwaited'
  BY DEF RpcInv, RequestsAwaited, NodeAnswers
<1>4. AloneIsAlone'
  BY DEF RpcInv, AloneIsAlone, NodeAnswers, Busy
<1>5. OwnAnswer'
  BY DEF RpcInv, OwnAnswer, NodeAnswers
<1> QED
  BY <1>1, <1>2, <1>3, <1>4, <1>5 DEF RpcInv

LEMMA RpcStep ==
  ASSUME RpcInv, [RpcNext]_rpcVars
  PROVE  RpcInv'
<1>1. ASSUME NEW c \in Callers,
             \/ BeginRequest(c) \/ \E made \in BOOLEAN : OpenSocket(c, made)
             \/ SendRequest(c) \/ ReceiveResponse(c) \/ ReturnResponse(c) \/ UseFreed(c)
      PROVE  RpcInv'
  BY <1>1, BeginRequestKeeps, OpenSocketKeeps, SendRequestKeeps, ReceiveResponseKeeps,
     ReturnResponseKeeps, UseFreedKeeps
<1>2. ASSUME NEW s \in Sockets, NEW answers \in BOOLEAN, NodeAnswers(s, answers)
      PROVE  RpcInv'
  BY <1>2, NodeAnswersKeeps
<1>3. CASE UNCHANGED rpcVars
  BY <1>3 DEF RpcInv, RpcTypes, SocketsMade, RequestsAwaited, AloneIsAlone, OwnAnswer,
              rpcVars, Busy
<1> QED
  BY <1>1, <1>2, <1>3 DEF RpcNext

(***************************************************************************)
(* Whatever the number of threads and requests: who shares a connection    *)
(* gets the answer to its own request, or none, and uses no socket after   *)
(* its destruction, unless the request of another thread overlaps.         *)
(***************************************************************************)
THEOREM AnswersAreOwn == RpcInit /\ [][RpcNext]_rpcVars => []OwnAnswer
<1>1. RpcInit => RpcInv
  BY RpcStart
<1>2. RpcInv /\ [RpcNext]_rpcVars => RpcInv'
  BY RpcStep
<1>3. RpcInv => OwnAnswer
  BY DEF RpcInv
<1> QED
  BY <1>1, <1>2, <1>3, PTL

-----------------------------------------------------------------------------
(* The root along a branch, a sequence of whatever hashes are.              *)
IsSeq(r) == \E S : r \in Seq(S)

LEMMA SeqIs ==
  ASSUME NEW r, IsSeq(r)
  PROVE  Len(r) \in Nat /\ DOMAIN r = 1..Len(r)
BY LenProperties DEF IsSeq

Climbs(f, b, leaf) ==
  f = [i \in 0..Len(b) |-> IF i = 0 THEN leaf ELSE Hash(f[i - 1], b[i])]

LEMMA RootIs ==
  ASSUME NEW b, IsSeq(b), NEW leaf
  PROVE  \E f : Climbs(f, b, leaf) /\ GetRoot(b, leaf) = f[Len(b)]
<1> DEFINE Rec(n, h) == [i \in 0..n |-> IF i = 0 THEN leaf ELSE Hash(h[i - 1], b[i])]
           T == {n \in Nat : \E h : h = Rec(n, h)}
<1>1. 0 \in T
  <2> DEFINE h == [i \in 0..0 |-> leaf]
  <2>1. h = Rec(0, h)
    OBVIOUS
  <2> QED
    BY <2>1
<1>2. ASSUME NEW n \in Nat, n \in T PROVE n + 1 \in T
  <2>1. PICK h : h = Rec(n, h)
    BY <1>2
  <2> DEFINE g == [i \in 0..(n + 1) |-> IF i = n + 1 THEN Hash(h[n], b[n + 1]) ELSE h[i]]
  <2>2. ASSUME NEW i \in 0..(n + 1)
        PROVE  g[i] = IF i = 0 THEN leaf ELSE Hash(g[i - 1], b[i])
    <3>1. CASE i = n + 1
      <4>1. g[n + 1] = Hash(h[n], b[n + 1]) /\ g[n] = h[n]
        OBVIOUS
      <4> QED
        BY <3>1, <4>1
    <3>2. CASE i # n + 1
      <4>1. i \in 0..n /\ g[i] = h[i]
        BY <3>2
      <4>2. h[i] = IF i = 0 THEN leaf ELSE Hash(h[i - 1], b[i])
        BY <2>1, <4>1
      <4>3. i # 0 => g[i - 1] = h[i - 1]
        BY <4>1
      <4> QED
        BY <4>1, <4>2, <4>3
    <3> QED
      BY <3>1, <3>2
  <2>3. g = Rec(n + 1, g)
    BY <2>2
  <2> HIDE DEF g, Rec
  <2> QED
    BY <2>3
<1>3. Nat \subseteq T
  <2> HIDE DEF T
  <2> QED
    BY <1>1, <1>2, Induction
<1> DEFINE f == CHOOSE h : h = Rec(Len(b), h)
<1>4. f = Rec(Len(b), f)
  <2>1. Len(b) \in T
    BY <1>3, SeqIs
  <2>2. \E h : h = Rec(Len(b), h)
    BY <2>1
  <2> HIDE DEF Rec
  <2> QED
    BY <2>2
<1>5. GetRoot(b, leaf) = f[Len(b)]
  BY DEF GetRoot
<1> HIDE DEF f
<1> QED
  BY <1>4, <1>5 DEF Climbs

-----------------------------------------------------------------------------
(* What the run's subjects may be: a subject is never replaced.            *)
SubjectStays ==
  subject.of \notin {"frames", "manager", "rpc"} => subject \in Inputs

LEMMA SubjectIs == Spec => []SubjectStays
<1>1. Init => SubjectStays
  BY DEF Init, ManagerInit, SubjectStays
<1>2. SubjectStays /\ [Next]_partsVars => SubjectStays'
  BY DEF Next, Managing, partsVars, SubjectStays
<1> QED
  BY <1>1, <1>2, PTL DEF Spec

-----------------------------------------------------------------------------
(***************************************************************************)
(* What is written is read back: for all byte strings, digits and numbers. *)
(***************************************************************************)
LEMMA ByteIs == \A x : x \in Byte <=> x \in Nat /\ x < 256
BY DEF Byte

LEMMA SplitAt ==
  ASSUME NEW s \in Seq(Byte), NEW t \in Seq(Byte)
  PROVE  /\ SubSeq(s \o t, 1, Len(s)) = s
         /\ SubSeq(s \o t, Len(s) + 1, Len(s \o t)) = t
<1> DEFINE b == s \o t
<1>1. Len(b) = Len(s) + Len(t) /\ Len(s) \in Nat /\ Len(t) \in Nat
  BY ConcatProperties, LenProperties
<1>2. Read(b, Len(s)) = [value |-> s, rest |-> t]
  BY ReadSplit
<1> HIDE DEF b
<1>3. ~ (Len(b) < Len(s))
  BY <1>1
<1>4. [value |-> SubSeq(b, 1, Len(s)), rest |-> SubSeq(b, Len(s) + 1, Len(b))]
        = [value |-> s, rest |-> t]
  BY <1>2, <1>3 DEF Read
<1> QED
  BY <1>4 DEF b

LEMMA ReversedIs ==
  ASSUME NEW b \in Seq(Byte)
  PROVE  /\ Reversed(b) \in Seq(Byte) /\ Len(Reversed(b)) = Len(b)
         /\ Reversed(Reversed(b)) = b
<1> DEFINE N == Len(b)
           r == Reversed(b)
<1>1. N \in Nat /\ b \in [1..N -> Byte]
  BY LenProperties
<1>2. r = [i \in 1..N |-> b[N + 1 - i]]
  BY DEF Reversed
<1> HIDE DEF N, r
<1>3. \A i \in 1..N : N + 1 - i \in 1..N /\ N + 1 - (N + 1 - i) = i
  BY <1>1
<1>4. r \in [1..N -> Byte]
  BY <1>1, <1>2, <1>3
<1>5. r \in Seq(Byte) /\ Len(r) = N
  BY <1>1, <1>4
<1>6. Reversed(r) = [i \in 1..N |-> r[N + 1 - i]]
  BY <1>5 DEF Reversed
<1>7. \A i \in 1..N : r[N + 1 - i] = b[i]
  BY <1>2, <1>3
<1>8. Reversed(r) = b
  BY <1>1, <1>6, <1>7
<1> QED
  BY <1>5, <1>8 DEF r, N

(* A byte, some bytes, and the rest.                                       *)
Fronted(b, x, s, t) ==
  /\ b \in Seq(Byte) /\ b = <<x>> \o (s \o t)
  /\ b[1] = x /\ Tail(b) = s \o t
  /\ SubSeq(b, 2, Len(s) + 1) = s
  /\ SubSeq(b, Len(s) + 2, Len(b)) = t

LEMMA FrontAndRest ==
  ASSUME NEW x \in Byte, NEW s \in Seq(Byte), NEW t \in Seq(Byte)
  PROVE  Fronted((<<x>> \o s) \o t, x, s, t)
<1> DEFINE u == <<x>> \o s
           b == u \o t
           c == s \o t
<1>1. <<x>> \in Seq(Byte) /\ Len(<<x>>) = 1
  OBVIOUS
<1>2. u \in Seq(Byte) /\ Len(u) = 1 + Len(s) /\ c \in Seq(Byte) /\ Len(s) \in Nat /\ Len(t) \in Nat
  <2>1. u \in Seq(Byte) /\ Len(u) = Len(<<x>>) + Len(s)
    BY <1>1, Joins, Zenon
  <2> QED
    BY <1>1, <2>1, Joins, LenProperties
<1>3. b = <<x>> \o c
  BY <1>1, Regroup
<1>4. b \in Seq(Byte) /\ Len(b) = 1 + Len(s) + Len(t) /\ Len(b) = 1 + Len(c)
  <2>1. b \in Seq(Byte) /\ Len(b) = Len(u) + Len(t)
    BY <1>2, Joins, Zenon
  <2>2. Len(<<x>> \o c) = Len(<<x>>) + Len(c)
    BY <1>1, <1>2, Joins, Zenon
  <2> QED
    BY <1>1, <1>2, <1>3, <2>1, <2>2
<1>5. SubSeq(b, Len(u) + 1, Len(b)) = t
  BY <1>2, SplitAt
<1>6. SubSeq(<<x>> \o c, Len(<<x>>) + 1, Len(<<x>> \o c)) = c
  BY <1>1, <1>2, SplitAt
<1>7. SubSeq(b, 1, Len(u)) = u
  BY <1>2, SplitAt
<1>8. b[1] = x
  <2>1. (<<x>> \o c)[1] = <<x>>[1]
    BY <1>1, <1>2, ConcatProperties
  <2> QED
    BY <1>3, <2>1
<1>9. SubSeq(b, 2, Len(s) + 1) = s
  <2>1. SubSeq(<<x>> \o s, Len(<<x>>) + 1, Len(<<x>> \o s)) = s
    BY <1>1, SplitAt
  <2>2. SubSeq(u, 2, Len(u)) = s
    BY <1>1, <2>1
  <2>3. SubSeq(b, 2, Len(u)) = SubSeq(u, 2, Len(u))
    <3> DEFINE v == SubSeq(b, 2, Len(u))
               w == SubSeq(u, 2, Len(u))
    <3>1. \A i \in 1..Len(u) : b[i] = u[i]
      BY <1>2, ConcatProperties
    <3> HIDE DEF b, u
    <3>2. v = [i \in 1..(Len(u) - 1) |-> b[i + 1]] /\ w = [i \in 1..(Len(u) - 1) |-> u[i + 1]]
      BY <1>2, <1>4
    <3>3. \A i \in 1..(Len(u) - 1) : b[i + 1] = u[i + 1]
      BY <1>2, <3>1
    <3> QED
      BY <3>2, <3>3
  <2>4. Len(u) = Len(s) + 1
    BY <1>2
  <2> QED
    BY <2>2, <2>3, <2>4
<1>10. Tail(b) = c
  <2>1. Tail(b) = SubSeq(b, 2, Len(b))
    <3> HIDE DEF b
    <3>1. b # <<>>
      BY <1>2, <1>4
    <3> QED
      BY <1>4, <3>1, TailIsSubSeq
  <2> QED
    BY <1>1, <1>3, <1>6, <2>1
<1>11. Len(u) + 1 = Len(s) + 2
  BY <1>2
<1> QED
  BY <1>3, <1>4, <1>5, <1>8, <1>9, <1>10, <1>11 DEF Fronted

LEMMA PowersAre ==
  /\ Power(0) = 1 /\ Power(1) = 256 /\ Power(2) = 65536 /\ Power(3) = 16777216
  /\ Power(4) = 4294967296
<1>1. Power(0) = 1 /\ \A w \in Nat : Power(w + 1) = 256 * Power(w)
  BY PowerSteps
<1>2. Power(0 + 1) = 256 * Power(0) /\ Power(1 + 1) = 256 * Power(1)
      /\ Power(2 + 1) = 256 * Power(2) /\ Power(3 + 1) = 256 * Power(3)
  BY <1>1
<1> QED
  BY <1>1, <1>2

(* The three forms that have a code and a number of a fixed width.         *)
LEMMA CodedRead ==
  ASSUME NEW n \in Nat, NEW w \in {2, 4, 8}, n < Power(w), NEW t \in Seq(Byte),
         NEW code \in Byte, <<code, w>> \in {<<253, 2>>, <<254, 4>>, <<255, 8>>}
  PROVE  /\ <<code>> \o LittleEndian(n, w) \in Seq(Byte)
         /\ ReadVarInt((<<code>> \o LittleEndian(n, w)) \o t) = [value |-> n, rest |-> t]
<1> DEFINE s == LittleEndian(n, w)
           b == (<<code>> \o s) \o t
           width == CASE b[1] = 253 -> 2 [] b[1] = 254 -> 4 [] b[1] = 255 -> 8
                      [] OTHER -> 0
<1>1. s \in Seq(Byte) /\ Len(s) = w /\ ParseUIntLE(s, w) = n
  <2>1. w \in Nat
    OBVIOUS
  <2> QED
    BY <2>1, LittleEndianBytes, NumberParsed
<1> HIDE DEF s
<1>2. /\ b[1] = code /\ SubSeq(b, 2, Len(s) + 1) = s
      /\ SubSeq(b, Len(s) + 2, Len(b)) = t
  <2>1. Fronted(b, code, s, t)
    BY <1>1, FrontAndRest, Zenon
  <2> QED
    BY <2>1 DEF Fronted
<1>3. width = w
  BY <1>2
<1>4. <<code>> \o s \in Seq(Byte)
  BY <1>1
<1>5. ReadVarInt(b) = IF width = 0 THEN [value |-> b[1], rest |-> Tail(b)]
                      ELSE [value |-> ParseUIntLE(SubSeq(b, 2, width + 1), width),
                            rest  |-> SubSeq(b, width + 2, Len(b))]
  BY DEF ReadVarInt
<1> HIDE DEF b, width
<1>6. ReadVarInt(b) = [value |-> ParseUIntLE(SubSeq(b, 2, w + 1), w),
                       rest  |-> SubSeq(b, w + 2, Len(b))]
  BY <1>3, <1>5
<1>7. ReadVarInt(b) = [value |-> n, rest |-> t]
  BY <1>1, <1>2, <1>6
<1> QED
  BY <1>4, <1>7 DEF b, s

LEMMA VarIntRead ==
  ASSUME NEW n \in Nat, n < Power(8), NEW t \in Seq(Byte)
  PROVE  /\ VarInt(n) \in Seq(Byte)
         /\ ReadVarInt(VarInt(n) \o t) = [value |-> n, rest |-> t]
<1>1. CASE n < 253
  <2>1. VarInt(n) = <<n>> /\ n \in Byte /\ <<n>> \in Seq(Byte) /\ <<>> \in Seq(Byte)
    <3>1. VarInt(n) = <<n>>
      BY <1>1 DEF VarInt
    <3>2. n \in Byte
      BY <1>1 DEF Byte
    <3> QED
      BY <3>1, <3>2
  <2> DEFINE b == <<n>> \o t
             width == CASE b[1] = 253 -> 2 [] b[1] = 254 -> 4 [] b[1] = 255 -> 8
                        [] OTHER -> 0
  <2>2. b[1] = n /\ Tail(b) = t
    <3>1. (<<n>> \o <<>>) \o t = b /\ <<>> \o t = t
      BY <2>1, ConcatEmptySeq
    <3>2. Fronted((<<n>> \o <<>>) \o t, n, <<>>, t)
      BY <2>1, FrontAndRest, Zenon
    <3> HIDE DEF b
    <3>3. Fronted(b, n, <<>>, t)
      BY <3>1, <3>2
    <3> QED
      BY <3>1, <3>3 DEF Fronted
  <2>3. width = 0
    BY <1>1, <2>2
  <2>4. ReadVarInt(b) = IF width = 0 THEN [value |-> b[1], rest |-> Tail(b)]
                        ELSE [value |-> ParseUIntLE(SubSeq(b, 2, width + 1), width),
                              rest  |-> SubSeq(b, width + 2, Len(b))]
    BY DEF ReadVarInt
  <2> HIDE DEF b, width
  <2>5. ReadVarInt(b) = [value |-> n, rest |-> t]
    BY <2>2, <2>3, <2>4
  <2> QED
    BY <2>1, <2>5 DEF b
<1>2. CASE n >= 253 /\ n < 65536
  <2>1. VarInt(n) = <<253>> \o LittleEndian(n, 2) /\ n < Power(2)
    BY <1>2, PowersAre DEF VarInt
  <2>2. 253 \in Byte /\ 2 \in {2, 4, 8}
        /\ <<253, 2>> \in {<<253, 2>>, <<254, 4>>, <<255, 8>>}
    BY DEF Byte
  <2> QED
    BY <2>1, <2>2, CodedRead
<1>3. CASE n >= 65536 /\ n \div 65536 < 65536
  <2>1. VarInt(n) = <<254>> \o LittleEndian(n, 4)
    BY <1>3 DEF VarInt
  <2>2. n < Power(4)
    <3>1. n < 65536 * 65536
      BY <1>3
    <3> QED
      BY <3>1, PowersAre
  <2>3. 254 \in Byte /\ 4 \in {2, 4, 8}
        /\ <<254, 4>> \in {<<253, 2>>, <<254, 4>>, <<255, 8>>}
    BY DEF Byte
  <2> QED
    BY <2>1, <2>2, <2>3, CodedRead
<1>4. CASE n >= 65536 /\ ~ (n \div 65536 < 65536)
  <2>1. VarInt(n) = <<255>> \o LittleEndian(n, 8)
    BY <1>4 DEF VarInt
  <2>2. 255 \in Byte /\ 8 \in {2, 4, 8}
        /\ <<255, 8>> \in {<<253, 2>>, <<254, 4>>, <<255, 8>>}
    BY DEF Byte
  <2> QED
    BY <2>1, <2>2, CodedRead
<1> QED
  BY <1>1, <1>2, <1>3, <1>4

LEMMA FixedRead ==
  ASSUME NEW n \in Nat, n < Power(4)
  PROVE  ParseUIntBE(Reversed(LittleEndian(n, 4)), 4) = n
<1> DEFINE s == LittleEndian(n, 4)
<1>1. 4 \in Nat
  OBVIOUS
<1>2. s \in Seq(Byte) /\ ParseUIntLE(s, 4) = n
  BY <1>1, LittleEndianBytes, NumberParsed
<1> HIDE DEF s
<1>3. ParseUIntBE(Reversed(s), 4) = n
  BY <1>2, ReversedIs DEF ParseUIntBE
<1> QED
  BY <1>3 DEF s

(***************************************************************************)
(* Bytes as digits, and digits as bytes.                                   *)
(***************************************************************************)
LEMMA HexDigits == \A d : HexValue(d) \in 0..15
BY DEF HexValue

LEMMA HexReadsBack ==
  ASSUME NEW b \in Seq(Byte)
  PROVE  FromHex(AsHex(b)) = b /\ AsHex(b) \in Seq(0..15) /\ Len(AsHex(b)) = 2 * Len(b)
<1> DEFINE N == Len(b)
           h == AsHex(b)
<1>1. N \in Nat /\ b \in [1..N -> Byte]
  BY LenProperties
<1>2. h = [i \in 1..(2 * N) |-> IF i % 2 = 1 THEN b[(i + 1) \div 2] \div 16
                                             ELSE b[i \div 2] % 16]
  BY DEF AsHex
<1> HIDE DEF N, h
<1>3. \A i \in 1..N : b[i] \in Nat /\ b[i] < 256
  <2>1. \A i \in 1..N : b[i] \in Byte
    BY <1>1
  <2> QED
    BY <2>1, ByteIs
<1>4. ASSUME NEW i \in 1..(2 * N) PROVE h[i] \in 0..15
  <2>1. CASE i % 2 = 1
    <3> DEFINE k == (i + 1) \div 2
    <3>1. k \in 1..N
      BY <1>1, <2>1
    <3> HIDE DEF k
    <3>2. b[k] \div 16 \in 0..15
      <4> DEFINE x == b[k]
      <4>1. x \in Nat /\ x < 256
        BY <1>3, <3>1
      <4> HIDE DEF x
      <4>2. x \div 16 \in Nat /\ x \div 16 < 16
        BY <4>1
      <4> QED
        BY <4>2, SMTT(20) DEF x
    <3> QED
      BY <1>2, <2>1, <3>2 DEF k
  <2>2. CASE i % 2 # 1
    <3> DEFINE k == i \div 2
    <3>1. k \in 1..N
      BY <1>1, <2>2
    <3> HIDE DEF k
    <3>2. b[k] % 16 \in 0..15
      <4> DEFINE x == b[k]
      <4>1. x \in Nat
        BY <1>3, <3>1
      <4> HIDE DEF x
      <4>2. x % 16 \in Nat /\ x % 16 < 16
        BY <4>1
      <4> QED
        BY <4>2, SMTT(20) DEF x
    <3> QED
      BY <1>2, <2>2, <3>2 DEF k
  <2> QED
    BY <2>1, <2>2
<1>5. 2 * N \in Nat /\ DOMAIN h = 1..(2 * N)
  BY <1>1, <1>2
<1>6. h \in Seq(0..15) /\ Len(h) = 2 * N
  <2>1. h = [i \in 1..(2 * N) |-> h[i]]
    BY <1>2
  <2>2. h \in [1..(2 * N) -> 0..15]
    BY <1>4, <2>1
  <2> QED
    BY <1>5, <2>2
<1>7. FromHex(h) = [i \in 1..N |-> 16 * HexValue(h[2 * i - 1]) + HexValue(h[2 * i])]
  <2> DEFINE odd == Len(h) % 2
  <2>1. odd = 0 /\ (Len(h) + odd) \div 2 = N
    BY <1>1, <1>6
  <2>2. FromHex(h) = [i \in 1..((Len(h) + odd) \div 2) |->
                        IF odd = 1 /\ i = 1 THEN HexValue(h[1])
                        ELSE 16 * HexValue(h[2 * i - 1 - odd]) + HexValue(h[2 * i - odd])]
    BY DEF FromHex
  <2> HIDE DEF odd
  <2>3. \A i \in 1..N : 2 * i - 1 - odd = 2 * i - 1 /\ 2 * i - odd = 2 * i
    BY <2>1
  <2> QED
    BY <2>1, <2>2, <2>3
<1>8. ASSUME NEW i \in 1..N
      PROVE  16 * HexValue(h[2 * i - 1]) + HexValue(h[2 * i]) = b[i]
  <2>1. /\ 2 * i - 1 \in 1..(2 * N) /\ (2 * i - 1) % 2 = 1 /\ ((2 * i - 1) + 1) \div 2 = i
        /\ 2 * i \in 1..(2 * N) /\ (2 * i) % 2 # 1 /\ (2 * i) \div 2 = i
    BY <1>1
  <2>2. h[2 * i - 1] = b[i] \div 16 /\ h[2 * i] = b[i] % 16
    BY <1>2, <2>1
  <2>3. HexValue(h[2 * i - 1]) = b[i] \div 16 /\ HexValue(h[2 * i]) = b[i] % 16
    BY <1>4, <2>1, <2>2 DEF HexValue
  <2>4. 16 * (b[i] \div 16) + (b[i] % 16) = b[i]
    BY <1>3
  <2> QED
    BY <2>3, <2>4
<1>9. FromHex(h) = b
  BY <1>1, <1>7, <1>8
<1> QED
  BY <1>6, <1>9 DEF h, N

LEMMA NibblesJoin ==
  ASSUME NEW s \in Seq(0..15), NEW t \in Seq(0..15)
  PROVE  /\ s \o t \in Seq(0..15) /\ Len(s \o t) = Len(s) + Len(t)
         /\ \A i \in 1..Len(s) : (s \o t)[i] = s[i]
         /\ \A i \in (Len(s) + 1)..(Len(s) + Len(t)) : (s \o t)[i] = t[i - Len(s)]
BY ConcatProperties, LenProperties

LEMMA DigitsReadBack ==
  ASSUME NEW S, NEW d \in Seq(S)
  PROVE  /\ FromHex(d) \in Seq(Byte)
         /\ Len(FromHex(d)) = (Len(d) + (Len(d) % 2)) \div 2
         /\ AsHex(FromHex(d)) = Zeros(Len(d) % 2) \o [i \in DOMAIN d |-> HexValue(d[i])]
<1> DEFINE N == Len(d)
           odd == N % 2
           M == (N + odd) \div 2
           v == [i \in 1..N |-> HexValue(d[i])]
           b == FromHex(d)
<1>1. N \in Nat /\ DOMAIN d = 1..N
  BY LenProperties
<1>2. b = [i \in 1..M |-> IF odd = 1 /\ i = 1 THEN HexValue(d[1])
                          ELSE 16 * HexValue(d[2 * i - 1 - odd]) + HexValue(d[2 * i - odd])]
  BY DEF FromHex
<1> HIDE DEF N, b
<1>3. odd \in {0, 1} /\ M \in Nat /\ 2 * M = N + odd
  BY <1>1
<1>4. v \in [1..N -> 0..15]
  BY HexDigits
<1>5. v \in Seq(0..15) /\ Len(v) = N
  BY <1>1, <1>4
<1> HIDE DEF odd, M
<1>6. ASSUME NEW i \in 1..M
      PROVE  b[i] = (IF odd = 1 /\ i = 1 THEN 0 ELSE 16 * v[2 * i - 1 - odd]) + v[2 * i - odd]
  <2>1. CASE odd = 1 /\ i = 1
    <3>1. 2 * i - odd = 1 /\ 1 \in 1..N
      BY <1>1, <1>3, <2>1
    <3>2. b[i] = HexValue(d[1])
      BY <1>2, <2>1
    <3>3. v[1] = HexValue(d[1]) /\ v[1] \in Nat
      BY <1>4, <3>1
    <3> HIDE DEF v
    <3> QED
      BY <2>1, <3>1, <3>2, <3>3
  <2>2. CASE ~ (odd = 1 /\ i = 1)
    <3>1. 2 * i - 1 - odd \in 1..N /\ 2 * i - odd \in 1..N
      BY <1>1, <1>3, <2>2
    <3> QED
      BY <1>2, <2>2, <3>1
  <2> QED
    BY <2>1, <2>2
<1> HIDE DEF v
<1>7. ASSUME NEW i \in 1..M PROVE b[i] \in Byte
  <2>1. 2 * i - odd \in 1..N /\ (~ (odd = 1 /\ i = 1) => 2 * i - 1 - odd \in 1..N)
    BY <1>1, <1>3
  <2>2. v[2 * i - odd] \in 0..15 /\ (~ (odd = 1 /\ i = 1) => v[2 * i - 1 - odd] \in 0..15)
    BY <1>4, <2>1
  <2> DEFINE x == v[2 * i - odd]
             y == v[2 * i - 1 - odd]
             a == b[i]
  <2>3. a = (IF odd = 1 /\ i = 1 THEN 0 ELSE 16 * y) + x
    BY <1>6
  <2>4. x \in 0..15 /\ (~ (odd = 1 /\ i = 1) => y \in 0..15)
    BY <2>2
  <2> HIDE DEF x, y, a
  <2>5. a \in Nat /\ a < 256
    <3>1. CASE odd = 1 /\ i = 1
      BY <2>3, <2>4, <3>1
    <3>2. CASE ~ (odd = 1 /\ i = 1)
      <4>1. a = 16 * y + x /\ y \in 0..15
        BY <2>3, <2>4, <3>2
      <4> QED
        BY <2>4, <4>1
    <3> QED
      BY <3>1, <3>2
  <2>6. a \in Byte
    BY <2>5 DEF Byte
  <2> QED
    BY <2>6 DEF a
<1>8. b \in Seq(Byte) /\ Len(b) = M
  <2>1. b = [i \in 1..M |-> b[i]]
    BY <1>2
  <2> HIDE DEF M
  <2>2. b \in [1..M -> Byte]
    BY <1>7, <2>1
  <2> QED
    BY <1>3, <2>2
<1> DEFINE h == AsHex(b)
<1>9. h \in Seq(0..15) /\ Len(h) = N + odd
  BY <1>3, <1>8, HexReadsBack
<1>10. \A i \in 1..(2 * M) : h[i] = IF i % 2 = 1 THEN b[(i + 1) \div 2] \div 16
                                                ELSE b[i \div 2] % 16
  BY <1>8 DEF AsHex
<1> HIDE DEF h
<1> DEFINE z == Zeros(odd)
<1>11. z \in Seq(0..15) /\ Len(z) = odd /\ \A i \in 1..odd : z[i] = 0
  BY <1>3 DEF Zeros
<1> HIDE DEF z
<1> DEFINE c == z \o v
<1>12. /\ c \in Seq(0..15) /\ Len(c) = N + odd
       /\ \A i \in 1..odd : c[i] = 0
       /\ \A i \in 1..N : c[odd + i] = v[i]
  <2>1. /\ c \in Seq(0..15) /\ Len(c) = Len(z) + Len(v)
        /\ \A i \in 1..Len(z) : c[i] = z[i]
        /\ \A i \in (Len(z) + 1)..(Len(z) + Len(v)) : c[i] = v[i - Len(z)]
    BY <1>5, <1>11, NibblesJoin, Zenon
  <2> HIDE DEF c
  <2>2. \A i \in 1..N : odd + i \in (odd + 1)..(odd + N) /\ (odd + i) - odd = i
    BY <1>1, <1>3
  <2> QED
    BY <1>1, <1>3, <1>5, <1>11, <2>1, <2>2
<1> HIDE DEF c
<1>13. ASSUME NEW i \in 1..M PROVE h[2 * i - 1] = c[2 * i - 1] /\ h[2 * i] = c[2 * i]
  <2>1. /\ 2 * i - 1 \in 1..(2 * M) /\ (2 * i - 1) % 2 = 1 /\ ((2 * i - 1) + 1) \div 2 = i
        /\ 2 * i \in 1..(2 * M) /\ (2 * i) % 2 # 1 /\ (2 * i) \div 2 = i
    BY <1>3
  <2>2. h[2 * i - 1] = b[i] \div 16 /\ h[2 * i] = b[i] % 16
    BY <1>10, <2>1
  <2>3. 2 * i - odd \in 1..N /\ odd + (2 * i - odd) = 2 * i
    BY <1>1, <1>3
  <2>4. c[2 * i] = v[2 * i - odd] /\ v[2 * i - odd] \in 0..15
    BY <1>4, <1>12, <2>3
  <2> DEFINE x == v[2 * i - odd]
             y == v[2 * i - 1 - odd]
             a == b[i]
  <2>5. a = (IF odd = 1 /\ i = 1 THEN 0 ELSE 16 * y) + x /\ x \in 0..15
    BY <1>6, <2>4
  <2>6. CASE odd = 1 /\ i = 1
    <3>1. c[2 * i - 1] = 0
      BY <1>12, <2>6
    <3> HIDE DEF x, y, a
    <3>2. a \div 16 = 0 /\ a % 16 = x
      BY <2>5, <2>6
    <3> QED
      BY <2>2, <2>4, <3>1, <3>2 DEF a, x
  <2>7. CASE ~ (odd = 1 /\ i = 1)
    <3>1. 2 * i - 1 - odd \in 1..N /\ odd + (2 * i - 1 - odd) = 2 * i - 1
      BY <1>1, <1>3, <2>7
    <3>2. c[2 * i - 1] = y /\ y \in 0..15
      BY <1>4, <1>12, <3>1
    <3>3. y \in 0..15
      BY <3>2
    <3> HIDE DEF x, y, a
    <3>4. a \div 16 = y /\ a % 16 = x
      BY <2>5, <2>7, <3>3
    <3> QED
      BY <2>2, <2>4, <3>2, <3>4 DEF a, x
  <2> QED
    BY <2>6, <2>7
<1>14. h = c
  <2>1. ASSUME NEW j \in 1..Len(h) PROVE h[j] = c[j]
    <3> DEFINE i == (j + 1) \div 2
    <3>1. i \in 1..M /\ (j = 2 * i - 1 \/ j = 2 * i)
      BY <1>1, <1>3, <1>9
    <3> HIDE DEF i
    <3> QED
      BY <1>13, <3>1
  <2> QED
    BY <1>9, <1>12, <2>1, SeqEqual
<1>15. c = Zeros(Len(d) % 2) \o [i \in DOMAIN d |-> HexValue(d[i])]
  BY <1>1 DEF c, z, odd, v, N
<1> QED
  BY <1>8, <1>14, <1>15 DEF h, b, M, odd, N

-----------------------------------------------------------------------------
(***************************************************************************)
(* Pushes: data of any length that the script language can state, and      *)
(* numbers of four bytes.                                                  *)
(***************************************************************************)

Pushes(code, rest) ==
  /\ code <= 75 => PushedBy(<<code>> \o rest) = SubSeq(rest, 1, code)
  /\ code = 76 => PushedBy(<<code>> \o rest) = SubSeq(rest, 2, 1 + rest[1])
  /\ code = 77 => PushedBy(<<code>> \o rest)
                    = SubSeq(rest, 3, 2 + ParseUIntLE(SubSeq(rest, 1, 2), 2))
  /\ code = 78 => PushedBy(<<code>> \o rest)
                    = SubSeq(rest, 5, 4 + ParseUIntLE(SubSeq(rest, 1, 4), 4))
  /\ code > 80 /\ code <= 96 => PushedBy(<<code>> \o rest) = <<code - 80>>

LEMMA PushedIs ==
  ASSUME NEW code \in Byte, NEW rest \in Seq(Byte)
  PROVE  Pushes(code, rest)
<1> DEFINE b == <<code>> \o rest
<1>1. b[1] = code /\ Tail(b) = rest
  <2>1. (<<code>> \o <<>>) \o rest = b /\ <<>> \o rest = rest /\ <<>> \in Seq(Byte)
    BY ConcatEmptySeq
  <2>2. Fronted((<<code>> \o <<>>) \o rest, code, <<>>, rest)
    BY <2>1, FrontAndRest, Zenon
  <2> HIDE DEF b
  <2>3. Fronted(b, code, <<>>, rest)
    BY <2>1, <2>2
  <2> QED
    BY <2>1, <2>3 DEF Fronted
<1> DEFINE x == SubSeq(rest, 1, code)
           y == SubSeq(rest, 2, 1 + rest[1])
           z == SubSeq(rest, 3, 2 + ParseUIntLE(SubSeq(rest, 1, 2), 2))
           u == SubSeq(rest, 5, 4 + ParseUIntLE(SubSeq(rest, 1, 4), 4))
<1>2. PushedBy(b) = CASE code <= 75 -> x [] code = 76 -> y [] code = 77 -> z
                      [] code = 78 -> u [] code > 80 /\ code <= 96 -> <<code - 80>>
  <2> HIDE DEF b
  <2> QED
    BY <1>1 DEF PushedBy
<1> DEFINE v == <<code - 80>>
<1> HIDE DEF b, x, y, z, u, v
<1>3. code \in Nat
  BY ByteIs
<1>4. PushedBy(b) = CASE code <= 75 -> x [] code = 76 -> y [] code = 77 -> z
                      [] code = 78 -> u [] code > 80 /\ code <= 96 -> v
  BY <1>2 DEF v
<1>5. /\ code <= 75 => PushedBy(b) = x
      /\ code = 76 => PushedBy(b) = y
      /\ code = 77 => PushedBy(b) = z
      /\ code = 78 => PushedBy(b) = u
      /\ code > 80 /\ code <= 96 => PushedBy(b) = v
  BY <1>3, <1>4
<1> QED
  BY <1>5 DEF Pushes, b, x, y, z, u, v

LEMMA SelfSubSeq ==
  ASSUME NEW s \in Seq(Byte)
  PROVE  SubSeq(s, 1, Len(s)) = s
<1>1. <<>> \in Seq(Byte) /\ s \o <<>> = s
  BY ConcatEmptySeq
<1>2. SubSeq(s \o <<>>, 1, Len(s)) = s
  BY <1>1, SplitAt
<1> QED
  BY <1>1, <1>2

(* What follows a length of w bytes.                                       *)
LEMMA LengthSplits ==
  ASSUME NEW w \in {2, 4}, NEW s \in Seq(Byte), Len(s) < Power(w)
  PROVE  LET r == LittleEndian(Len(s), w) \o s
         IN  /\ r \in Seq(Byte)
             /\ SubSeq(r, w + 1, w + ParseUIntLE(SubSeq(r, 1, w), w)) = s
<1> DEFINE n == Len(s)
           l == LittleEndian(n, w)
           r == l \o s
<1>1. n \in Nat /\ w \in Nat
  BY LenProperties
<1>2. l \in Seq(Byte) /\ Len(l) = w /\ ParseUIntLE(l, w) = n
  BY <1>1, LittleEndianBytes, NumberParsed
<1> HIDE DEF l
<1>3. r \in Seq(Byte) /\ Len(r) = w + n
  <2>1. r \in Seq(Byte) /\ Len(r) = Len(l) + Len(s)
    BY <1>2, Joins, Zenon
  <2> QED
    BY <1>2, <2>1
<1>4. SubSeq(r, 1, Len(l)) = l /\ SubSeq(r, Len(l) + 1, Len(r)) = s
  BY <1>2, SplitAt, Zenon
<1> HIDE DEF r
<1>5. SubSeq(r, w + 1, w + ParseUIntLE(SubSeq(r, 1, w), w)) = s
  BY <1>2, <1>3, <1>4
<1> QED
  BY <1>3, <1>5 DEF r, l

LEMMA OneByte ==
  ASSUME NEW x \in Byte
  PROVE  <<x>> \in Seq(Byte) /\ Len(<<x>>) = 1 /\ <<x>> \o <<>> = <<x>>
BY ConcatEmptySeq

(* The three pushes with a length, and the one that has none.              *)
LEMMA DirectPush ==
  ASSUME NEW s \in Seq(Byte), Len(s) <= 75
  PROVE  <<Len(s)>> \o s \in Seq(Byte) /\ PushedBy(<<Len(s)>> \o s) = s
<1>1. Len(s) \in Byte
  BY LenProperties, ByteIs
<1>2. PushedBy(<<Len(s)>> \o s) = SubSeq(s, 1, Len(s))
  <2>1. Pushes(Len(s), s)
    BY <1>1, PushedIs, Zenon
  <2> QED
    BY <2>1 DEF Pushes
<1>3. <<Len(s)>> \o s \in Seq(Byte)
  BY <1>1, OneByte, Joins
<1> QED
  BY <1>2, <1>3, SelfSubSeq

LEMMA ShortPush ==
  ASSUME NEW s \in Seq(Byte), Len(s) < 256
  PROVE  <<76, Len(s)>> \o s \in Seq(Byte) /\ PushedBy(<<76, Len(s)>> \o s) = s
<1> DEFINE size == Len(s)
           r == <<size>> \o s
<1>1. size \in Byte /\ 76 \in Byte
  BY LenProperties, ByteIs
<1>2. <<76>> \in Seq(Byte) /\ <<size>> \in Seq(Byte) /\ Len(<<size>>) = 1
  BY <1>1, OneByte
<1>3. <<76, size>> \o s = <<76>> \o r
  <2>1. <<76, size>> = <<76>> \o <<size>>
    OBVIOUS
  <2> QED
    BY <1>2, <2>1, Regroup
<1>4. r \in Seq(Byte) /\ SubSeq(r, 2, 1 + size) = s /\ r[1] = size
  <2>1. r \in Seq(Byte) /\ Len(r) = Len(<<size>>) + Len(s)
    BY <1>2, Joins, Zenon
  <2>2. r[1] = <<size>>[1]
    BY <1>2, ConcatProperties
  <2>3. SubSeq(r, Len(<<size>>) + 1, Len(r)) = s
    BY <1>2, SplitAt, Zenon
  <2> HIDE DEF r
  <2>4. Len(<<size>>) + 1 = 2 /\ Len(r) = 1 + size
    BY <1>2, <2>1
  <2> QED
    BY <2>1, <2>2, <2>3, <2>4
<1> HIDE DEF r
<1>5. PushedBy(<<76>> \o r) = SubSeq(r, 2, 1 + r[1])
  <2>1. Pushes(76, r)
    BY <1>1, <1>4, PushedIs, Zenon
  <2> QED
    BY <2>1 DEF Pushes
<1>6. <<76>> \o r \in Seq(Byte)
  BY <1>2, <1>4, Joins
<1> QED
  BY <1>3, <1>4, <1>5, <1>6

LEMMA CodedPush ==
  ASSUME NEW s \in Seq(Byte), NEW x, NEW w, <<x, w>> \in {<<77, 2>>, <<78, 4>>},
         Len(s) < Power(w)
  PROVE  /\ (<<x>> \o LittleEndian(Len(s), w)) \o s \in Seq(Byte)
         /\ PushedBy((<<x>> \o LittleEndian(Len(s), w)) \o s) = s
<1> DEFINE l == LittleEndian(Len(s), w)
           r == l \o s
<1>1. x \in Byte /\ w \in Nat /\ w \in {2, 4}
  BY ByteIs
<1>2. <<x>> \in Seq(Byte) /\ l \in Seq(Byte)
  BY <1>1, OneByte, LenProperties, LittleEndianBytes
<1>3. r \in Seq(Byte) /\ SubSeq(r, w + 1, w + ParseUIntLE(SubSeq(r, 1, w), w)) = s
  BY <1>1, LengthSplits
<1>4. (<<x>> \o l) \o s = <<x>> \o r
  BY <1>2, Regroup
<1> HIDE DEF r
<1>5. Pushes(x, r)
  BY <1>1, <1>3, PushedIs, Zenon
<1>6. PushedBy(<<x>> \o r) = SubSeq(r, w + 1, w + ParseUIntLE(SubSeq(r, 1, w), w))
  <2>1. CASE x = 77
    <3>1. w + 1 = 3 /\ w = 2
      BY <2>1
    <3>2. PushedBy(<<x>> \o r) = SubSeq(r, 3, 2 + ParseUIntLE(SubSeq(r, 1, 2), 2))
      BY <2>1, <1>5 DEF Pushes
    <3> QED
      BY <3>1, <3>2
  <2>2. CASE x = 78
    <3>1. w + 1 = 5 /\ w = 4
      BY <2>2
    <3>2. PushedBy(<<x>> \o r) = SubSeq(r, 5, 4 + ParseUIntLE(SubSeq(r, 1, 4), 4))
      BY <2>2, <1>5 DEF Pushes
    <3> QED
      BY <3>1, <3>2
  <2> QED
    BY <2>1, <2>2
<1>7. <<x>> \o r \in Seq(Byte)
  BY <1>2, <1>3, Joins
<1> QED
  BY <1>3, <1>4, <1>6, <1>7

LEMMA PushIs ==
  ASSUME NEW data \in Seq(Byte), Len(data) < Power(4)
  PROVE  Push(data) \in Seq(Byte) /\ PushParses(data)
<1> DEFINE size == Len(data)
           p == Push(data)
           kept == IF data = <<0>> THEN <<>> ELSE data
<1>1. size \in Nat
  BY LenProperties
<1> DEFINE none  == data \in {<<>>, <<0>>}
           small == size = 1 /\ data[1] <= 16
           v1 == <<0>>
           v2 == <<data[1] + 80>>
           v3 == <<size>> \o data
           v4 == <<76, size>> \o data
           v5 == (<<77>> \o LittleEndian(size, 2)) \o data
           v6 == (<<78>> \o LittleEndian(size, 4)) \o data
<1>2. p = IF none THEN v1 ELSE IF small THEN v2 ELSE IF size <= 75 THEN v3
          ELSE IF size < 256 THEN v4 ELSE IF size < 65536 THEN v5 ELSE v6
  BY DEF Push
<1> HIDE DEF p, none, small, size, v1, v2, v3, v4, v5, v6
<1>3. p \in Seq(Byte) /\ PushedBy(p) = kept
  <2>1. CASE none
    <3>1. p = <<0>> /\ kept = <<>> /\ <<>> \in Seq(Byte) /\ Len(<<>>) = 0
      BY <1>2, <2>1 DEF none, v1
    <3>2. <<Len(<<>>)>> \o <<>> = <<0>>
      OBVIOUS
    <3>3. <<Len(<<>>)>> \o <<>> \in Seq(Byte) /\ PushedBy(<<Len(<<>>)>> \o <<>>) = <<>>
      <4>1. Len(<<>>) <= 75
        OBVIOUS
      <4> QED
        BY <3>1, <4>1, DirectPush
    <3> QED
      BY <3>1, <3>2, <3>3
  <2>2. CASE ~ none
    <3>1. kept = data
      BY <2>2 DEF none
    <3> HIDE DEF kept
    <3>2. CASE small
      <4> DEFINE y == data[1]
      <4>1. y \in Byte /\ data = <<y>> /\ y <= 16
        BY <3>2 DEF small, size
      <4>2. y \in Nat /\ y # 0
        BY <2>2, <4>1, ByteIs DEF none
      <4> DEFINE x == y + 80
      <4>3. p = <<x>>
        BY <1>2, <2>2, <3>2 DEF v2
      <4> HIDE DEF y
      <4>4. x \in Byte /\ x > 80 /\ x <= 96 /\ x - 80 = y /\ <<>> \in Seq(Byte)
        BY <4>1, <4>2, ByteIs
      <4> HIDE DEF x
      <4>5. PushedBy(<<x>> \o <<>>) = <<x - 80>>
        <5>1. Pushes(x, <<>>)
          BY <4>4, PushedIs, Zenon
        <5> QED
          BY <4>4, <5>1 DEF Pushes
      <4> QED
        BY <3>1, <4>1, <4>3, <4>4, <4>5, OneByte
    <3>3. CASE ~ small /\ size <= 75
      <4>1. p = v3
        BY <1>2, <2>2, <3>3
      <4> QED
        BY <3>1, <3>3, <4>1, DirectPush DEF size, v3
    <3>4. CASE ~ small /\ ~ (size <= 75) /\ size < 256
      <4>1. p = v4
        BY <1>2, <2>2, <3>4
      <4> QED
        BY <3>1, <3>4, <4>1, ShortPush DEF size, v4
    <3>5. CASE ~ small /\ ~ (size <= 75) /\ ~ (size < 256) /\ size < 65536
      <4>1. p = v5
        BY <1>2, <2>2, <3>5
      <4>2. Len(data) < Power(2)
        BY <3>5, PowersAre DEF size
      <4> QED
        BY <3>1, <4>1, <4>2, CodedPush DEF size, v5
    <3>6. CASE ~ small /\ ~ (size <= 75) /\ ~ (size < 256) /\ ~ (size < 65536)
      <4>1. p = v6
        BY <1>2, <2>2, <3>6
      <4> QED
        BY <3>1, <4>1, CodedPush DEF size, v6
    <3> QED
      BY <3>2, <3>3, <3>4, <3>5, <3>6
  <2> QED
    BY <2>1, <2>2
<1> QED
  BY <1>3 DEF PushParses, p

(* The last of the bytes of a number that leaves its sign bit alone.       *)
LEMMA LastByte ==
  ASSUME NEW n \in Nat, NEW w \in Nat, w # 0, n \div 128 < Power(w - 1)
  PROVE  /\ n < Power(w)
         /\ LittleEndian(n, w)[w] \in Nat /\ LittleEndian(n, w)[w] < 128
<1> DEFINE u == w - 1
<1>1. u \in Nat /\ w = u + 1 /\ u \in 0..w /\ w \in 1..w
  OBVIOUS
<1> HIDE DEF u
<1>2. Power(u) \in Nat /\ Power(u + 1) = 256 * Power(u) /\ n < 128 * Power(u)
  <2> DEFINE P == Power(u)
  <2>1. P \in Nat /\ Power(u + 1) = 256 * P /\ n \div 128 < P
    BY <1>1, PowerSteps DEF u
  <2> HIDE DEF P
  <2>2. n < 128 * P
    BY <2>1
  <2> QED
    BY <2>1, <2>2 DEF P
<1>3. PICK f : Shifts(f, n, w) /\ LittleEndian(n, w) = LowBytes(f, w)
  BY LittleEndianIs
<1> DEFINE T == {k \in Nat : k <= u => f[k] < 128 * Power(u - k)}
<1>4. Nat \subseteq T
  <2>1. 0 \in T
    <3>1. u - 0 = u
      BY <1>1
    <3> QED
      BY <1>2, <1>3, <3>1 DEF Shifts
  <2>2. ASSUME NEW k \in Nat, k \in T PROVE k + 1 \in T
    <3> SUFFICES ASSUME k + 1 <= u PROVE f[k + 1] < 128 * Power(u - (k + 1))
      OBVIOUS
    <3> DEFINE j == u - (k + 1)
               Q == Power(j)
    <3>1. j \in Nat /\ j + 1 = u - k /\ k + 1 \in 1..w /\ (k + 1) - 1 = k /\ k \in 0..w
      BY <1>1
    <3> HIDE DEF j
    <3>2. f[k] < 128 * Power(j + 1) /\ Q \in Nat /\ Power(j + 1) = 256 * Q
      BY <1>1, <2>2, <3>1, PowerSteps
    <3>3. f[k + 1] = f[k] \div 256 /\ f[k] \in Nat
      BY <1>3, <3>1 DEF Shifts
    <3> HIDE DEF Q
    <3>4. f[k + 1] < 128 * Q
      BY <3>2, <3>3
    <3> QED
      BY <3>4 DEF j, Q
  <2> HIDE DEF T
  <2> QED
    BY <2>1, <2>2, Induction
<1>5. f[u] \in Nat /\ f[u] < 128
  <2>1. u \in T /\ u - u = 0
    BY <1>1, <1>4
  <2>2. f[u] < 128 * Power(0) /\ f[u] \in Nat
    BY <1>1, <1>3, <2>1 DEF Shifts
  <2> QED
    BY <2>2, PowersAre
<1>6. LittleEndian(n, w)[w] = f[u] % 256
  <2>1. w - 1 = u
    BY <1>1
  <2> QED
    BY <1>1, <1>3, <2>1 DEF LowBytes
<1>7. n < Power(w)
  BY <1>1, <1>2
<1> QED
  BY <1>5, <1>6, <1>7

LEMMA FromUIntIs ==
  ASSUME NEW n \in Nat, n < Power(4)
  PROVE  \E w \in Nat : /\ w # 0 /\ w <= 5 /\ n \div 128 < Power(w - 1)
                        /\ FromUInt(n) = LittleEndian(n, w)
                        /\ n < 128 => w = 1
<1> DEFINE upper == n \div 128
           w == IF upper = 0 THEN 1 ELSE IF upper < 256 THEN 2
                ELSE IF upper < 65536 THEN 3 ELSE IF upper < 16777216 THEN 4 ELSE 5
<1>1. FromUInt(n) = LittleEndian(n, w)
  BY DEF FromUInt
<1>2. upper \in Nat /\ n < 4294967296 /\ (upper >= 1 => n >= 128)
  BY PowersAre
<1>3. upper < 4294967296
  BY <1>2
<1>4. n < 128 => upper = 0
  OBVIOUS
<1> HIDE DEF upper
<1>5. w \in Nat /\ w # 0 /\ w <= 5 /\ (n < 128 => w = 1)
  BY <1>2, <1>4
<1>6. upper < Power(w - 1)
  <2>1. CASE w = 1
    <3>1. w - 1 = 0 /\ upper = 0
      BY <2>1
    <3> HIDE DEF w
    <3> QED
      BY <3>1, PowersAre
  <2>2. CASE w = 2
    <3>1. w - 1 = 1 /\ upper < 256
      BY <2>2
    <3> HIDE DEF w
    <3> QED
      BY <3>1, PowersAre
  <2>3. CASE w = 3
    <3>1. w - 1 = 2 /\ upper < 65536
      BY <2>3
    <3> HIDE DEF w
    <3> QED
      BY <3>1, PowersAre
  <2>4. CASE w = 4
    <3>1. w - 1 = 3 /\ upper < 16777216
      BY <2>4
    <3> HIDE DEF w
    <3> QED
      BY <3>1, PowersAre
  <2>5. CASE w = 5
    <3>1. w - 1 = 4
      BY <2>5
    <3> HIDE DEF w
    <3> QED
      BY <1>3, <3>1, PowersAre
  <2> QED
    BY <2>1, <2>2, <2>3, <2>4, <2>5
<1> HIDE DEF w
<1> QED
  BY <1>1, <1>5, <1>6 DEF upper

LEMMA NumberIs ==
  ASSUME NEW n \in Nat, n < Power(4)
  PROVE  FromUInt(n) \in Seq(Byte) /\ Len(FromUInt(n)) <= 5 /\ NumberParses(n)
<1>1. PICK w \in Nat : /\ w # 0 /\ w <= 5 /\ n \div 128 < Power(w - 1)
                       /\ FromUInt(n) = LittleEndian(n, w)
                       /\ n < 128 => w = 1
  BY FromUIntIs
<1> DEFINE s == LittleEndian(n, w)
<1>2. s \in Seq(Byte) /\ Len(s) = w
  BY LittleEndianBytes
<1>3. n < Power(w) /\ s[w] \in Nat /\ s[w] < 128
  BY <1>1, LastByte
<1>4. ParseUIntLE(s, w) = n
  BY <1>3, NumberParsed
<1>5. s = <<0>> => n = 0
  <2>0. s = <<0>> => Len(s) = 1 /\ s[1] = 0
    OBVIOUS
  <2> SUFFICES ASSUME Len(s) = 1, s[1] = 0 PROVE n = 0
    BY <2>0
  <2>1. w = 1 /\ s[1] = 0
    BY <1>2
  <2>2. PICK f : Shifts(f, n, w) /\ s = LowBytes(f, w)
    BY LittleEndianIs
  <2>3. s[1] = f[0] % 256 /\ f[0] = n
    <3> HIDE DEF s
    <3> QED
      BY <2>1, <2>2 DEF Shifts, LowBytes
  <2>4. n \div 128 < 1
    BY <1>1, <2>1, PowersAre
  <2> HIDE DEF s
  <2> QED
    BY <2>1, <2>3, <2>4
<1>6. PushedBy(Push(s)) = IF s = <<0>> THEN <<>> ELSE s
  <2>1. Len(s) < Power(4)
    BY <1>1, <1>2, PowersAre
  <2> HIDE DEF s
  <2>2. PushParses(s)
    BY <1>2, <2>1, PushIs
  <2> QED
    BY <2>2 DEF PushParses
<1>7. s # <<>> /\ FromUInt(n) = s
  BY <1>1, <1>2
<1> HIDE DEF s
<1>8. ScriptNumber(PushedBy(Push(s))) = n
  <2>1. CASE s = <<0>>
    <3>1. PushedBy(Push(s)) = <<>>
      BY <1>6, <2>1
    <3> QED
      BY <1>5, <2>1, <3>1 DEF ScriptNumber
  <2>2. CASE s # <<0>>
    <3>1. PushedBy(Push(s)) = s
      BY <1>6, <2>2
    <3>2. ~ (s[Len(s)] >= 128)
      BY <1>2, <1>3
    <3> QED
      BY <1>2, <1>4, <1>7, <3>1, <3>2 DEF ScriptNumber
  <2> QED
    BY <2>1, <2>2
<1> QED
  BY <1>1, <1>2, <1>7, <1>8 DEF NumberParses

-----------------------------------------------------------------------------
(***************************************************************************)
(* Blocks: what a node reads after the header.                             *)
(***************************************************************************)
LEMMA ConcatenatedBytes ==
  ASSUME NEW parts \in Seq(Seq(Byte))
  PROVE  Concatenated(parts) \in Seq(Byte)
<1> DEFINE N == Len(parts)
           Step(v, i) == v \o parts[i]
           next == [i \in 1..N |-> [v \in Seq(Byte) |-> Step(v, i)]]
<1>1. N \in Nat /\ \A i \in 1..N : parts[i] \in Seq(Byte)
  BY LenProperties
<1> HIDE DEF N
<1>2. next \in [1..N -> [Seq(Byte) -> Seq(Byte)]]
  <2>1. ASSUME NEW i \in 1..N, NEW v \in Seq(Byte) PROVE v \o parts[i] \in Seq(Byte)
    BY <1>1, Joins
  <2> QED
    BY <2>1
<1> HIDE DEF Step
<1>3. <<>> \in Seq(Byte)
  OBVIOUS
<1>4. PICK g : Iterates(g, Seq(Byte), <<>>, N, next)
  <2> HIDE DEF next
  <2> QED
    BY <1>1, <1>2, <1>3, Recursion, Zenon
<1>5. ASSUME NEW i \in 1..N PROVE g[i] = Step(g[i - 1], i)
  <2>1. next[i] = [v \in Seq(Byte) |-> Step(v, i)]
    OBVIOUS
  <2> HIDE DEF next
  <2>2. g[i - 1] \in Seq(Byte) /\ g[i] = next[i][g[i - 1]]
    BY <1>1, <1>4 DEF Iterates
  <2> QED
    BY <2>1, <2>2
<1> DEFINE Rec(h) == [i \in 0..N |-> IF i = 0 THEN <<>> ELSE Step(h[i - 1], i)]
           f == CHOOSE h : h = Rec(h)
<1>6. g = Rec(g)
  BY <1>1, <1>4, <1>5 DEF Iterates
<1>7. f = Rec(f)
  <2> HIDE DEF Rec
  <2> QED
    BY <1>6
<1>8. Concatenated(parts) = f[N]
  BY DEF Concatenated, N, Step
<1> HIDE DEF f
<1> DEFINE T == {k \in Nat : k <= N => f[k] \in Seq(Byte)}
<1>9. Nat \subseteq T
  <2>1. 0 \in T
    BY <1>1, <1>3, <1>7
  <2>2. ASSUME NEW k \in Nat, k \in T PROVE k + 1 \in T
    <3> SUFFICES ASSUME k + 1 <= N PROVE f[k + 1] \in Seq(Byte)
      OBVIOUS
    <3>1. f[k] \in Seq(Byte) /\ k + 1 \in 1..N /\ (k + 1) - 1 = k
      BY <1>1, <2>2
    <3>2. f[k + 1] = Step(f[k], k + 1)
      BY <1>1, <1>7, <3>1
    <3> QED
      BY <1>1, <3>1, <3>2, Joins DEF Step
  <2> HIDE DEF T
  <2> QED
    BY <2>1, <2>2, Induction
<1> QED
  BY <1>1, <1>8, <1>9

LEMMA BlockIs ==
  ASSUME NEW header \in Seq(Byte), NEW paying \in Seq(Byte),
         NEW transactions \in Seq(Seq(Byte)), 1 + Len(transactions) < Power(8)
  PROVE  BlockParses(header, paying, transactions)
<1> DEFINE N == 1 + Len(transactions)
           body == Concatenated(transactions)
           t == paying \o body
           c == VarInt(N)
           raw == SerializeBlock(header, paying, transactions)
<1>1. N \in Nat /\ N = Len(transactions) + 1
  BY LenProperties
<1>2. body \in Seq(Byte)
  BY ConcatenatedBytes
<1> HIDE DEF body
<1>3. t \in Seq(Byte)
  BY <1>2, Joins
<1>4. c \in Seq(Byte) /\ ReadVarInt(c \o t) = [value |-> N, rest |-> t]
  <2> HIDE DEF t
  <2> QED
    BY <1>1, <1>3, VarIntRead
<1>5. raw = ((header \o c) \o paying) \o body
  BY DEF SerializeBlock, body
<1> HIDE DEF c, raw
<1>6. raw = header \o (c \o t) /\ c \o t \in Seq(Byte)
  <2>1. header \o c \in Seq(Byte)
    BY <1>4, Joins
  <2>2. ((header \o c) \o paying) \o body = (header \o c) \o t
    BY <1>2, <2>1, Regroup
  <2> HIDE DEF t
  <2>3. (header \o c) \o t = header \o (c \o t)
    BY <1>3, <1>4, Regroup
  <2> QED
    BY <1>3, <1>4, <1>5, <2>2, <2>3, Joins
<1> HIDE DEF t, N
<1>7. SubSeq(raw, Len(header) + 1, Len(raw)) = c \o t
  BY <1>6, SplitAt
<1>8. ReadVarInt(SubSeq(raw, Len(header) + 1, Len(raw))) = [value |-> N, rest |-> t]
  BY <1>4, <1>7
<1> DEFINE count == ReadVarInt(SubSeq(raw, Len(header) + 1, Len(raw)))
<1>9. count.value = N /\ count.rest = t
  BY <1>8
<1> HIDE DEF count
<1>10. count.value = Len(transactions) + 1 /\ count.rest = t
  BY <1>1, <1>9
<1> QED
  BY <1>10 DEF BlockParses, count, raw, t, body

(***************************************************************************)
(* For all bytes, digits and numbers: what is written as hexadecimal       *)
(* digits, as a number of fixed or variable width, in a script or as a     *)
(* block's count of transactions is what its reader reads; digits that are *)
(* read come back with the zero that an odd number of them leaves out.     *)
(* Numbers and lengths have four bytes.                                    *)
(***************************************************************************)
THEOREM EncodingsReadBack ==
  /\ \A b \in Seq(Byte) : FromHex(AsHex(b)) = b
  /\ \A S : \A d \in Seq(S) :
       AsHex(FromHex(d)) = Zeros(Len(d) % 2) \o [i \in DOMAIN d |-> HexValue(d[i])]
  /\ \A n \in Nat : n < Power(4) =>
       /\ ParseUIntBE(Reversed(LittleEndian(n, 4)), 4) = n
       /\ NumberParses(n)
  /\ \A n \in Nat, t \in Seq(Byte) : n < Power(8) =>
       ReadVarInt(VarInt(n) \o t) = [value |-> n, rest |-> t]
  /\ \A data \in Seq(Byte) : Len(data) < Power(4) => PushParses(data)
  /\ \A header, paying \in Seq(Byte), transactions \in Seq(Seq(Byte)) :
       1 + Len(transactions) < Power(8) => BlockParses(header, paying, transactions)
<1>1. \A b \in Seq(Byte) : FromHex(AsHex(b)) = b
  BY HexReadsBack
<1>2. \A S : \A d \in Seq(S) :
        AsHex(FromHex(d)) = Zeros(Len(d) % 2) \o [i \in DOMAIN d |-> HexValue(d[i])]
  BY DigitsReadBack
<1>3. \A n \in Nat : n < Power(4) => /\ ParseUIntBE(Reversed(LittleEndian(n, 4)), 4) = n
                                     /\ NumberParses(n)
  BY FixedRead, NumberIs
<1>4. \A n \in Nat, t \in Seq(Byte) : n < Power(8) =>
        ReadVarInt(VarInt(n) \o t) = [value |-> n, rest |-> t]
  BY VarIntRead
<1>5. \A data \in Seq(Byte) : Len(data) < Power(4) => PushParses(data)
  BY PushIs
<1>6. \A header, paying \in Seq(Byte), transactions \in Seq(Seq(Byte)) :
        1 + Len(transactions) < Power(8) => BlockParses(header, paying, transactions)
  BY BlockIs
<1> QED
  BY <1>1, <1>2, <1>3, <1>4, <1>5, <1>6, Zenon

Repeated(data) == \E n \in MCLengths, b \in {0, 16, 200} : data = [i \in 1..n |-> b]

LEMMA EncodingInputs ==
  ASSUME NEW s \in Inputs
  PROVE  /\ s.of = "hex" => s.digits \in Sequences({-1, 0, 9, 15}, 0, 4)
         /\ s.of = "number" => s.n \in MCNumbersParsed
         /\ s.of = "push" => Repeated(s.data)
         /\ s.of = "block" => s.count \in {0, 1, 100}
<1>1. /\ s.of = "hex" => s.digits \in Sequences({-1, 0, 9, 15}, 0, 4)
      /\ s.of = "number" => s.n \in MCNumbersParsed
      /\ s.of = "push" => s.data \in {[i \in 1..n |-> b] : n \in MCLengths, b \in {0, 16, 200}}
      /\ s.of = "block" => s.count \in {0, 1, 100}
  BY SMT DEF Inputs
<1>2. s.of = "push" => Repeated(s.data)
  <2> DEFINE R == {[i \in 1..n |-> b] : n \in MCLengths, b \in {0, 16, 200}}
  <2>1. \A d \in R : Repeated(d)
    BY DEF Repeated
  <2>2. s.of = "push" => s.data \in R
    BY <1>1
  <2> HIDE DEF R
  <2> QED
    BY <2>1, <2>2
<1> QED
  BY <1>1, <1>2

LEMMA SequencesIs ==
  ASSUME NEW S, NEW n \in Nat
  PROVE  \A s \in Sequences(S, 0, n) : s \in Seq(S) /\ Len(s) <= n
BY DEF Sequences

LEMMA ZerosIs ==
  ASSUME NEW n \in Nat
  PROVE  Zeros(n) \in Seq(Byte) /\ Len(Zeros(n)) = n
<1>1. 0 \in Byte
  BY ByteIs
<1> QED
  BY <1>1 DEF Zeros

(***************************************************************************)
(* The run's inputs are such bytes, numbers, data and transactions.        *)
(***************************************************************************)
THEOREM EncodingsAreParsed == Spec => []EncodingsParse
<1>1. SubjectStays => EncodingsParse
  <2> SUFFICES ASSUME SubjectStays PROVE EncodingsParse
    OBVIOUS
  <2>1. ASSUME subject.of = "hex"
        PROVE  LET bytes  == FromHex(subject.digits)
                   digits == [i \in DOMAIN subject.digits |-> HexValue(subject.digits[i])]
               IN  /\ FromHex(AsHex(bytes)) = bytes
                   /\ AsHex(bytes) = Zeros(Len(digits) % 2) \o digits
    <3> DEFINE S == {-1, 0, 9, 15}
               d == subject.digits
               bytes == FromHex(d)
               digits == [i \in DOMAIN d |-> HexValue(d[i])]
    <3>1. d \in Seq(S)
      <4>1. d \in Sequences(S, 0, 4)
        BY <2>1, EncodingInputs DEF SubjectStays
      <4>2. 4 \in Nat
        OBVIOUS
      <4> HIDE DEF S, d
      <4> QED
        BY <4>1, <4>2, SequencesIs
    <3> HIDE DEF S, d
    <3>2. bytes \in Seq(Byte) /\ AsHex(bytes) = Zeros(Len(d) % 2) \o digits
      BY <3>1, DigitsReadBack
    <3>3. Len(digits) = Len(d)
      BY <3>1, HexDigits
    <3> HIDE DEF bytes, digits
    <3>4. FromHex(AsHex(bytes)) = bytes
      BY <3>2, EncodingsReadBack
    <3> QED
      BY <3>2, <3>3, <3>4 DEF bytes, digits, d
  <2>2. ASSUME subject.of = "number"
        PROVE  /\ ReadVarInt(VarInt(subject.n) \o <<7>>) = [value |-> subject.n, rest |-> <<7>>]
               /\ ParseUIntBE(Reversed(LittleEndian(subject.n, 4)), 4) = subject.n
               /\ NumberParses(subject.n)
    <3> DEFINE n == subject.n
    <3>1. n \in MCNumbersParsed
      BY <2>2, EncodingInputs DEF SubjectStays
    <3> HIDE DEF n
    <3>2. n \in Nat
      BY <3>1 DEF MCNumbersParsed
    <3>3. n < Power(4) /\ n < Power(8)
      <4>0. n < 4294967296
        BY <3>1 DEF MCNumbersParsed
      <4>1. Power(4 + 1) = 256 * Power(4) /\ Power(5 + 1) = 256 * Power(5)
            /\ Power(6 + 1) = 256 * Power(6) /\ Power(7 + 1) = 256 * Power(7)
        BY PowerSteps
      <4> QED
        BY <3>2, <4>0, <4>1, PowersAre
    <3>4. <<7>> \in Seq(Byte)
      BY ByteIs
    <3>5. ReadVarInt(VarInt(n) \o <<7>>) = [value |-> n, rest |-> <<7>>]
      BY <3>2, <3>3, <3>4, EncodingsReadBack, Zenon
    <3>6. ParseUIntBE(Reversed(LittleEndian(n, 4)), 4) = n /\ NumberParses(n)
      BY <3>2, <3>3, FixedRead, NumberIs
    <3> QED
      BY <3>5, <3>6 DEF n
  <2>3. ASSUME subject.of = "push" PROVE PushParses(subject.data)
    <3>0. Repeated(subject.data)
      BY <2>3, EncodingInputs DEF SubjectStays
    <3>1. PICK n \in MCLengths, b \in {0, 16, 200} : subject.data = [i \in 1..n |-> b]
      BY <3>0 DEF Repeated
    <3>2. n \in Nat /\ n < 500
      BY DEF MCLengths
    <3>3. b \in Byte
      BY ByteIs
    <3> DEFINE data == [i \in 1..n |-> b]
    <3>4. data \in Seq(Byte) /\ Len(data) = n
      BY <3>2, <3>3
    <3> HIDE DEF data
    <3>5. PushParses(data)
      BY <3>2, <3>4, PowersAre, PushIs
    <3> QED
      BY <3>1, <3>5 DEF data
  <2>4. ASSUME subject.of = "block"
        PROVE  BlockParses(Zeros(80), <<1, 2, 3>>, [i \in 1..subject.count |-> <<i % 256, 5>>])
    <3> DEFINE n == subject.count
               parts == [i \in 1..n |-> <<i % 256, 5>>]
    <3>1. n \in {0, 1, 100}
      BY <2>4, EncodingInputs DEF SubjectStays
    <3> HIDE DEF n
    <3>2. ASSUME NEW i \in 1..n PROVE <<i % 256, 5>> \in Seq(Byte)
      <4>1. i % 256 \in Byte /\ 5 \in Byte
        BY <3>1, ByteIs
      <4> QED
        BY <4>1
    <3>3. parts \in Seq(Seq(Byte)) /\ Len(parts) = n
      BY <3>1, <3>2
    <3> HIDE DEF parts
    <3>4. 1 + Len(parts) < Power(8)
      <4>1. Power(4 + 1) = 256 * Power(4) /\ Power(5 + 1) = 256 * Power(5)
            /\ Power(6 + 1) = 256 * Power(6) /\ Power(7 + 1) = 256 * Power(7)
        BY PowerSteps
      <4> QED
        BY <3>1, <3>3, <4>1, PowersAre
    <3>5. Zeros(80) \in Seq(Byte) /\ <<1, 2, 3>> \in Seq(Byte)
      <4>1. 80 \in Nat /\ 1 \in Byte /\ 2 \in Byte /\ 3 \in Byte
        BY ByteIs
      <4>2. Zeros(80) \in Seq(Byte)
        BY <4>1, ZerosIs
      <4> QED
        BY <4>1, <4>2
    <3>6. BlockParses(Zeros(80), <<1, 2, 3>>, parts)
      BY <3>3, <3>4, <3>5, BlockIs
    <3> QED
      BY <3>6 DEF parts, n
  <2> QED
    BY <2>1, <2>2, <2>3, <2>4 DEF EncodingsParse
<1> QED
  BY <1>1, SubjectIs, PTL

-----------------------------------------------------------------------------
(***************************************************************************)
(* Headers.  Bytes are the little endian form of the number they make.     *)
(***************************************************************************)
LEMMA BytesRead ==
  ASSUME NEW b \in Seq(Byte)
  PROVE  FromBytes(b) \in Nat /\ LittleEndian(FromBytes(b), Len(b)) = b
<1> DEFINE N == Len(b)
<1>1. N \in Nat /\ b \in [1..N -> Byte] /\ b \in Seq(Nat)
  BY LenProperties, ByteIsNat
<1>2. PICK f : Gathers(f, b) /\ FromBytes(b) = f[N]
  BY <1>1, FromBytesIs
<1> HIDE DEF N
<1>3. /\ f \in [0..N -> Nat] /\ f[0] = 0
      /\ \A i \in 1..N : f[i] = b[N + 1 - i] + 256 * f[i - 1]
  BY <1>2 DEF Gathers, N
<1>4. ASSUME NEW i \in 1..N
      PROVE  f[i] \div 256 = f[i - 1] /\ f[i] % 256 = b[N + 1 - i]
  <2> DEFINE x == b[N + 1 - i]
             y == f[i - 1]
             z == f[i]
  <2>1. N + 1 - i \in 1..N /\ i - 1 \in 0..N
    BY <1>1
  <2>2. x \in Nat /\ x < 256
    BY <1>1, <2>1, ByteIs
  <2>3. y \in Nat /\ z = x + 256 * y
    BY <1>3, <2>1
  <2> HIDE DEF x, y, z
  <2>4. z \div 256 = y /\ z % 256 = x
    BY <2>2, <2>3
  <2> QED
    BY <2>4 DEF x, y, z
<1> DEFINE s == [k \in 0..N |-> f[N - k]]
<1>5. Shifts(s, f[N], N)
  <2>1. s \in [0..N -> Nat]
    BY <1>1, <1>3
  <2>2. s[0] = f[N]
    BY <1>1
  <2>3. ASSUME NEW k \in 1..N PROVE s[k] = s[k - 1] \div 256
    <3> DEFINE i == N - (k - 1)
    <3>1. i \in 1..N /\ i - 1 = N - k
      BY <1>1
    <3>2. s[k] = f[N - k] /\ s[k - 1] = f[i]
      BY <1>1
    <3> HIDE DEF i, s
    <3> QED
      BY <1>4, <3>1, <3>2
  <2> QED
    BY <2>1, <2>2, <2>3 DEF Shifts
<1>6. f[N] \in Nat
  BY <1>1, <1>3
<1>7. LittleEndian(f[N], N) = LowBytes(s, N)
  <2> HIDE DEF s
  <2> QED
    BY <1>1, <1>5, <1>6, ShiftsOnce
<1>8. ASSUME NEW i \in 1..N PROVE s[i - 1] % 256 = b[i]
  <2> DEFINE k == N - (i - 1)
  <2>1. k \in 1..N /\ N + 1 - k = i /\ s[i - 1] = f[k]
    BY <1>1
  <2> HIDE DEF k, s
  <2> QED
    BY <1>4, <2>1
<1> HIDE DEF s
<1>9. LowBytes(s, N) = b
  BY <1>1, <1>8 DEF LowBytes
<1> QED
  BY <1>2, <1>6, <1>7, <1>9 DEF N

(* A number of eight digits, as it is submitted.                           *)
Words == {d \in Seq(0..15) : Len(d) = 8}

LEMMA WordRead ==
  ASSUME NEW d \in Words
  PROVE  /\ FromHex(d) \in Seq(Byte) /\ Len(FromHex(d)) = 4
         /\ ParseUIntBE(FromHex(d), 4) \in Nat
         /\ LittleEndian(ParseUIntBE(FromHex(d), 4), 4) = Reversed(FromHex(d))
<1> DEFINE b == FromHex(d)
<1>1. b \in Seq(Byte)
  BY DigitsReadBack DEF Words
<1>2. Len(b) = 4
  <2>1. Len(d) = 8 /\ Len(b) = (Len(d) + (Len(d) % 2)) \div 2
    BY DigitsReadBack DEF Words
  <2> HIDE DEF b
  <2> QED
    BY <2>1
<1> HIDE DEF b
<1> DEFINE r == Reversed(b)
<1>3. r \in Seq(Byte) /\ Len(r) = 4
  BY <1>1, <1>2, ReversedIs
<1> HIDE DEF r
<1>4. FromBytes(r) \in Nat /\ LittleEndian(FromBytes(r), 4) = r
  BY <1>3, BytesRead
<1>5. ParseUIntBE(b, 4) = FromBytes(r)
  BY <1>3 DEF ParseUIntBE, ParseUIntLE, r
<1> QED
  BY <1>1, <1>2, <1>4, <1>5 DEF b, r

LEMMA SwappedTwice ==
  ASSUME NEW b \in Seq(Byte), Len(b) % 4 = 0
  PROVE  Swap32All(b) \in Seq(Byte) /\ Swap32All(Swap32All(b)) = b
<1> DEFINE N == Len(b)
           k(i) == i + 3 - 2 * ((i - 1) % 4)
           s == Swap32All(b)
<1>1. N \in Nat /\ b \in [1..N -> Byte] /\ N % 4 = 0
  BY LenProperties
<1>2. s = [i \in 1..N |-> b[k(i)]]
  BY <1>1 DEF Swap32All
<1> HIDE DEF N, s
<1>3. ASSUME NEW i \in 1..N PROVE k(i) \in 1..N /\ k(k(i)) = i
  BY <1>1
<1> HIDE DEF k
<1>4. s \in [1..N -> Byte]
  BY <1>1, <1>2, <1>3
<1>5. s \in Seq(Byte) /\ DOMAIN s = 1..N
  BY <1>1, <1>4
<1>6. Swap32All(s) = [i \in 1..N |-> s[k(i)]]
  BY <1>5 DEF Swap32All, k
<1>7. \A i \in 1..N : s[k(i)] = b[i]
  BY <1>2, <1>3
<1>8. Swap32All(s) = b
  BY <1>1, <1>6, <1>7
<1> QED
  BY <1>5, <1>8 DEF s

(* Different leaves have different roots.                                  *)
LEMMA HashInjective ==
  ASSUME NEW a, NEW b, NEW c, NEW d, Hash(a, b) = Hash(c, d)
  PROVE  a = c
<1>1. Hash(a, b)[2] = a /\ Hash(c, d)[2] = c
  BY DEF Hash
<1> QED
  BY <1>1, Zenon

LEMMA RootInjective ==
  ASSUME NEW b, IsSeq(b), NEW x, NEW y, x # y
  PROVE  GetRoot(b, x) # GetRoot(b, y)
<1> DEFINE N == Len(b)
<1>1. N \in Nat
  BY SeqIs
<1>2. PICK f : Climbs(f, b, x) /\ GetRoot(b, x) = f[N]
  BY RootIs
<1>3. PICK g : Climbs(g, b, y) /\ GetRoot(b, y) = g[N]
  BY RootIs
<1>4. /\ f = [i \in 0..N |-> IF i = 0 THEN x ELSE Hash(f[i - 1], b[i])]
      /\ g = [i \in 0..N |-> IF i = 0 THEN y ELSE Hash(g[i - 1], b[i])]
  BY <1>2, <1>3 DEF Climbs
<1> HIDE DEF N
<1> DEFINE T == {k \in Nat : k <= N => f[k] # g[k]}
<1>5. Nat \subseteq T
  <2>1. 0 \in T
    BY <1>1, <1>4
  <2>2. ASSUME NEW k \in Nat, k \in T PROVE k + 1 \in T
    <3> SUFFICES ASSUME k + 1 <= N PROVE f[k + 1] # g[k + 1]
      OBVIOUS
    <3>1. k + 1 \in 0..N /\ k + 1 # 0 /\ (k + 1) - 1 = k /\ k <= N
      BY <1>1
    <3>2. f[k + 1] = Hash(f[k], b[k + 1]) /\ g[k + 1] = Hash(g[k], b[k + 1])
      BY <1>4, <3>1
    <3>3. f[k] # g[k]
      BY <2>2, <3>1
    <3>4. Hash(f[k], b[k + 1]) # Hash(g[k], b[k + 1])
      BY <3>3, HashInjective
    <3> QED
      BY <3>2, <3>4
  <2> HIDE DEF T
  <2> QED
    BY <2>1, <2>2, Induction
<1> QED
  BY <1>1, <1>2, <1>3, <1>5

LEMMA HeaderIs ==
  ASSUME NEW a, NEW b, NEW r, NEW s, NEW t, NEW c, NEW n
  PROVE  /\ Header(a, b, r, t, c, n) = Header(a, b, s, t, c, n) <=> r = s
         /\ Header(a, b, r, t, c, n)[3] = r
<1>1. Header(a, b, r, t, c, n)[3] = r /\ Header(a, b, s, t, c, n)[3] = s
  BY DEF Header
<1> QED
  BY <1>1, Zenon

(* The two coinbases are the same one if the nonce has all its digits, and
   have different lengths if it has not.                                   *)
SameCoinbases(part1, part2, e1, e2) ==
  LET submitted == ParseUIntLE(FromHex(AsHex(e2)), 4)
      raw == ((part1 \o e1) \o LittleEndian(submitted, 4)) \o part2
      made == ((FromHex(AsHex(part1)) \o e1) \o e2) \o FromHex(AsHex(part2))
  IN  (<<"tx", raw>> = <<"tx", made>>) <=> Len(e2) = 4

LEMMA CoinbasesAgree ==
  ASSUME NEW part1 \in Seq(Byte), NEW part2 \in Seq(Byte), NEW e1 \in Seq(Byte),
         NEW e2 \in Seq(Byte), Len(e2) <= 4
  PROVE  SameCoinbases(part1, part2, e1, e2)
<1> DEFINE submitted == ParseUIntLE(FromHex(AsHex(e2)), 4)
           four == LittleEndian(submitted, 4)
           front == part1 \o e1
           raw == (front \o four) \o part2
           made == (front \o e2) \o part2
<1>1. FromHex(AsHex(part1)) = part1 /\ FromHex(AsHex(part2)) = part2
      /\ FromHex(AsHex(e2)) = e2
  BY HexReadsBack
<1>2. submitted = FromBytes(e2)
  BY <1>1 DEF ParseUIntLE
<1>3. FromBytes(e2) \in Nat /\ LittleEndian(FromBytes(e2), Len(e2)) = e2
  BY BytesRead
<1>4. four \in Seq(Byte) /\ Len(four) = 4
  <2>1. submitted \in Nat /\ 4 \in Nat
    BY <1>2, <1>3
  <2> HIDE DEF submitted
  <2> QED
    BY <2>1, LittleEndianBytes
<1>5. Len(e2) = 4 => four = e2
  BY <1>2, <1>3
<1> HIDE DEF four, submitted
<1>6. front \in Seq(Byte)
  BY Joins
<1> HIDE DEF front
<1>7. /\ front \o four \in Seq(Byte) /\ Len(front \o four) = Len(front) + 4
      /\ front \o e2 \in Seq(Byte) /\ Len(front \o e2) = Len(front) + Len(e2)
  BY <1>4, <1>6, Joins
<1>8. Len(raw) = (Len(front) + 4) + Len(part2) /\ Len(made) = (Len(front) + Len(e2)) + Len(part2)
  BY <1>7, Joins, SMTT(20)
<1>9. Len(front) \in Nat /\ Len(part2) \in Nat /\ Len(e2) \in Nat
  BY <1>6, LenProperties
<1>10. Len(e2) = 4 => raw = made
  BY <1>5
<1> HIDE DEF raw, made
<1>11. ASSUME raw = made PROVE Len(e2) = 4
  <2> DEFINE F == Len(front)
             P == Len(part2)
             E == Len(e2)
  <2>1. Len(raw) = Len(made)
    BY <1>11
  <2>2. (F + 4) + P = (F + E) + P
    BY <1>8, <2>1
  <2>3. F \in Nat /\ P \in Nat /\ E \in Nat
    BY <1>9
  <2> HIDE DEF F, P, E
  <2>4. E = 4
    BY <2>2, <2>3
  <2> QED
    BY <2>4 DEF E
<1>12. (<<"tx", raw>> = <<"tx", made>>) <=> raw = made
  <2>1. <<"tx", raw>>[2] = raw /\ <<"tx", made>>[2] = made
    OBVIOUS
  <2> QED
    BY <2>1, Zenon
<1> QED
  BY <1>1, <1>10, <1>11, <1>12 DEF SameCoinbases, raw, made, front, four, submitted

(* Templates of the node: hexadecimal words, and hashes of whole words.    *)
Templates ==
  [version : Nat, bits : Words, previousblockhash : {d \in Seq(0..15) : Len(d) % 8 = 0},
   mintime : Nat]

LEMMA TemplateRead ==
  ASSUME NEW template \in Templates
  PROVE  LET network == StateOf(template)
         IN  /\ network.version \in Seq(Byte) /\ network.bits \in Seq(Byte)
             /\ network.previousBlock \in Seq(Byte) /\ Len(network.previousBlock) % 4 = 0
<1> DEFINE network == StateOf(template)
           d == template.previousblockhash
           b == FromHex(d)
<1>1. template.version \in Nat /\ template.bits \in Words /\ d \in Seq(0..15)
      /\ Len(d) % 8 = 0
  BY DEF Templates
<1>2. /\ network.version = LittleEndian(template.version, 4)
      /\ network.bits = FromHex(template.bits)
      /\ network.previousBlock = Reversed(b)
  BY DEF StateOf
<1>3. LittleEndian(template.version, 4) \in Seq(Byte)
  <2>1. 4 \in Nat
    OBVIOUS
  <2> QED
    BY <1>1, <2>1, LittleEndianBytes
<1>4. FromHex(template.bits) \in Seq(Byte)
  BY <1>1, WordRead
<1> HIDE DEF d
<1>5. b \in Seq(Byte) /\ Len(b) = (Len(d) + (Len(d) % 2)) \div 2
  BY <1>1, DigitsReadBack
<1> HIDE DEF b
<1>6. Len(b) % 4 = 0
  <2>1. Len(d) \in Nat
    BY <1>1, LenProperties
  <2> DEFINE N == Len(d)
  <2>2. N \in Nat /\ N % 8 = 0 /\ Len(b) = (N + (N % 2)) \div 2
    BY <1>1, <1>5, <2>1
  <2> HIDE DEF N
  <2> QED
    BY <2>2
<1>7. Reversed(b) \in Seq(Byte) /\ Len(Reversed(b)) % 4 = 0
  BY <1>5, <1>6, ReversedIs
<1> HIDE DEF network
<1>8. /\ network.version \in Seq(Byte) /\ network.bits \in Seq(Byte)
      /\ network.previousBlock \in Seq(Byte) /\ Len(network.previousBlock) % 4 = 0
  BY <1>2, <1>3, <1>4, <1>7
<1> QED
  BY <1>8 DEF network

(***************************************************************************)
(* For every template, coinbase, branch, clock and submission: the job the *)
(* miner names is the one it was told, the header the server checks is the *)
(* one the miner has hashed exactly if the miner's nonce has all its four  *)
(* bytes (shorter ones are filled up, longer ones refused), it is the one  *)
(* the node reads, and its time is not before the template's.              *)
(***************************************************************************)
THEOREM HeadersAreOne ==
  ASSUME NEW template \in Templates, NEW id \in Nat, id < Power(4),
         NEW part1 \in Seq(Byte), NEW part2 \in Seq(Byte), NEW branch, IsSeq(branch),
         NEW started \in Nat, NEW now \in Nat, NEW e1 \in Seq(Byte),
         NEW e2 \in Seq(Byte), Len(e2) <= 4, NEW time \in Words, NEW nonce \in Words
  PROVE  HeaderAgrees(
           template,
           [id |-> id, state |-> StateOf(template), part1 |-> part1, part2 |-> part2,
            branch |-> branch,
            time |-> CreationTime(now, MiningStartTime(started, template.mintime))],
           e1, e2, time, nonce)
<1> DEFINE network == StateOf(template)
           version == network.version
           bits == network.bits
           parent == network.previousBlock
           job == [id |-> id, state |-> network, part1 |-> part1, part2 |-> part2,
                   branch |-> branch,
                   time |-> CreationTime(now, MiningStartTime(started, template.mintime))]
           json == ToJson(job)
           submit == MiningSubmit([jobId |-> json.id, extraNonce2 |-> AsHex(e2),
                                   time |-> time, nonce |-> nonce])
           t == Reversed(FromHex(time))
           n == Reversed(FromHex(nonce))
           made == ((FromHex(AsHex(part1)) \o e1) \o e2) \o FromHex(AsHex(part2))
           checked == GetRoot(branch, <<"tx", RawCoinbase(job, e1, submit)>>)
           hashed == GetRoot(branch, <<"tx", made>>)
           server == SolutionHeader(job, e1, submit)
           miner == MinersHeader(json, e1, e2, time, nonce)
<1>1. /\ version \in Seq(Byte) /\ bits \in Seq(Byte)
      /\ parent \in Seq(Byte) /\ Len(parent) % 4 = 0
  BY TemplateRead
<1>2. /\ version = LittleEndian(template.version, 4)
      /\ bits = FromHex(template.bits)
      /\ parent = Reversed(FromHex(template.previousblockhash))
  BY DEF StateOf
<1>3. job.time >= template.mintime
  <2>1. template.mintime \in Nat
    BY DEF Templates
  <2> QED
    BY <2>1 DEF CreationTime, MiningStartTime
<1> HIDE DEF network
<1>4. /\ json.id = Int2Hex(LittleEndian(id, 4))
      /\ json.prevhash = AsHex(Swap32All(parent))
      /\ json.part1 = AsHex(part1) /\ json.part2 = AsHex(part2) /\ json.branch = branch
      /\ json.version = Int2Hex(version) /\ json.bits = AsHex(bits)
  BY DEF ToJson
<1>5. job.id = id /\ job.state = network /\ job.part1 = part1 /\ job.part2 = part2
      /\ job.branch = branch
  OBVIOUS
<1> HIDE DEF json, job
<1>6. /\ submit.jobId = ParseUIntBE(FromHex(json.id), 4)
      /\ submit.extraNonce2 = ParseUIntLE(FromHex(AsHex(e2)), 4)
      /\ submit.time = ParseUIntBE(FromHex(time), 4)
      /\ submit.nonce = ParseUIntBE(FromHex(nonce), 4)
  BY DEF MiningSubmit
<1> HIDE DEF submit
<1>7. submit.jobId = id
  <2> DEFINE r == Reversed(LittleEndian(id, 4))
  <2>1. LittleEndian(id, 4) \in Seq(Byte)
    <3>1. 4 \in Nat
      OBVIOUS
    <3> QED
      BY <3>1, LittleEndianBytes
  <2>2. r \in Seq(Byte)
    BY <2>1, ReversedIs
  <2>3. ParseUIntBE(r, 4) = id
    BY FixedRead
  <2>4. json.id = AsHex(r)
    BY <1>4 DEF Int2Hex
  <2> HIDE DEF r
  <2>5. FromHex(json.id) = r
    BY <2>2, <2>4, HexReadsBack
  <2> QED
    BY <1>6, <2>3, <2>5
<1>8. LittleEndian(submit.time, 4) = t /\ LittleEndian(submit.nonce, 4) = n
  BY <1>6, WordRead
<1>9. Reversed(FromHex(json.version)) = version
  <2>1. Reversed(version) \in Seq(Byte) /\ Reversed(Reversed(version)) = version
    BY <1>1, ReversedIs
  <2>2. FromHex(json.version) = Reversed(version)
    BY <1>4, <2>1, HexReadsBack DEF Int2Hex
  <2> QED
    BY <2>1, <2>2
<1>10. Swap32All(FromHex(json.prevhash)) = parent
  <2>1. Swap32All(parent) \in Seq(Byte) /\ Swap32All(Swap32All(parent)) = parent
    BY <1>1, SwappedTwice
  <2> QED
    BY <1>4, <2>1, HexReadsBack
<1>11. FromHex(json.bits) = bits
  BY <1>1, <1>4, HexReadsBack
<1>12. miner = Header(version, parent, hashed, t, Reversed(bits), n)
  BY <1>4, <1>9, <1>10, <1>11 DEF MinersHeader
<1>13. server = Header(version, parent, checked, t, Reversed(bits), n)
  BY <1>5, <1>8 DEF SolutionHeader, Swap32
<1>14. RawCoinbase(job, e1, submit)
         = ((part1 \o e1) \o LittleEndian(ParseUIntLE(FromHex(AsHex(e2)), 4), 4)) \o part2
  BY <1>5, <1>6 DEF RawCoinbase
<1>15. (<<"tx", RawCoinbase(job, e1, submit)>> = <<"tx", made>>) <=> Len(e2) = 4
  <2> DEFINE raw == ((part1 \o e1) \o LittleEndian(ParseUIntLE(FromHex(AsHex(e2)), 4), 4)) \o part2
  <2>1. SameCoinbases(part1, part2, e1, e2)
    BY CoinbasesAgree, Zenon
  <2>2. (<<"tx", raw>> = <<"tx", made>>) <=> Len(e2) = 4
    BY <2>1, Zenon DEF SameCoinbases
  <2> HIDE DEF raw, made
  <2>3. RawCoinbase(job, e1, submit) = raw
    BY <1>14 DEF raw
  <2> QED
    BY <2>2, <2>3
<1>16. (checked = hashed) <=> Len(e2) = 4
  <2> DEFINE x == <<"tx", RawCoinbase(job, e1, submit)>>
             y == <<"tx", made>>
  <2> HIDE DEF x, y
  <2>1. (x = y) <=> Len(e2) = 4
    BY <1>15 DEF x, y
  <2>2. x # y => GetRoot(branch, x) # GetRoot(branch, y)
    BY RootInjective
  <2>3. (GetRoot(branch, x) = GetRoot(branch, y)) <=> Len(e2) = 4
    BY <2>1, <2>2, Zenon
  <2> QED
    BY <2>3 DEF x, y
<1> HIDE DEF checked, hashed, made, t, n, version, bits, parent, server, miner
<1>17. (server = miner) <=> Len(e2) = 4
  BY <1>12, <1>13, <1>16, HeaderIs
<1>18. server[3] = checked
  BY <1>13, HeaderIs
<1>19. server = NodesHeader(template, server[3], time, nonce)
  BY <1>2, <1>13, <1>18 DEF NodesHeader, t, n
<1>20. submit.jobId = job.id
  BY <1>5, <1>7
<1> QED
  BY <1>3, <1>17, <1>19, <1>20 DEF HeaderAgrees, json, submit, server, miner, job, network

LEMMA HeaderInputs ==
  ASSUME NEW s \in Inputs, s.of = "header"
  PROVE  /\ s.template \in MCTemplates /\ s.started \in MCClocks /\ s.now \in MCClocks
         /\ s.id \in {1, 258}
         /\ s.extraNonce2 \in {<<1, 2, 3, 4>>, <<1, 2, 3>>, <<1, 2, 3, 0>>}
         /\ s.time \in MCHexWords /\ s.nonce \in MCHexWords
BY SMT DEF Inputs

LEMMA HeaderClocks ==
  ASSUME NEW s \in Inputs, s.of = "header"
  PROVE  s.started \in MCClocks /\ s.now \in MCClocks
BY HeaderInputs, SMT

LEMMA HexWords == MCHexWords \subseteq Words
<1>1. <<0, 0, 0, 1, 2, 3, 4, 15>> \in Words
  BY DEF Words
<1>2. <<7, 15, 0, 0, 10, 0, 0, 1>> \in Words
  BY DEF Words
<1> QED
  BY <1>1, <1>2 DEF MCHexWords

LEMMA ExampleTemplates == MCTemplates \subseteq Templates
<1> DEFINE P == {d \in Seq(0..15) : Len(d) % 8 = 0}
           a == [i \in 1..16 |-> (5 * i) % 16]
           z == [i \in 1..16 |-> 0]
           w == <<1, 9, 0, 8, 14, 15, 4, 0>>
<1>1. a \in P /\ z \in P
  <2>1. a \in Seq(0..15) /\ Len(a) = 16
    OBVIOUS
  <2>2. z \in Seq(0..15) /\ Len(z) = 16
    OBVIOUS
  <2>3. 16 % 8 = 0
    OBVIOUS
  <2> HIDE DEF a, z
  <2> QED
    BY <2>1, <2>2, <2>3
<1>2. w \in Words
  BY DEF Words
<1> HIDE DEF P, a, z, w
<1>3. [version : {1, 536870914}, bits : {w}, previousblockhash : {a, z}, mintime : {0, 1000}]
        \subseteq [version : Nat, bits : Words, previousblockhash : P, mintime : Nat]
  BY <1>1, <1>2, SMT
<1> QED
  BY <1>3 DEF MCTemplates, Templates, P, a, z, w

(***************************************************************************)
(* The run's templates, clocks and submissions are such.                   *)
(***************************************************************************)
THEOREM HeadersAreAgreed == Spec => []HeadersAgree
<1>1. SubjectStays => HeadersAgree
  <2> SUFFICES ASSUME subject \in Inputs, subject.of = "header"
               PROVE  HeadersAgree
    BY DEF SubjectStays, HeadersAgree
  <2> DEFINE b == <<<<"tx", 1>>, <<"tx", 2>>>>
  <2>1. subject.template \in Templates /\ subject.time \in Words /\ subject.nonce \in Words
    BY HeaderInputs, HexWords, ExampleTemplates
  <2>2. subject.started \in Nat /\ subject.now \in Nat
    <3>1. MCClocks \subseteq Nat
      BY DEF MCClocks
    <3> QED
      BY <3>1, HeaderClocks
  <2>3. subject.id \in Nat /\ subject.id < Power(4)
    <3>1. subject.id \in {1, 258}
      BY HeaderInputs
    <3> QED
      BY <3>1, PowersAre
  <2>4. subject.extraNonce2 \in Seq(Byte) /\ Len(subject.extraNonce2) <= 4
    <3>0. 0 \in Byte /\ 1 \in Byte /\ 2 \in Byte /\ 3 \in Byte /\ 4 \in Byte
      BY ByteIs
    <3>1. /\ <<1, 2, 3, 4>> \in Seq(Byte) /\ Len(<<1, 2, 3, 4>>) <= 4
          /\ <<1, 2, 3>> \in Seq(Byte) /\ Len(<<1, 2, 3>>) <= 4
          /\ <<1, 2, 3, 0>> \in Seq(Byte) /\ Len(<<1, 2, 3, 0>>) <= 4
      BY <3>0
    <3>2. subject.extraNonce2 \in {<<1, 2, 3, 4>>, <<1, 2, 3>>, <<1, 2, 3, 0>>}
      BY HeaderInputs
    <3> QED
      BY <3>1, <3>2, Zenon
  <2>5. <<1, 250>> \in Seq(Byte) /\ <<0, 17>> \in Seq(Byte) /\ <<9, 8, 7, 6>> \in Seq(Byte)
    <3>0. 0 \in Byte /\ 1 \in Byte /\ 250 \in Byte /\ 17 \in Byte
          /\ 9 \in Byte /\ 8 \in Byte /\ 7 \in Byte /\ 6 \in Byte
      BY ByteIs
    <3> QED
      BY <3>0
  <2>6. IsSeq(b)
    <3>1. b \in Seq({<<"tx", 1>>, <<"tx", 2>>})
      OBVIOUS
    <3> HIDE DEF b
    <3> QED
      BY <3>1 DEF IsSeq
  <2> HIDE DEF b
  <2>7. HeaderAgrees(
          subject.template,
          [id |-> subject.id, state |-> StateOf(subject.template), part1 |-> <<1, 250>>,
           part2 |-> <<0, 17>>, branch |-> b,
           time |-> CreationTime(subject.now,
                                 MiningStartTime(subject.started, subject.template.mintime))],
          <<9, 8, 7, 6>>, subject.extraNonce2, subject.time, subject.nonce)
    BY <2>1, <2>2, <2>3, <2>4, <2>5, <2>6, HeadersAreOne, ZenonT(40)
  <2> QED
    BY <2>7 DEF HeadersAgree, b
<1> QED
  BY <1>1, SubjectIs, PTL

-----------------------------------------------------------------------------
(***************************************************************************)
(* Coinbase transactions: the bytes of scripts and outputs.                *)
(***************************************************************************)
LEMMA PushBytes ==
  ASSUME NEW data \in Seq(Byte)
  PROVE  Push(data) \in Seq(Byte) /\ Len(Push(data)) <= Len(data) + 5
<1> DEFINE size == Len(data)
           p == Push(data)
           none  == data \in {<<>>, <<0>>}
           small == size = 1 /\ data[1] <= 16
           v2 == <<data[1] + 80>>
           v4 == <<76, size>> \o data
           w5 == <<77>> \o LittleEndian(size, 2)
           w6 == <<78>> \o LittleEndian(size, 4)
           Fits(v) == v \in Seq(Byte) /\ Len(v) <= size + 5
<1>1. size \in Nat
  BY LenProperties
<1>2. p = IF none THEN <<0>> ELSE IF small THEN v2 ELSE IF size <= 75 THEN <<size>> \o data
          ELSE IF size < 256 THEN v4 ELSE IF size < 65536 THEN w5 \o data ELSE w6 \o data
  BY DEF Push
<1> HIDE DEF p, none
<1>3. Fits(<<0>>)
  <2>1. 0 \in Byte
    BY ByteIs
  <2>2. <<0>> \in Seq(Byte) /\ Len(<<0>>) = 1
    BY <2>1, OneByte
  <2> QED
    BY <1>1, <2>2
<1>4. small => Fits(v2)
  <2> SUFFICES ASSUME small PROVE Fits(v2)
    OBVIOUS
  <2> DEFINE x == data[1]
             y == x + 80
  <2>1. x \in Byte /\ x <= 16
    OBVIOUS
  <2> HIDE DEF x
  <2>2. y \in Byte
    BY <2>1, ByteIs
  <2> HIDE DEF y
  <2>3. <<y>> \in Seq(Byte) /\ Len(<<y>>) = 1
    BY <2>2, OneByte
  <2>4. Fits(<<y>>)
    BY <1>1, <2>3
  <2> QED
    BY <2>4 DEF y, x
<1>5. size < 256 => Fits(<<size>> \o data) /\ Fits(v4)
  <2> SUFFICES ASSUME size < 256 PROVE Fits(<<size>> \o data) /\ Fits(v4)
    OBVIOUS
  <2>1. size \in Byte /\ 76 \in Byte
    BY <1>1, ByteIs
  <2> HIDE DEF size
  <2>2. /\ <<size>> \in Seq(Byte) /\ Len(<<size>>) = 1
        /\ <<76, size>> \in Seq(Byte) /\ Len(<<76, size>>) = 2
    BY <2>1
  <2>3. /\ <<size>> \o data \in Seq(Byte) /\ Len(<<size>> \o data) = 1 + size
        /\ v4 \in Seq(Byte) /\ Len(v4) = 2 + size
    BY <2>2, Joins DEF size
  <2> HIDE DEF v4
  <2> QED
    BY <1>1, <2>3
<1>6. Fits(w5 \o data) /\ Fits(w6 \o data)
  <2>1. 77 \in Byte /\ 78 \in Byte /\ 2 \in Nat /\ 4 \in Nat
    BY ByteIs
  <2>2. /\ <<77>> \in Seq(Byte) /\ Len(<<77>>) = 1 /\ <<78>> \in Seq(Byte) /\ Len(<<78>>) = 1
    BY <2>1, OneByte
  <2>3. /\ LittleEndian(size, 2) \in Seq(Byte) /\ Len(LittleEndian(size, 2)) = 2
        /\ LittleEndian(size, 4) \in Seq(Byte) /\ Len(LittleEndian(size, 4)) = 4
    BY <1>1, <2>1, LittleEndianBytes
  <2>4. w5 \in Seq(Byte) /\ Len(w5) = 3 /\ w6 \in Seq(Byte) /\ Len(w6) = 5
    <3>1. /\ w5 \in Seq(Byte) /\ Len(w5) = Len(<<77>>) + Len(LittleEndian(size, 2))
          /\ w6 \in Seq(Byte) /\ Len(w6) = Len(<<78>>) + Len(LittleEndian(size, 4))
      BY <2>2, <2>3, Joins, Zenon
    <3>2. 1 + 2 = 3 /\ 1 + 4 = 5
      OBVIOUS
    <3> QED
      BY <2>2, <2>3, <3>1, <3>2, Zenon
  <2> HIDE DEF w5, w6
  <2>5. /\ w5 \o data \in Seq(Byte) /\ Len(w5 \o data) = 3 + size
        /\ w6 \o data \in Seq(Byte) /\ Len(w6 \o data) = 5 + size
    BY <2>4, Joins
  <2> QED
    BY <1>1, <2>5
<1>7. size <= 75 => size < 256
  BY <1>1
<1> HIDE DEF Fits, small, v2, v4, w5, w6
<1> DEFINE v3 == <<size>> \o data
           v5 == w5 \o data
           v6 == w6 \o data
<1>8. p = IF none THEN <<0>> ELSE IF small THEN v2 ELSE IF size <= 75 THEN v3
          ELSE IF size < 256 THEN v4 ELSE IF size < 65536 THEN v5 ELSE v6
  BY <1>2
<1>9. Fits(<<0>>) /\ (small => Fits(v2)) /\ (size < 256 => Fits(v3) /\ Fits(v4))
      /\ Fits(v5) /\ Fits(v6)
  BY <1>3, <1>4, <1>5, <1>6
<1> HIDE DEF size, v3, v5, v6
<1>10. Fits(p)
  BY <1>1, <1>7, <1>8, <1>9
<1> QED
  BY <1>10 DEF Fits, p, size

LEMMA FromUIntBytes ==
  ASSUME NEW n \in Nat
  PROVE  FromUInt(n) \in Seq(Byte) /\ Len(FromUInt(n)) <= 5
<1> DEFINE upper == n \div 128
           w == IF upper = 0 THEN 1 ELSE IF upper < 256 THEN 2
                ELSE IF upper < 65536 THEN 3 ELSE IF upper < 16777216 THEN 4 ELSE 5
<1>1. FromUInt(n) = LittleEndian(n, w)
  BY DEF FromUInt
<1>2. w \in Nat /\ w <= 5
  OBVIOUS
<1> HIDE DEF w
<1>3. LittleEndian(n, w) \in Seq(Byte) /\ Len(LittleEndian(n, w)) = w
  BY <1>2, LittleEndianBytes
<1> QED
  BY <1>1, <1>2, <1>3

LEMMA VarIntBytes ==
  ASSUME NEW n \in Nat
  PROVE  VarInt(n) \in Seq(Byte)
<1> DEFINE v2 == <<253>> \o LittleEndian(n, 2)
           v4 == <<254>> \o LittleEndian(n, 4)
           v8 == <<255>> \o LittleEndian(n, 8)
           medium == n >= 65536 /\ n \div 65536 < 65536
<1>1. VarInt(n) = CASE n < 253 -> <<n>> [] n >= 253 /\ n < 65536 -> v2
                    [] medium -> v4 [] OTHER -> v8
  BY DEF VarInt
<1>2. 253 \in Byte /\ 254 \in Byte /\ 255 \in Byte /\ 2 \in Nat /\ 4 \in Nat /\ 8 \in Nat
  BY ByteIs
<1>3. <<253>> \in Seq(Byte) /\ <<254>> \in Seq(Byte) /\ <<255>> \in Seq(Byte)
  BY <1>2, OneByte
<1>4. /\ LittleEndian(n, 2) \in Seq(Byte) /\ LittleEndian(n, 4) \in Seq(Byte)
      /\ LittleEndian(n, 8) \in Seq(Byte)
  BY <1>2, LittleEndianBytes
<1>5. v2 \in Seq(Byte) /\ v4 \in Seq(Byte) /\ v8 \in Seq(Byte)
  BY <1>3, <1>4, Joins
<1>6. n < 253 => n \in Byte
  BY ByteIs
<1>7. n < 253 => <<n>> \in Seq(Byte)
  BY <1>6, OneByte
<1> DEFINE v1 == <<n>>
<1> HIDE DEF v1, v2, v4, v8, medium
<1>8. VarInt(n) = CASE n < 253 -> v1 [] n >= 253 /\ n < 65536 -> v2
                    [] medium -> v4 [] OTHER -> v8
  BY <1>1 DEF v1
<1>9. medium => n >= 65536
  BY DEF medium
<1>10. n < 253 => v1 \in Seq(Byte)
  BY <1>7 DEF v1
<1> QED
  BY <1>5, <1>8, <1>9, <1>10

Outputs == [kind : {"commitment", "P2PKH", "P2SH", "P2WPKH"}, data : Seq(Byte), coins : Nat]

LEMMA RedeemBytes ==
  ASSUME NEW output \in Outputs
  PROVE  RedeemScript(output) \in Seq(Byte)
<1>1. output.data \in Seq(Byte) /\ output.kind \in {"commitment", "P2PKH", "P2SH", "P2WPKH"}
  BY DEF Outputs
<1> DEFINE p == Push(output.data)
<1>2. p \in Seq(Byte)
  BY <1>1, PushBytes
<1> HIDE DEF p
<1>3. /\ <<OpReturn>> \in Seq(Byte) /\ <<118, 169>> \in Seq(Byte) /\ <<136, 172>> \in Seq(Byte)
      /\ <<169>> \in Seq(Byte) /\ <<135>> \in Seq(Byte) /\ <<0>> \in Seq(Byte)
  <2>1. /\ 106 \in Byte /\ 118 \in Byte /\ 169 \in Byte /\ 136 \in Byte /\ 172 \in Byte
        /\ 135 \in Byte /\ 0 \in Byte
    BY ByteIs
  <2> QED
    BY <2>1 DEF OpReturn
<1>4. /\ output.kind = "commitment" => RedeemScript(output) = <<OpReturn>> \o p
      /\ output.kind = "P2PKH" => RedeemScript(output) = (<<118, 169>> \o p) \o <<136, 172>>
      /\ output.kind = "P2SH" => RedeemScript(output) = (<<169>> \o p) \o <<135>>
      /\ output.kind = "P2WPKH" => RedeemScript(output) = <<0>> \o p
  BY <1>1 DEF RedeemScript, p
<1>5. /\ <<OpReturn>> \o p \in Seq(Byte) /\ <<0>> \o p \in Seq(Byte)
      /\ <<118, 169>> \o p \in Seq(Byte) /\ <<169>> \o p \in Seq(Byte)
  BY <1>2, <1>3, Joins
<1>6. (<<118, 169>> \o p) \o <<136, 172>> \in Seq(Byte) /\ (<<169>> \o p) \o <<135>> \in Seq(Byte)
  BY <1>3, <1>5, Joins
<1> QED
  BY <1>1, <1>4, <1>5, <1>6, ZenonT(40)

LEMMA OutputBytes ==
  ASSUME NEW output \in Outputs
  PROVE  EncodeOutput(output) \in Seq(Byte)
<1> DEFINE script == RedeemScript(output)
           n == Len(script)
<1>1. script \in Seq(Byte) /\ n \in Nat
  BY RedeemBytes, LenProperties
<1> HIDE DEF script
<1>2. VarInt(n) \in Seq(Byte)
  BY <1>1, VarIntBytes
<1>3. LittleEndian(output.coins, 8) \in Seq(Byte)
  <2>1. output.coins \in Nat /\ 8 \in Nat
    BY DEF Outputs
  <2> QED
    BY <2>1, LittleEndianBytes
<1>4. VarInt(n) \o script \in Seq(Byte)
  BY <1>1, <1>2, Joins
<1>5. LittleEndian(output.coins, 8) \o (VarInt(n) \o script) \in Seq(Byte)
  BY <1>3, <1>4, Joins
<1> QED
  BY <1>5 DEF EncodeOutput, VarData, script, n

LEMMA NoncesPushed ==
  ASSUME NEW nonces \in Seq(Byte), Len(nonces) = 8
  PROVE  Push(nonces) = <<8>> \o nonces
<1>1. nonces # <<>> /\ nonces # <<0>>
  <2>1. Len(<<>>) = 0 /\ Len(<<0>>) = 1
    OBVIOUS
  <2> QED
    BY <2>1, SMTT(20)
<1> DEFINE v3 == <<8>> \o nonces
           v2 == <<nonces[1] + 80>>
           v4 == <<76, 8>> \o nonces
           v5 == (<<77>> \o LittleEndian(8, 2)) \o nonces
           v6 == (<<78>> \o LittleEndian(8, 4)) \o nonces
           none == nonces \in {<<>>, <<0>>}
           small == Len(nonces) = 1 /\ nonces[1] <= 16
           large == IF Len(nonces) < 65536 THEN v5 ELSE v6
<1>2. Push(nonces) = IF none THEN <<0>> ELSE IF small THEN v2
                     ELSE IF Len(nonces) <= 75 THEN <<Len(nonces)>> \o nonces
                     ELSE IF Len(nonces) < 256 THEN v4 ELSE large
  BY DEF Push
<1>3. ~ none /\ ~ small
  BY <1>1
<1> HIDE DEF v2, v4, v5, v6, none, small, large
<1> QED
  BY <1>2, <1>3

LEMMA ZeroBytes == LittleEndian(0, 4) = <<0, 0, 0, 0>>
<1>1. PICK f : Shifts(f, 0, 4) /\ LittleEndian(0, 4) = LowBytes(f, 4)
  <2>1. 0 \in Nat /\ 4 \in Nat
    OBVIOUS
  <2> QED
    BY <2>1, LittleEndianIs, Zenon
<1>2. /\ f[0] = 0 /\ f[1] = f[0] \div 256 /\ f[2] = f[1] \div 256
      /\ f[3] = f[2] \div 256
  BY <1>1 DEF Shifts
<1>3. f[1] = 0 /\ f[2] = 0 /\ f[3] = 0
  BY <1>2
<1>4. LowBytes(f, 4) = [i \in 1..4 |-> f[i - 1] % 256]
  BY DEF LowBytes
<1>5. 0 % 256 = 0
  OBVIOUS
<1>6. [i \in 1..4 |-> f[i - 1] % 256] = <<0, 0, 0, 0>>
  BY <1>2, <1>3, <1>5
<1> QED
  BY <1>1, <1>4, <1>6

(* What a script and what follows it are the parts of.                     *)
Laid(b, v, s, e, n, i, z, c, o) ==
  LET script == (s \o (e \o n)) \o i
      input == b \o (v \o script)
      raw == (((input \o z) \o c) \o o) \o z
      rest == z \o (c \o (o \o z))
      front == ((b \o v) \o s) \o e
      back == i \o rest
  IN  /\ script \in Seq(Byte) /\ rest \in Seq(Byte) /\ front \in Seq(Byte)
      /\ back \in Seq(Byte) /\ v \o (script \o rest) \in Seq(Byte)
      /\ c \o (o \o z) \in Seq(Byte)
      /\ raw = b \o (v \o (script \o rest))
      /\ raw = (front \o n) \o back
      /\ Len(script) = (Len(s) + (Len(e) + Len(n))) + Len(i)
      /\ Len(input) = Len(b) + (Len(v) + Len(script))
      /\ Len(front) = ((Len(b) + Len(v)) + Len(s)) + Len(e)
      /\ Len(front \o n) = Len(front) + Len(n)
      /\ front \o n \in Seq(Byte)

LEMMA Layout ==
  ASSUME NEW b \in Seq(Byte), NEW v \in Seq(Byte), NEW s \in Seq(Byte),
         NEW e \in Seq(Byte), NEW n \in Seq(Byte), NEW i \in Seq(Byte), NEW z \in Seq(Byte),
         NEW c \in Seq(Byte), NEW o \in Seq(Byte)
  PROVE  Laid(b, v, s, e, n, i, z, c, o)
<1> DEFINE script == (s \o (e \o n)) \o i
           input == b \o (v \o script)
           raw == (((input \o z) \o c) \o o) \o z
           rest == z \o (c \o (o \o z))
           front == ((b \o v) \o s) \o e
           back == i \o rest
           tail == c \o (o \o z)
           main == script \o rest
<1>1. e \o n \in Seq(Byte) /\ Len(e \o n) = Len(e) + Len(n)
  BY Joins
<1>2. s \o (e \o n) \in Seq(Byte) /\ Len(s \o (e \o n)) = Len(s) + (Len(e) + Len(n))
  BY <1>1, Joins
<1>3. script \in Seq(Byte) /\ Len(script) = (Len(s) + (Len(e) + Len(n))) + Len(i)
  BY <1>2, Joins
<1>4. b \o v \in Seq(Byte) /\ Len(b \o v) = Len(b) + Len(v)
  BY Joins
<1>5. (b \o v) \o s \in Seq(Byte) /\ Len((b \o v) \o s) = (Len(b) + Len(v)) + Len(s)
  BY <1>4, Joins
<1>6. front \in Seq(Byte) /\ Len(front) = ((Len(b) + Len(v)) + Len(s)) + Len(e)
  BY <1>5, Joins
<1>7. front \o n \in Seq(Byte) /\ Len(front \o n) = Len(front) + Len(n)
  BY <1>6, Joins
<1>8. o \o z \in Seq(Byte)
  BY Joins
<1>9. tail \in Seq(Byte)
  BY <1>8, Joins
<1>10. rest \in Seq(Byte)
  BY <1>9, Joins
<1>11. back \in Seq(Byte)
  BY <1>10, Joins
<1>12. main \in Seq(Byte)
  BY <1>3, <1>10, Joins
<1>13. v \o main \in Seq(Byte)
  BY <1>12, Joins
<1>14. v \o script \in Seq(Byte) /\ Len(v \o script) = Len(v) + Len(script)
  BY <1>3, Joins
<1>15. input \in Seq(Byte) /\ Len(input) = Len(b) + (Len(v) + Len(script))
  BY <1>14, Joins
<1>16. raw = input \o rest
  <2> HIDE DEF input
  <2>1. input \o z \in Seq(Byte)
    BY <1>15, Joins
  <2>2. (input \o z) \o c \in Seq(Byte)
    BY <2>1, Joins
  <2>3. raw = ((input \o z) \o c) \o (o \o z)
    <3>1. Grouped((input \o z) \o c, o, z)
      BY <2>2, Groups, Zenon
    <3> QED
      BY <3>1 DEF Grouped
  <2>4. ((input \o z) \o c) \o (o \o z) = (input \o z) \o tail
    <3>1. Grouped(input \o z, c, o \o z)
      BY <1>8, <2>1, Groups, Zenon
    <3> QED
      BY <3>1 DEF Grouped
  <2>5. (input \o z) \o tail = input \o rest
    <3>1. Grouped(input, z, tail)
      BY <1>9, <1>15, Groups, Zenon
    <3> QED
      BY <3>1 DEF Grouped
  <2> QED
    BY <2>3, <2>4, <2>5
<1>17. input \o rest = b \o (v \o main)
  <2> HIDE DEF script, rest
  <2>1. input \o rest = b \o ((v \o script) \o rest)
    <3>1. Grouped(b, v \o script, rest)
      BY <1>10, <1>14, Groups, Zenon
    <3> QED
      BY <3>1 DEF Grouped
  <2>2. (v \o script) \o rest = v \o main
    <3>1. Grouped(v, script, rest)
      BY <1>3, <1>10, Groups, Zenon
    <3> QED
      BY <3>1 DEF Grouped
  <2> QED
    BY <2>1, <2>2
<1>18. b \o (v \o main) = (front \o n) \o back
  <2>1. main = (s \o (e \o n)) \o back
    <3> HIDE DEF rest
    <3>1. Grouped(s \o (e \o n), i, rest)
      BY <1>2, <1>10, Groups, Zenon
    <3> QED
      BY <3>1 DEF Grouped
  <2> HIDE DEF back
  <2>2. (s \o (e \o n)) \o back = s \o ((e \o n) \o back)
    <3>1. Grouped(s, e \o n, back)
      BY <1>1, <1>11, Groups, Zenon
    <3> QED
      BY <3>1 DEF Grouped
  <2>3. (e \o n) \o back = e \o (n \o back) /\ n \o back \in Seq(Byte)
    <3>1. Grouped(e, n, back) /\ n \o back \in Seq(Byte)
      BY <1>11, Groups, Joins, Zenon
    <3> QED
      BY <3>1 DEF Grouped
  <2> DEFINE q == n \o back
  <2>4. main = s \o (e \o q)
    BY <2>1, <2>2, <2>3
  <2> HIDE DEF q, main
  <2>5. q \in Seq(Byte)
    BY <2>3 DEF q
  <2>6. e \o q \in Seq(Byte)
    BY <2>5, Joins
  <2>7. b \o (v \o main) = (b \o v) \o main
    <3>1. Grouped(b, v, main)
      BY <1>12, Groups, Zenon
    <3> QED
      BY <3>1 DEF Grouped
  <2>8. (b \o v) \o (s \o (e \o q)) = ((b \o v) \o s) \o (e \o q)
    <3>1. Grouped(b \o v, s, e \o q)
      BY <1>4, <2>6, Groups, Zenon
    <3> QED
      BY <3>1 DEF Grouped
  <2>9. ((b \o v) \o s) \o (e \o q) = front \o q
    <3>1. Grouped((b \o v) \o s, e, q)
      BY <1>5, <2>5, Groups, Zenon
    <3> QED
      BY <3>1 DEF Grouped
  <2>10. (front \o n) \o back = front \o q
    <3> HIDE DEF front
    <3>1. Grouped(front, n, back)
      BY <1>6, <1>11, Groups, Zenon
    <3> QED
      BY <3>1 DEF Grouped, q
  <2> HIDE DEF front
  <2> QED
    BY <2>4, <2>7, <2>8, <2>9, <2>10
<1>19. raw = b \o (v \o (script \o rest)) /\ raw = (front \o n) \o back
  BY <1>16, <1>17, <1>18
<1> HIDE DEF script, input, raw, rest, front, back
<1>20. /\ script \in Seq(Byte) /\ rest \in Seq(Byte) /\ front \in Seq(Byte)
       /\ back \in Seq(Byte) /\ v \o (script \o rest) \in Seq(Byte)
       /\ c \o (o \o z) \in Seq(Byte)
       /\ raw = b \o (v \o (script \o rest))
       /\ raw = (front \o n) \o back
       /\ Len(script) = (Len(s) + (Len(e) + Len(n))) + Len(i)
       /\ Len(input) = Len(b) + (Len(v) + Len(script))
       /\ Len(front) = ((Len(b) + Len(v)) + Len(s)) + Len(e)
       /\ Len(front \o n) = Len(front) + Len(n)
       /\ front \o n \in Seq(Byte)
  BY <1>3, <1>6, <1>7, <1>9, <1>10, <1>11, <1>13, <1>15, <1>19
<1> QED
  BY <1>20 DEF Laid, script, input, raw, rest, front, back

(* The parts of the coinbase that do not depend on the nonces: what comes
   before the length of the script, the start of the script, the outputs.  *)
BeforeScript ==
  LittleEndian(1, 4) \o VarInt(1) \o LittleEndian(0, 32) \o <<255, 255, 255, 255>>

ScriptStart(height, time) == Push(FromUInt(height)) \o Push(FromUInt(time))

OutputsOf(outputs) == Concatenated([i \in DOMAIN outputs |-> EncodeOutput(outputs[i])])

(* How the transaction with these nonces is laid out.                      *)
LaidOut(height, time, nonces, id, outputs, size, front, back) ==
  LET tx == Build(height, time, nonces, id, outputs)
      script == MakeCoinbaseRedeemScript(height, time, nonces, id).script
  IN  /\ tx.raw = (front \o nonces) \o back
      /\ tx.part1Size = Len(front) /\ tx.part2Start = Len(front) + 8
      /\ script \in Seq(Byte) /\ Len(script) = size
      /\ \E q \in Seq(Byte) :
           tx.raw = BeforeScript \o (VarInt(size) \o (script \o (LittleEndian(0, 4) \o q)))

LEMMA FixedParts ==
  /\ BeforeScript \in Seq(Byte) /\ Len(BeforeScript) = 41
  /\ LittleEndian(0, 4) \in Seq(Byte) /\ Len(LittleEndian(0, 4)) = 4
<1> DEFINE a == LittleEndian(1, 4)
           v == VarInt(1)
           h == LittleEndian(0, 32)
           f == <<255, 255, 255, 255>>
           z == LittleEndian(0, 4)
<1>1. 0 \in Nat /\ 1 \in Nat /\ 4 \in Nat /\ 32 \in Nat /\ 1 \in Byte /\ 255 \in Byte
  BY ByteIs
<1>2. /\ a \in Seq(Byte) /\ Len(a) = 4 /\ h \in Seq(Byte) /\ Len(h) = 32
      /\ z \in Seq(Byte) /\ Len(z) = 4
  BY <1>1, LittleEndianBytes
<1>3. v = <<1>>
  BY DEF VarInt
<1>4. v \in Seq(Byte) /\ Len(v) = 1
  BY <1>1, <1>3, OneByte
<1>5. f \in Seq(Byte) /\ Len(f) = 4
  BY <1>1
<1> HIDE DEF a, v, h, f, z
<1>6. a \o v \in Seq(Byte) /\ Len(a \o v) = 5
  <2>1. a \o v \in Seq(Byte) /\ Len(a \o v) = Len(a) + Len(v)
    BY <1>2, <1>4, Joins
  <2> QED
    BY <1>2, <1>4, <2>1
<1>7. (a \o v) \o h \in Seq(Byte) /\ Len((a \o v) \o h) = 37
  <2>1. (a \o v) \o h \in Seq(Byte) /\ Len((a \o v) \o h) = Len(a \o v) + Len(h)
    BY <1>2, <1>6, Joins
  <2> QED
    BY <1>2, <1>6, <2>1
<1> DEFINE b == ((a \o v) \o h) \o f
<1>8. b \in Seq(Byte) /\ Len(b) = Len((a \o v) \o h) + Len(f)
  BY <1>5, <1>7, Joins
<1>9. b = BeforeScript
  BY DEF BeforeScript, a, v, h, f
<1> HIDE DEF b
<1>10. b \in Seq(Byte) /\ Len(b) = 41
  BY <1>5, <1>7, <1>8
<1> QED
  BY <1>2, <1>9, <1>10 DEF z

LEMMA OutputsBytes ==
  ASSUME NEW outputs \in Seq(Outputs)
  PROVE  OutputsOf(outputs) \in Seq(Byte) /\ VarInt(Len(outputs)) \in Seq(Byte)
<1> DEFINE parts == [i \in DOMAIN outputs |-> EncodeOutput(outputs[i])]
<1>1. Len(outputs) \in Nat /\ DOMAIN outputs = 1..Len(outputs)
      /\ \A i \in 1..Len(outputs) : outputs[i] \in Outputs
  BY LenProperties
<1>2. \A i \in 1..Len(outputs) : EncodeOutput(outputs[i]) \in Seq(Byte)
  BY <1>1, OutputBytes
<1>3. parts \in Seq(Seq(Byte))
  BY <1>1, <1>2
<1> HIDE DEF parts
<1>4. Concatenated(parts) \in Seq(Byte)
  BY <1>3, ConcatenatedBytes
<1>5. VarInt(Len(outputs)) \in Seq(Byte)
  BY <1>1, VarIntBytes
<1> QED
  BY <1>4, <1>5 DEF OutputsOf, parts

LEMMA BuildIs ==
  ASSUME NEW height \in Nat, NEW time \in Nat, NEW id \in Seq(Byte), Len(id) < Power(4),
         NEW outputs \in Seq(Outputs)
  PROVE  \E size \in Nat, front \in Seq(Byte), back \in Seq(Byte) :
           /\ size < Power(8)
           /\ \A nonces \in Seq(Byte) : Len(nonces) = 8 =>
                LaidOut(height, time, nonces, id, outputs, size, front, back)
<1> DEFINE b == BeforeScript
           s == ScriptStart(height, time)
           e == <<8>>
           i == Push(id)
           z == LittleEndian(0, 4)
           c == VarInt(Len(outputs))
           o == OutputsOf(outputs)
           size == (Len(s) + (1 + 8)) + Len(i)
           v == VarInt(size)
           rest == z \o (c \o (o \o z))
           front == ((b \o v) \o s) \o e
           back == i \o rest
<1>1. /\ b \in Seq(Byte) /\ Len(b) = 41 /\ z \in Seq(Byte) /\ Len(z) = 4
      /\ c \in Seq(Byte) /\ o \in Seq(Byte)
  BY FixedParts, OutputsBytes
<1>2. s \in Seq(Byte) /\ Len(s) <= 20
  <2> DEFINE h == Push(FromUInt(height))
             t == Push(FromUInt(time))
  <2>1. /\ h \in Seq(Byte) /\ Len(h) <= Len(FromUInt(height)) + 5
        /\ t \in Seq(Byte) /\ Len(t) <= Len(FromUInt(time)) + 5
    BY FromUIntBytes, PushBytes
  <2>2. /\ Len(FromUInt(height)) <= 5 /\ Len(FromUInt(time)) <= 5
        /\ Len(FromUInt(height)) \in Nat /\ Len(FromUInt(time)) \in Nat
    BY FromUIntBytes, LenProperties
  <2>3. s = h \o t
    BY DEF ScriptStart
  <2> HIDE DEF h, t, s
  <2>4. s \in Seq(Byte) /\ Len(s) = Len(h) + Len(t) /\ Len(h) \in Nat /\ Len(t) \in Nat
    BY <2>1, <2>3, Joins, LenProperties
  <2> QED
    BY <2>1, <2>2, <2>4
<1>3. i \in Seq(Byte) /\ Len(i) <= Len(id) + 5
  BY PushBytes
<1>4. 8 \in Byte /\ e \in Seq(Byte) /\ Len(e) = 1
  BY ByteIs, OneByte
<1> HIDE DEF b, s, e, i, z, c, o
<1>5. size \in Nat /\ size < Power(8)
  <2>1. Len(s) \in Nat /\ Len(i) \in Nat /\ Len(id) \in Nat
    BY <1>2, <1>3, LenProperties
  <2>2. Power(4) \in Nat /\ Power(4) >= 256
    BY PowersAre
  <2>3. /\ Power(4 + 1) = 256 * Power(4) /\ Power(5 + 1) = 256 * Power(5)
        /\ Power(6 + 1) = 256 * Power(6) /\ Power(7 + 1) = 256 * Power(7)
    BY PowerSteps
  <2> DEFINE P == Power(4)
  <2>4. P \in Nat /\ P >= 256 /\ Power(8) = 256 * (256 * (256 * (256 * P))) /\ Len(id) < P
    BY <2>2, <2>3
  <2> HIDE DEF P
  <2>5. size < 256 * P
    BY <1>2, <1>3, <2>1, <2>4
  <2>6. size \in Nat
    BY <2>1
  <2> HIDE DEF size
  <2> QED
    BY <2>4, <2>5, <2>6
<1> HIDE DEF size
<1>6. v \in Seq(Byte)
  BY <1>5, VarIntBytes
<1> HIDE DEF v
<1>7. ASSUME NEW nonces \in Seq(Byte), Len(nonces) = 8
      PROVE  /\ LaidOut(height, time, nonces, id, outputs, size, front, back)
             /\ front \in Seq(Byte) /\ back \in Seq(Byte)
  <2> DEFINE script == (s \o (e \o nonces)) \o i
             input == b \o (v \o script)
             raw == (((input \o z) \o c) \o o) \o z
             q == c \o (o \o z)
             redeem == MakeCoinbaseRedeemScript(height, time, nonces, id)
             tx == Build(height, time, nonces, id, outputs)
  <2>1. /\ script \in Seq(Byte) /\ front \in Seq(Byte)
        /\ back \in Seq(Byte)
        /\ q \in Seq(Byte)
        /\ raw = b \o (v \o (script \o rest))
        /\ raw = (front \o nonces) \o back
        /\ Len(script) = (Len(s) + (Len(e) + Len(nonces))) + Len(i)
        /\ Len(input) = Len(b) + (Len(v) + Len(script))
        /\ Len(front) = ((Len(b) + Len(v)) + Len(s)) + Len(e)
    <3>1. Laid(b, v, s, e, nonces, i, z, c, o)
      BY <1>1, <1>2, <1>3, <1>4, <1>6, Layout, Zenon
    <3> QED
      BY <3>1, Zenon DEF Laid
  <2>2. Push(nonces) = e \o nonces
    BY <1>7, NoncesPushed DEF e
  <2>3. Len(s \o (e \o nonces)) = Len(s) + (1 + 8)
    <3>1. e \o nonces \in Seq(Byte) /\ Len(e \o nonces) = Len(e) + Len(nonces)
      BY <1>4, Joins
    <3>2. Len(s \o (e \o nonces)) = Len(s) + Len(e \o nonces)
      BY <1>2, <3>1, Joins
    <3> QED
      BY <1>4, <1>7, <3>1, <3>2, Zenon
  <2>4. /\ redeem.script = script /\ redeem.part1Size = Len(s) + 1
        /\ redeem.part2Start = Len(s \o (e \o nonces))
    BY <2>2 DEF MakeCoinbaseRedeemScript, s, i, ScriptStart
  <2>5. Len(script) = size
    BY <1>4, <1>7, <2>1, Zenon DEF size
  <2> HIDE DEF redeem, script
  <2>6. /\ tx.raw = raw
        /\ tx.part1Size = redeem.part1Size + (Len(input) - Len(script))
        /\ tx.part2Start = redeem.part2Start + (Len(input) - Len(script))
    BY <2>4, <2>5, ZenonT(60)
      DEF Build, VarData, redeem, b, v, z, c, o, BeforeScript, OutputsOf
  <2> HIDE DEF tx, raw, input, front, back, q
  <2>7. tx.part1Size = Len(front) /\ tx.part2Start = Len(front) + 8
    <3>1. Len(s) \in Nat /\ Len(v) \in Nat /\ Len(b) \in Nat /\ Len(script) \in Nat
      BY <1>1, <1>2, <1>6, <2>1, LenProperties
    <3> QED
      BY <1>1, <1>4, <2>1, <2>3, <2>4, <2>6, <3>1
  <2>8. tx.raw = b \o (v \o (script \o (z \o q)))
    BY <2>1, <2>6 DEF q
  <2> QED
    BY <2>1, <2>4, <2>5, <2>6, <2>7, <2>8 DEF LaidOut, tx, redeem, b, v, z
<1>8. front \in Seq(Byte) /\ back \in Seq(Byte)
  <2>1. Zeros(8) \in Seq(Byte) /\ Len(Zeros(8)) = 8
    BY ZerosIs
  <2> QED
    BY <1>7, <2>1
<1> HIDE DEF front, back
<1> QED
  BY <1>5, <1>7, <1>8

(* What lies between a front and a back.                                   *)
LEMMA MiddleIs ==
  ASSUME NEW s \in Seq(Byte), NEW t \in Seq(Byte), NEW q \in Seq(Byte)
  PROVE  LET T == s \o (t \o q)
         IN  /\ SubSeq(T, 1, Len(s)) = s
             /\ SubSeq(T, Len(s) + 1, Len(s) + Len(t)) = t
<1> DEFINE r == t \o q
           T == s \o r
           N == Len(s)
           M == Len(t)
<1>1. r \in Seq(Byte) /\ SubSeq(r, 1, M) = t
  BY Joins, SplitAt
<1>2. Len(r) = M + Len(q) /\ N \in Nat /\ M \in Nat /\ Len(q) \in Nat
  BY Joins, LenProperties
<1>3. \A i \in 1..M : r[i] = t[i]
  BY <1>2, ConcatProperties
<1> HIDE DEF r
<1>4. T \in Seq(Byte) /\ Len(T) = N + Len(r) /\ SubSeq(T, 1, N) = s
  BY <1>1, Joins, SplitAt
<1>5. \A i \in 1..M : T[N + i] = r[i]
  <2>1. \A i \in 1..Len(r) : T[Len(s) + i] = r[i]
    BY <1>1, ConcatProperties
  <2> QED
    BY <1>2, <2>1
<1> DEFINE u == SubSeq(T, N + 1, N + M)
<1>6. u \in Seq(Byte) /\ Len(u) = M /\ \A i \in 1..M : u[i] = T[N + i]
  <2> DEFINE m == N + 1
             n == N + M
  <2>1. m \in Int /\ n \in Int /\ \A i \in m..n : T[i] \in Byte
    <3>1. \A i \in 1..Len(T) : T[i] \in Byte
      BY <1>4
    <3>2. Len(T) = N + (M + Len(q))
      BY <1>2, <1>4
    <3> HIDE DEF T, N, M
    <3> QED
      BY <1>2, <3>1, <3>2
  <2> HIDE DEF m, n, T
  <2>2. /\ SubSeq(T, m, n) \in Seq(Byte)
        /\ Len(SubSeq(T, m, n)) = IF m <= n THEN n - m + 1 ELSE 0
        /\ \A i \in 1..(n - m + 1) : SubSeq(T, m, n)[i] = T[m + i - 1]
    BY <2>1, SubSeqProperties
  <2>3. u = SubSeq(T, m, n)
    BY DEF m, n
  <2> HIDE DEF u, N, M
  <2>4. n - m + 1 = M /\ (m <= n <=> M # 0) /\ \A i \in 1..M : m + i - 1 = N + i
    BY <1>2 DEF m, n
  <2> QED
    BY <1>2, <2>2, <2>3, <2>4
<1>7. DOMAIN u = 1..M /\ DOMAIN t = 1..M
  BY <1>6, LenProperties
<1> HIDE DEF u, T, N, M
<1>8. \A i \in 1..M : u[i] = t[i]
  BY <1>3, <1>5, <1>6
<1>9. u = t
  <2>1. u \in Seq(Byte) /\ t \in Seq(Byte) /\ Len(u) = Len(t)
    BY <1>6 DEF M
  <2> QED
    BY <1>8, <2>1, SeqEqual DEF M
<1> QED
  BY <1>4, <1>9 DEF u, T, N, M, r

(***************************************************************************)
(* For every height, time, identification of four bytes' length, list of   *)
(* outputs and nonces: the two parts around the nonces make the            *)
(* transaction that is built with these nonces, whose script has the       *)
(* length that precedes it.                                                *)
(***************************************************************************)
THEOREM CoinbasesAreMadeOfParts ==
  ASSUME NEW height \in Nat, NEW time \in Nat, NEW nonces \in Seq(Byte), Len(nonces) = 8,
         NEW id \in Seq(Byte), Len(id) < Power(4), NEW outputs \in Seq(Outputs)
  PROVE  PartsMakeTransaction(height, time, nonces, id, outputs)
<1> DEFINE zero == [i \in 1..8 |-> 0]
           tx == Build(height, time, zero, id, outputs)
           whole == Build(height, time, nonces, id, outputs)
           script == MakeCoinbaseRedeemScript(height, time, nonces, id).script
           z == LittleEndian(0, 4)
<1>1. zero \in Seq(Byte) /\ Len(zero) = 8
  BY ZerosIs DEF Zeros
<1> HIDE DEF zero
<1>2. PICK size \in Nat, front \in Seq(Byte), back \in Seq(Byte) :
        /\ size < Power(8)
        /\ \A n \in Seq(Byte) : Len(n) = 8 =>
             LaidOut(height, time, n, id, outputs, size, front, back)
  BY BuildIs
<1>3. /\ tx.raw = (front \o zero) \o back
      /\ tx.part1Size = Len(front) /\ tx.part2Start = Len(front) + 8
  BY <1>1, <1>2 DEF LaidOut
<1>4. /\ whole.raw = (front \o nonces) \o back
      /\ script \in Seq(Byte) /\ Len(script) = size
      /\ \E q \in Seq(Byte) :
           whole.raw = BeforeScript \o (VarInt(size) \o (script \o (z \o q)))
  BY <1>2 DEF LaidOut
<1> HIDE DEF tx, whole, script, z
<1>5. PICK q \in Seq(Byte) : whole.raw = BeforeScript \o (VarInt(size) \o (script \o (z \o q)))
  BY <1>4
<1>6. Part1(tx) = front /\ Part2(tx) = back
  <2>1. front \o zero \in Seq(Byte) /\ Len(front \o zero) = Len(front) + Len(zero)
    BY <1>1, Joins
  <2>2. Grouped(front, zero, back)
    BY <1>1, Groups, Zenon
  <2>3. tx.raw = front \o (zero \o back) /\ zero \o back \in Seq(Byte)
    BY <1>1, <1>3, <2>2, Joins DEF Grouped
  <2>4. SubSeq(front \o (zero \o back), 1, Len(front)) = front
    BY <2>3, SplitAt, Zenon
  <2>5. SubSeq((front \o zero) \o back, Len(front \o zero) + 1, Len((front \o zero) \o back)) = back
    BY <2>1, SplitAt, Zenon
  <2>6. Len(front \o zero) = Len(front) + 8
    BY <1>1, <2>1, Zenon
  <2> QED
    BY <1>3, <2>3, <2>4, <2>5, <2>6, Zenon DEF Part1, Part2
<1>7. (Part1(tx) \o nonces) \o Part2(tx) = whole.raw
  BY <1>4, <1>6
<1> DEFINE T == script \o (z \o q)
           v == VarInt(size)
<1>8. z \in Seq(Byte) /\ Len(z) = 4 /\ BeforeScript \in Seq(Byte) /\ Len(BeforeScript) = 41
  BY FixedParts DEF z
<1>9. T \in Seq(Byte)
  <2>1. z \o q \in Seq(Byte)
    BY <1>8, Joins
  <2> QED
    BY <1>4, <2>1, Joins
<1>10. SubSeq(T, 1, Len(script)) = script
       /\ SubSeq(T, Len(script) + 1, Len(script) + Len(z)) = z
  BY <1>4, <1>8, MiddleIs, Zenon
<1> HIDE DEF T
<1>11. v \in Seq(Byte) /\ ReadVarInt(v \o T) = [value |-> size, rest |-> T]
  BY <1>2, <1>9, VarIntRead, Zenon
<1> HIDE DEF v
<1>12. v \o T \in Seq(Byte)
  BY <1>9, <1>11, Joins
<1>13. whole.raw = BeforeScript \o (v \o T)
  BY <1>5 DEF v, T
<1>14. SubSeq(whole.raw, 42, Len(whole.raw)) = v \o T
  <2>1. SubSeq(BeforeScript \o (v \o T), Len(BeforeScript) + 1, Len(BeforeScript \o (v \o T)))
          = v \o T
    BY <1>8, <1>12, SplitAt, Zenon
  <2>2. Len(BeforeScript) + 1 = 42
    BY <1>8
  <2> QED
    BY <1>13, <2>1, <2>2, Zenon
<1> DEFINE read == ReadVarInt(SubSeq(whole.raw, 42, Len(whole.raw)))
<1>15. read.value = size /\ read.rest = T
  <2>1. read = [value |-> size, rest |-> T]
    BY <1>11, <1>14, Zenon
  <2> HIDE DEF read
  <2> QED
    BY <2>1
<1> HIDE DEF read
<1>16. SubSeq(read.rest, 1, read.value) = script
       /\ SubSeq(read.rest, read.value + 1, read.value + 4) = <<0, 0, 0, 0>>
  <2>1. z = <<0, 0, 0, 0>>
    BY ZeroBytes DEF z
  <2> QED
    BY <1>4, <1>8, <1>10, <1>15, <2>1
<1> QED
  BY <1>7, <1>16, Zenon DEF PartsMakeTransaction, read, tx, whole, script, zero

-----------------------------------------------------------------------------
(***************************************************************************)
(* The outputs of the job manager.                                         *)
(***************************************************************************)
LEMMA QuotientsGrow ==
  ASSUME NEW a \in Nat, NEW b \in Nat, NEW k \in Nat, NEW d \in Nat \ {0}, a <= b
  PROVE  (a * k) \div d <= (b * k) \div d
<1> DEFINE x == a * k
           y == b * k
           u == x \div d
           v == y \div d
<1>1. x \in Nat /\ y \in Nat /\ x <= y
  <2>1. k * a <= k * b /\ x = k * a /\ y = k * b /\ k * a \in Nat /\ k * b \in Nat
    BY Products
  <2> QED
    BY <2>1
<1> HIDE DEF x, y
<1>2. /\ u \in Nat /\ v \in Nat /\ d * u <= x /\ y < d * v + d
  BY <1>1, Quotients
<1> HIDE DEF u, v
<1>3. ASSUME v + 1 <= u PROVE FALSE
  <2> DEFINE w == v + 1
  <2>1. w \in Nat /\ w <= u
    BY <1>2, <1>3
  <2>2. d * w = d * v + d
    BY <1>2, Products
  <2> HIDE DEF w
  <2>3. d * w <= d * u /\ d * w \in Nat /\ d * u \in Nat
    BY <1>2, <2>1, Products
  <2> QED
    BY <1>1, <1>2, <2>2, <2>3
<1>4. u <= v
  BY <1>2, <1>3
<1> QED
  BY <1>4 DEF u, v, x, y

LEMMA CommitmentIs == Commitment \in Outputs /\ Commitment.coins = 0 /\ IsCommitment(Commitment)
<1> DEFINE d == CommitmentData
           c == Commitment
<1>1. d \in Seq(Byte)
  BY CoinbaseAssumption DEF Byte
<1>2. c = [kind |-> "commitment", data |-> d, coins |-> 0]
  BY DEF Commitment
<1> HIDE DEF d
<1>3. c \in Outputs /\ c.coins = 0
  BY <1>1, <1>2 DEF Outputs
<1>4. RedeemScript(c) = <<OpReturn>> \o Push(d)
  BY <1>2 DEF RedeemScript
<1>5. (<<OpReturn>> \o Push(d))[1] = OpReturn
  <2> DEFINE p == Push(d)
  <2>1. p \in Seq(Byte) /\ OpReturn \in Byte
    BY <1>1, PushBytes, ByteIs DEF OpReturn
  <2> HIDE DEF p
  <2>2. <<OpReturn>> \in Seq(Byte) /\ Len(<<OpReturn>>) = 1
    BY <2>1, OneByte
  <2>3. (<<OpReturn>> \o p)[1] = <<OpReturn>>[1]
    BY <2>1, <2>2, ConcatProperties
  <2> QED
    BY <2>3 DEF p
<1> QED
  BY <1>3, <1>4, <1>5 DEF IsCommitment

LEMMA CoinsAre ==
  ASSUME NEW o \in Seq(Outputs)
  PROVE  /\ Coins(o) \in Seq(Nat) /\ Len(Coins(o)) = Len(o)
         /\ \A i \in 1..Len(o) : Coins(o)[i] = o[i].coins /\ o[i] \in Outputs
<1>1. Len(o) \in Nat /\ DOMAIN o = 1..Len(o) /\ \A i \in 1..Len(o) : o[i] \in Outputs
  BY LenProperties, ElementOfSeq
<1>2. \A i \in 1..Len(o) : o[i].coins \in Nat
  BY <1>1 DEF Outputs
<1>3. Coins(o) = [i \in 1..Len(o) |-> o[i].coins]
  BY <1>1 DEF Coins
<1> QED
  BY <1>1, <1>2, <1>3

LEMMA WithCoinsIs ==
  ASSUME NEW o \in Seq(Outputs), NEW a \in Seq(Nat), Len(a) = Len(o)
  PROVE  LET p == WithCoins(o, a)
         IN  /\ p \in Seq(Outputs) /\ Len(p) = Len(o) /\ Coins(p) = a
             /\ \A i \in 1..Len(o) : /\ p[i] = [o[i] EXCEPT !.coins = a[i]]
                                     /\ p[i].kind = o[i].kind /\ p[i].data = o[i].data
                                     /\ p[i].coins = a[i]
<1> DEFINE N == Len(o)
           p == WithCoins(o, a)
<1>1. /\ N \in Nat /\ DOMAIN o = 1..N /\ \A i \in 1..N : o[i] \in Outputs
      /\ \A i \in 1..N : a[i] \in Nat
  BY LenProperties, ElementOfSeq
<1>2. p = [i \in 1..N |-> [o[i] EXCEPT !.coins = a[i]]]
  BY <1>1 DEF WithCoins
<1> HIDE DEF p, N
<1>3. ASSUME NEW i \in 1..N
      PROVE  /\ p[i] \in Outputs /\ p[i] = [o[i] EXCEPT !.coins = a[i]]
             /\ p[i].kind = o[i].kind /\ p[i].data = o[i].data /\ p[i].coins = a[i]
  <2>1. o[i] \in Outputs /\ a[i] \in Nat /\ p[i] = [o[i] EXCEPT !.coins = a[i]]
    BY <1>1, <1>2
  <2> QED
    BY <2>1 DEF Outputs
<1>4. p \in [1..N -> Outputs]
  BY <1>2, <1>3
<1>5. p \in Seq(Outputs) /\ Len(p) = N
  BY <1>1, <1>4
<1>6. Coins(p) = a
  <2>1. /\ Coins(p) \in Seq(Nat) /\ Len(Coins(p)) = N
        /\ \A i \in 1..N : Coins(p)[i] = p[i].coins
    BY <1>5, CoinsAre
  <2>2. \A i \in 1..Len(Coins(p)) : Coins(p)[i] = a[i]
    BY <1>3, <2>1
  <2> QED
    BY <2>1, <2>2, SeqEqual DEF N
<1> QED
  BY <1>3, <1>5, <1>6 DEF p, N

(* A pass over the list leaves the commitment, the order of the outputs    *)
(* and which of two of them pays more.                                     *)
LEMMA PassPaysAsSet ==
  ASSUME NEW o \in Seq(Outputs), NEW set \in Seq(Outputs), PaysAsSet(o, set), NEW k \in Nat
  PROVE  PaysAsSet(WithCoins(o, Corrected(Coins(o), k)), set)
<1> DEFINE a == Coins(o)
           c == Corrected(a, k)
           p == WithCoins(o, c)
<1>0. Precision \in Nat \ {0}
  BY CoinbaseAssumption
<1>1. a \in Seq(Nat) /\ Len(a) = Len(o) /\ \A i \in 1..Len(o) : a[i] = o[i].coins
  BY CoinsAre
<1> HIDE DEF a
<1>2. /\ c \in Seq(Nat) /\ Len(c) = Len(o)
      /\ \A i \in 1..Len(o) : a[i] \in Nat /\ c[i] = (a[i] * k) \div Precision
  BY <1>1, CorrectedIs
<1> HIDE DEF c
<1>3. /\ p \in Seq(Outputs) /\ Len(p) = Len(o)
      /\ \A i \in 1..Len(o) : /\ p[i] = [o[i] EXCEPT !.coins = c[i]]
                              /\ p[i].kind = o[i].kind /\ p[i].data = o[i].data
                              /\ p[i].coins = c[i]
  BY <1>2, WithCoinsIs
<1> HIDE DEF p
<1>4. /\ Len(set) \in Nat /\ DOMAIN set = 1..Len(set) /\ Len(o) = Len(set) + 1
      /\ o[1] = Commitment
      /\ \A i \in 1..Len(set) :
           /\ o[i + 1].kind = set[i].kind /\ o[i + 1].data = set[i].data
           /\ \A j \in 1..Len(set) :
                set[i].coins <= set[j].coins => o[i + 1].coins <= o[j + 1].coins
  BY LenProperties DEF PaysAsSet
<1>5. p[1] = Commitment
  <2>1. 1 \in 1..Len(o)
    BY <1>4
  <2>2. a[1] = 0
    BY <1>1, <1>4, <2>1, CommitmentIs
  <2>3. c[1] = 0
    <3>1. c[1] = (0 * k) \div Precision
      BY <1>2, <2>1, <2>2
    <3>2. (0 * k) \div Precision = 0
      BY <1>0
    <3> QED
      BY <3>1, <3>2
  <2>4. p[1] = [Commitment EXCEPT !.coins = 0]
    BY <1>3, <1>4, <2>1, <2>3
  <2> QED
    BY <2>4 DEF Commitment
<1>6. ASSUME NEW i \in 1..Len(set)
      PROVE  /\ i + 1 \in 1..Len(o)
             /\ p[i + 1].kind = set[i].kind /\ p[i + 1].data = set[i].data
             /\ p[i + 1].coins = c[i + 1] /\ a[i + 1] = o[i + 1].coins
  <2>1. i + 1 \in 1..Len(o)
    BY <1>4
  <2> QED
    BY <1>1, <1>3, <1>4, <2>1
<1>7. ASSUME NEW i \in 1..Len(set), NEW j \in 1..Len(set), set[i].coins <= set[j].coins
      PROVE  p[i + 1].coins <= p[j + 1].coins
  <2> DEFINE x == a[i + 1]
             y == a[j + 1]
  <2>1. i + 1 \in 1..Len(o) /\ j + 1 \in 1..Len(o)
    BY <1>6
  <2>2. /\ x \in Nat /\ y \in Nat /\ x <= y
        /\ c[i + 1] = (x * k) \div Precision /\ c[j + 1] = (y * k) \div Precision
    BY <1>2, <1>4, <1>6, <1>7, <2>1
  <2> HIDE DEF x, y
  <2>3. (x * k) \div Precision <= (y * k) \div Precision
    BY <1>0, <2>2, QuotientsGrow
  <2> QED
    BY <1>6, <2>2, <2>3
<1>8. PaysAsSet(p, set)
  BY <1>3, <1>4, <1>5, <1>6, <1>7 DEF PaysAsSet
<1> QED
  BY <1>8 DEF p, c, a

(* Outputs that are set follow the commitment they make room for.          *)
LEMMA PaidAsSet ==
  ASSUME NEW set \in Seq(Outputs)
  PROVE  <<Commitment>> \o set \in Seq(Outputs) /\ PaysAsSet(<<Commitment>> \o set, set)
<1> DEFINE c == Commitment
           u == <<c>>
           x == u \o set
<1>1. c \in Outputs
  BY CommitmentIs
<1> HIDE DEF c
<1>2. u \in Seq(Outputs) /\ Len(u) = 1 /\ u[1] = c
  BY <1>1
<1> HIDE DEF u
<1>3. /\ x \in Seq(Outputs) /\ Len(x) = Len(u) + Len(set)
      /\ \A i \in 1..(Len(u) + Len(set)) :
           x[i] = IF i <= Len(u) THEN u[i] ELSE set[i - Len(u)]
  BY <1>2, ConcatProperties
<1>4. Len(set) \in Nat /\ DOMAIN set = 1..Len(set)
  BY LenProperties
<1> HIDE DEF x
<1>5. /\ Len(x) = Len(set) + 1 /\ x[1] = c
      /\ \A i \in 1..Len(set) : x[i + 1] = set[i]
  BY <1>2, <1>3, <1>4
<1>6. PaysAsSet(x, set)
  BY <1>4, <1>5 DEF PaysAsSet, c
<1> QED
  BY <1>3, <1>6 DEF x, u, c

(* A commitment that is there already is replaced by itself.               *)
LEMMA CommitmentPlaced ==
  ASSUME NEW o \in Seq(Outputs), NEW set \in Seq(Outputs), PaysAsSet(o, set)
  PROVE  o # <<>> /\ [o EXCEPT ![1] = Commitment] = o /\ PlaceCommitment(o) = o
<1>1. Len(set) \in Nat /\ Len(o) = Len(set) + 1 /\ o[1] = Commitment /\ DOMAIN o = 1..Len(o)
  BY LenProperties DEF PaysAsSet
<1>2. Len(o) # 0 /\ 1 \in DOMAIN o
  BY <1>1
<1>3. o # <<>>
  BY <1>2
<1>4. [o EXCEPT ![1] = Commitment] = o
  <2> DEFINE c == Commitment
  <2>1. o[1] = c /\ o = [i \in 1..Len(o) |-> o[i]]
    BY <1>1
  <2> HIDE DEF c
  <2>2. [o EXCEPT ![1] = c] = o
    BY <1>1, <2>1
  <2> QED
    BY <2>2 DEF c
<1>5. IsCommitment(o[1])
  BY <1>1, CommitmentIs
<1> QED
  BY <1>3, <1>4, <1>5 DEF PlaceCommitment

(***************************************************************************)
(* The inductive invariant.  What a call of rebalance() leaves is about    *)
(* the two calls of an update; between two updates the list is the one     *)
(* the coinbase was built from.                                            *)
(***************************************************************************)
Updating == caller \in {"update", "generate"}

ManagerTypes ==
  /\ coinbaseOutputs \in Seq(Outputs) /\ newOutputs \in Seq(Outputs)
  /\ coinbaseCoins \in Nat
  /\ caller \in {"nobody", "update", "generate", "crashed"}
  /\ pass \in {"first", "again", "returned"}

SharesFit ==
  /\ Updating /\ pass # "first" => Shares <= coinbaseCoins
  /\ Updating /\ pass = "again" => Shares # coinbaseCoins
  /\ Updating /\ pass = "returned" => Shares \in {0, coinbaseCoins}

ListAsSet ==
  \/ coinbaseOutputs = <<>> /\ coinbase = <<>> /\ ~ Updating
  \/ PaysAsSet(coinbaseOutputs, newOutputs)

CoinbaseKept ==
  caller = "nobody" /\ coinbase # <<>> =>
    coinbase = coinbaseOutputs /\ Shares \in {0, coinbaseCoins}

ManagerInv == ManagerTypes /\ SharesFit /\ ListAsSet /\ CoinbaseKept

LEMMA ManagerStep ==
  ASSUME NEW lists \in SUBSET Seq(Outputs), NEW rewards \in SUBSET Nat,
         ManagerInv, [JobManagerNext(lists, rewards)]_managerVars
  PROVE  ManagerInv'
<1>0. ManagerTypes /\ SharesFit /\ ListAsSet /\ CoinbaseKept
  BY DEF ManagerInv
<1>1. CASE RebalanceReturns
  <2>1. /\ Updating /\ Shares \in {0, coinbaseCoins} /\ pass' = "returned"
        /\ UNCHANGED <<coinbaseOutputs, coinbaseCoins, caller, newOutputs, coinbase>>
    BY <1>1 DEF RebalanceReturns, Rebalancing, Updating
  <2>2. Shares' = Shares /\ Updating'
    BY <2>1 DEF Shares, Updating
  <2>3. Shares <= coinbaseCoins
    BY <1>0, <2>1 DEF ManagerTypes
  <2>4. SharesFit'
    BY <2>1, <2>2, <2>3 DEF SharesFit
  <2> QED
    BY <1>0, <2>1, <2>2, <2>4
       DEF ManagerInv, ManagerTypes, ListAsSet, CoinbaseKept, PaysAsSet, Updating
<1>2. CASE RebalancePass
  <2> DEFINE k == CorrectionFactor(coinbaseCoins, Shares)
             a == Corrected(Coins(coinbaseOutputs), k)
  <2>1. /\ Updating /\ Shares \notin {0, coinbaseCoins}
        /\ coinbaseOutputs' = WithCoins(coinbaseOutputs, a)
        /\ pass' = IF Shares' = coinbaseCoins THEN "returned" ELSE "again"
        /\ UNCHANGED <<coinbaseCoins, caller, newOutputs, coinbase>>
    BY <1>2 DEF RebalancePass, Rebalancing, Updating
  <2>2. /\ Coins(coinbaseOutputs) \in Seq(Nat)
        /\ Len(Coins(coinbaseOutputs)) = Len(coinbaseOutputs)
        /\ coinbaseOutputs \in Seq(Outputs) /\ newOutputs \in Seq(Outputs)
        /\ coinbaseCoins \in Nat
    BY <1>0, CoinsAre DEF ManagerTypes
  <2>3. k \in Nat
    <3>1. Shares \in Nat \ {0}
      BY <2>1, <2>2, SumOfNat DEF Shares
    <3> QED
      BY <2>2, <3>1, FactorIs
  <2>4. a \in Seq(Nat) /\ SumOf(a) <= coinbaseCoins
    BY <2>1, <2>2, PassIs DEF Shares
  <2>5. Len(a) = Len(coinbaseOutputs)
    <3> HIDE DEF k
    <3> QED
      BY <2>2, <2>3, CorrectedIs
  <2>6. coinbaseOutputs' \in Seq(Outputs) /\ Coins(coinbaseOutputs') = a
    <3> HIDE DEF a
    <3> QED
      BY <2>1, <2>2, <2>4, <2>5, WithCoinsIs
  <2>7. Shares' = SumOf(a)
    <3> HIDE DEF a
    <3> QED
      BY <2>6 DEF Shares
  <2>8. PaysAsSet(coinbaseOutputs, newOutputs)
    BY <1>0, <2>1 DEF ListAsSet
  <2>9. PaysAsSet(coinbaseOutputs', newOutputs)
    <3> HIDE DEF k
    <3> QED
      BY <2>1, <2>2, <2>3, <2>8, PassPaysAsSet
  <2> HIDE DEF a, k
  <2>10. ManagerTypes'
    BY <1>0, <2>1, <2>6 DEF ManagerTypes
  <2>11. SharesFit'
    BY <2>1, <2>4, <2>7 DEF SharesFit, Updating
  <2>12. ListAsSet'
    BY <2>1, <2>9 DEF ListAsSet, PaysAsSet
  <2>13. CoinbaseKept'
    BY <2>1 DEF CoinbaseKept, Updating
  <2> QED
    BY <2>10, <2>11, <2>12, <2>13 DEF ManagerInv
<1>3. CASE GenerateCoinbaseTransaction
  <2>1. /\ caller = "update" /\ coinbaseOutputs' = PlaceCommitment(coinbaseOutputs)
        /\ caller' = "generate" /\ pass' = "first"
        /\ UNCHANGED <<coinbaseCoins, newOutputs, coinbase>>
    BY <1>3 DEF GenerateCoinbaseTransaction, RebalanceFor
  <2>2. PaysAsSet(coinbaseOutputs, newOutputs)
    BY <1>0, <2>1 DEF ListAsSet, Updating
  <2>3. coinbaseOutputs' = coinbaseOutputs
    BY <1>0, <2>1, <2>2, CommitmentPlaced DEF ManagerTypes
  <2> QED
    BY <1>0, <2>1, <2>2, <2>3
       DEF ManagerInv, ManagerTypes, SharesFit, ListAsSet, CoinbaseKept, PaysAsSet, Updating
<1>4. CASE KeepCoinbase
  <2>1. /\ caller = "generate" /\ pass = "returned" /\ coinbase' = coinbaseOutputs
        /\ caller' = "nobody"
        /\ UNCHANGED <<coinbaseOutputs, coinbaseCoins, pass, newOutputs>>
    BY <1>4 DEF KeepCoinbase
  <2>2. PaysAsSet(coinbaseOutputs, newOutputs) /\ Shares \in {0, coinbaseCoins}
    BY <1>0, <2>1 DEF ListAsSet, SharesFit, Updating
  <2>3. Shares' = Shares
    BY <2>1 DEF Shares
  <2> QED
    BY <1>0, <2>1, <2>2, <2>3
       DEF ManagerInv, ManagerTypes, SharesFit, ListAsSet, CoinbaseKept, PaysAsSet, Updating
<1>5. CASE \E outputs \in lists : UpdateCoinbaseOutputs(outputs)
  <2>1. PICK outputs \in lists : UpdateCoinbaseOutputs(outputs)
    BY <1>5
  <2>2. /\ coinbaseOutputs' = <<Commitment>> \o outputs /\ newOutputs' = outputs
        /\ caller' = "update" /\ pass' = "first"
        /\ UNCHANGED <<coinbaseCoins, coinbase>>
    BY <2>1 DEF UpdateCoinbaseOutputs, RebalanceFor
  <2>3. outputs \in Seq(Outputs)
    OBVIOUS
  <2>4. coinbaseOutputs' \in Seq(Outputs) /\ PaysAsSet(coinbaseOutputs', outputs)
    BY <2>2, <2>3, PaidAsSet
  <2> QED
    BY <1>0, <2>2, <2>3, <2>4
       DEF ManagerInv, ManagerTypes, SharesFit, ListAsSet, CoinbaseKept, PaysAsSet, Updating
<1>6. CASE \E total \in rewards : UpdateWork(total)
  <2>1. PICK total \in rewards : UpdateWork(total)
    BY <1>6
  <2>2. total \in Nat
    OBVIOUS
  <2>3. CASE coinbaseOutputs = <<>>
    <3>1. /\ caller = "nobody" /\ coinbaseCoins' = total /\ caller' = "crashed"
          /\ UNCHANGED <<coinbaseOutputs, pass, newOutputs, coinbase>>
      BY <2>1, <2>3 DEF UpdateWork
    <3> QED
      BY <1>0, <2>2, <2>3, <3>1
         DEF ManagerInv, ManagerTypes, SharesFit, ListAsSet, CoinbaseKept, PaysAsSet, Updating
  <2>4. CASE coinbaseOutputs # <<>>
    <3>1. /\ coinbaseOutputs' = [coinbaseOutputs EXCEPT ![1] = Commitment]
          /\ coinbaseCoins' = total /\ caller' = "update" /\ pass' = "first"
          /\ UNCHANGED <<newOutputs, coinbase>>
      BY <2>1, <2>4 DEF UpdateWork, RebalanceFor
    <3>2. PaysAsSet(coinbaseOutputs, newOutputs)
      BY <1>0, <2>4 DEF ListAsSet
    <3>3. coinbaseOutputs' = coinbaseOutputs
      BY <1>0, <3>1, <3>2, CommitmentPlaced DEF ManagerTypes
    <3> QED
      BY <1>0, <2>2, <3>1, <3>2, <3>3
         DEF ManagerInv, ManagerTypes, SharesFit, ListAsSet, CoinbaseKept, PaysAsSet, Updating
  <2> QED
    BY <2>3, <2>4
<1>7. CASE UNCHANGED managerVars
  <2>1. /\ UNCHANGED <<coinbaseOutputs, coinbaseCoins, caller, pass, newOutputs, coinbase>>
        /\ Shares' = Shares
    BY <1>7 DEF managerVars, Shares
  <2> QED
    BY <1>0, <2>1
       DEF ManagerInv, ManagerTypes, SharesFit, ListAsSet, CoinbaseKept, PaysAsSet, Updating
<1> QED
  BY <1>1, <1>2, <1>3, <1>4, <1>5, <1>6, <1>7 DEF JobManagerNext, UpdaterStep

LEMMA ManagerInvariant ==
  ASSUME NEW lists \in SUBSET Seq(Outputs), NEW rewards \in SUBSET Nat, NEW total \in Nat
  PROVE  JobManagerInit(total) /\ [][JobManagerNext(lists, rewards)]_managerVars
           => []ManagerInv
<1>1. JobManagerInit(total) => ManagerInv
  <2> SUFFICES ASSUME JobManagerInit(total) PROVE ManagerInv
    OBVIOUS
  <2>1. /\ coinbaseOutputs = <<>> /\ newOutputs = <<>> /\ coinbase = <<>>
        /\ coinbaseCoins = total /\ caller = "nobody" /\ pass = "returned"
    BY DEF JobManagerInit
  <2>2. ManagerTypes
    BY <2>1 DEF ManagerTypes
  <2> QED
    BY <2>1, <2>2 DEF ManagerInv, SharesFit, ListAsSet, CoinbaseKept, Updating
<1>2. ManagerInv /\ [JobManagerNext(lists, rewards)]_managerVars => ManagerInv'
  BY ManagerStep
<1> QED
  BY <1>1, <1>2, PTL

(***************************************************************************)
(* rebalance() never pays out more than the reward, whatever the outputs,  *)
(* the rewards and the order of the updates, in whichever of its calls.    *)
(***************************************************************************)
THEOREM RebalancingNeverOverpays ==
  ASSUME NEW lists \in SUBSET Seq(Outputs), NEW rewards \in SUBSET Nat, NEW total \in Nat
  PROVE  JobManagerInit(total) /\ [][JobManagerNext(lists, rewards)]_managerVars
           => []NeverOverpays
<1>1. ManagerInv => NeverOverpays
  BY DEF ManagerInv, SharesFit, Updating, NeverOverpays
<1> QED
  BY <1>1, ManagerInvariant, PTL

(***************************************************************************)
(* The coinbase that jobs are made of follows the outputs set last, and    *)
(* pays the reward of the latest work or nothing at all.                   *)
(***************************************************************************)
THEOREM JobsPayTheReward ==
  ASSUME NEW lists \in SUBSET Seq(Outputs), NEW rewards \in SUBSET Nat, NEW total \in Nat
  PROVE  JobManagerInit(total) /\ [][JobManagerNext(lists, rewards)]_managerVars
           => []JobsPayReward
<1>1. ManagerInv => JobsPayReward
  <2> SUFFICES ASSUME ManagerInv, caller = "nobody", coinbase # <<>>
               PROVE  PaysAsSet(coinbase, newOutputs)
                        /\ SumOf(Coins(coinbase)) \in {0, coinbaseCoins}
    BY DEF JobsPayReward
  <2>1. coinbase = coinbaseOutputs /\ Shares \in {0, coinbaseCoins}
    BY DEF ManagerInv, CoinbaseKept
  <2>2. PaysAsSet(coinbaseOutputs, newOutputs)
    BY <2>1 DEF ManagerInv, ListAsSet
  <2> QED
    BY <2>1, <2>2 DEF Shares
<1> QED
  BY <1>1, ManagerInvariant, PTL

(***************************************************************************)
(* A call of rebalance() by itself that changes an amount brings the sum   *)
(* closer to the reward, from below.  One that changes none, and so never  *)
(* returns, has left less to pay than one coin for each output and one     *)
(* part in Precision of the sum.                                           *)
(***************************************************************************)
LEMMA StuckIsNear ==
  ASSUME ManagerInv, Stuck
  PROVE  NearlyPaid
<1> DEFINE s == Coins(coinbaseOutputs)
           S == SumOf(s)
           n == Len(coinbaseOutputs)
           r == coinbaseCoins
           SP == S * Precision
           nP == n * Precision
           rP == r * Precision
           d == r - S
<1>1. s \in Seq(Nat) /\ Len(s) = n /\ r \in Nat
  BY CoinsAre DEF ManagerInv, ManagerTypes
<1>2. S <= r /\ S # r /\ S # 0 /\ s = Corrected(s, CorrectionFactor(r, S))
  BY DEF ManagerInv, SharesFit, Stuck, Rebalancing, Updating, Shares
<1>3. S \in Nat /\ n \in Nat /\ Precision \in Nat /\ d \in Nat /\ r = S + d
  <2>1. S \in Nat /\ n \in Nat /\ Precision \in Nat
    <3> HIDE DEF s
    <3> QED
      BY <1>1, SumOfNat, LenProperties, CoinbaseAssumption
  <2> HIDE DEF S, n, r
  <2> QED
    BY <1>1, <1>2, <2>1
<1>4. rP < SP + nP + S
  <2> HIDE DEF s, r
  <2> QED
    BY <1>1, <1>2, PassIs
<1> HIDE DEF s, S, n, r
<1>5. S < r
  BY <1>1, <1>2, <1>3
<1> HIDE DEF d
<1>6. d * Precision < nP + S
  <2>1. Precision * (S + d) = Precision * S + Precision * d
    BY <1>3, Products
  <2>2. /\ rP = Precision * (S + d) /\ SP = Precision * S
        /\ d * Precision = Precision * d
        /\ SP \in Nat /\ nP \in Nat /\ Precision * d \in Nat
    BY <1>3, Products
  <2> HIDE DEF rP, SP, nP
  <2> QED
    BY <1>3, <1>4, <2>1, <2>2
<1> QED
  BY <1>5, <1>6 DEF NearlyPaid, Shares, s, S, n, r, d

LEMMA PassesGainOnce ==
  ASSUME NEW lists \in SUBSET Seq(Outputs), NEW rewards \in SUBSET Nat,
         ManagerInv, JobManagerNext(lists, rewards), managerVars' # managerVars,
         Rebalancing, pass = "again", Shares # 0
  PROVE  Shares < Shares' /\ Shares' <= coinbaseCoins
<1> DEFINE s == Coins(coinbaseOutputs)
           c == Corrected(s, CorrectionFactor(coinbaseCoins, SumOf(s)))
<1>1. /\ coinbaseOutputs \in Seq(Outputs) /\ coinbaseCoins \in Nat
      /\ Shares <= coinbaseCoins /\ Shares # coinbaseCoins
  BY DEF ManagerInv, ManagerTypes, SharesFit, Rebalancing, Updating
<1>2. RebalancePass
  <2>1. ~ RebalanceReturns
    BY <1>1 DEF RebalanceReturns
  <2>2. ~ GenerateCoinbaseTransaction /\ ~ KeepCoinbase
    BY DEF GenerateCoinbaseTransaction, KeepCoinbase
  <2>3. caller # "nobody"
    BY DEF Rebalancing
  <2>4. ~ \E outputs \in lists : UpdateCoinbaseOutputs(outputs)
    BY <2>3 DEF UpdateCoinbaseOutputs
  <2>5. ~ \E total \in rewards : UpdateWork(total)
    BY <2>3 DEF UpdateWork
  <2> QED
    BY <2>1, <2>2, <2>4, <2>5 DEF JobManagerNext, UpdaterStep
<1>3. /\ coinbaseOutputs' = WithCoins(coinbaseOutputs, c)
      /\ pass' = IF Shares' = coinbaseCoins THEN "returned" ELSE "again"
      /\ UNCHANGED <<coinbaseCoins, caller, newOutputs, coinbase>>
  BY <1>2 DEF RebalancePass, Shares
<1>4. s \in Seq(Nat) /\ Len(s) = Len(coinbaseOutputs)
  BY <1>1, CoinsAre
<1> HIDE DEF s
<1>5. /\ c \in Seq(Nat) /\ SumOf(c) <= coinbaseCoins
      /\ c # s => SumOf(s) < SumOf(c)
  BY <1>1, <1>4, PassIs DEF Shares, s
<1>6. Len(c) = Len(s)
  <2> DEFINE k == CorrectionFactor(coinbaseCoins, SumOf(s))
  <2>1. SumOf(s) \in Nat \ {0}
    BY <1>4, SumOfNat DEF Shares, s
  <2>2. k \in Nat
    BY <1>1, <2>1, FactorIs
  <2> HIDE DEF k
  <2>3. Len(Corrected(s, k)) = Len(s)
    BY <1>4, <2>2, CorrectedIs
  <2> QED
    BY <2>3 DEF k
<1> HIDE DEF c
<1>7. coinbaseOutputs' \in Seq(Outputs) /\ Coins(coinbaseOutputs') = c
      /\ Len(coinbaseOutputs') = Len(coinbaseOutputs)
      /\ \A i \in 1..Len(coinbaseOutputs) :
           coinbaseOutputs'[i] = [coinbaseOutputs[i] EXCEPT !.coins = c[i]]
  <2> DEFINE p == WithCoins(coinbaseOutputs, c)
  <2>1. /\ p \in Seq(Outputs) /\ Coins(p) = c /\ Len(p) = Len(coinbaseOutputs)
        /\ \A i \in 1..Len(coinbaseOutputs) :
             p[i] = [coinbaseOutputs[i] EXCEPT !.coins = c[i]]
    <3>1. Len(c) = Len(coinbaseOutputs)
      BY <1>4, <1>6
    <3> QED
      BY <1>1, <1>5, <3>1, WithCoinsIs
  <2> HIDE DEF p
  <2>2. coinbaseOutputs' = p
    BY <1>3 DEF p
  <2> QED
    BY <2>1, <2>2, Zenon
<1>8. Shares' = SumOf(c) /\ Shares = SumOf(s)
  BY <1>7 DEF Shares, s
<1>9. c # s
  <2> SUFFICES ASSUME c = s PROVE FALSE
    OBVIOUS
  <2>1. pass' = pass
    BY <1>1, <1>3, <1>8
  <2>2. coinbaseOutputs' = coinbaseOutputs
    <3>1. ASSUME NEW i \in 1..Len(coinbaseOutputs)
          PROVE  coinbaseOutputs'[i] = coinbaseOutputs[i]
      <4>1. coinbaseOutputs[i] \in Outputs /\ c[i] = coinbaseOutputs[i].coins
        BY <1>1, CoinsAre DEF s
      <4>2. coinbaseOutputs'[i] = [coinbaseOutputs[i] EXCEPT !.coins = c[i]]
        BY <1>7
      <4> QED
        BY <4>1, <4>2 DEF Outputs
    <3> QED
      BY <1>1, <1>7, <3>1, SeqEqual
  <2> QED
    BY <1>3, <2>1, <2>2 DEF managerVars
<1> QED
  BY <1>5, <1>8, <1>9

THEOREM RebalancingGains ==
  ASSUME NEW lists \in SUBSET Seq(Outputs), NEW rewards \in SUBSET Nat, NEW total \in Nat
  PROVE  JobManagerInit(total) /\ [][JobManagerNext(lists, rewards)]_managerVars
           => PassesGain
<1>1. ManagerInv => (Stuck => NearlyPaid)
  BY StuckIsNear
<1>2. ManagerInv /\ [JobManagerNext(lists, rewards)]_managerVars => [PassGains]_managerVars
  BY PassesGainOnce DEF PassGains
<1> QED
  BY <1>1, <1>2, ManagerInvariant, PTL DEF PassesGain

-----------------------------------------------------------------------------
(* The coinbases of the run.                                               *)
LEMMA CoinbaseInputs ==
  ASSUME NEW s \in Inputs, s.of = "coinbase"
  PROVE  /\ s.height \in {1, 255, 70000} /\ s.idLength \in {0, 18, 230, 250}
         /\ s.nonces \in {Zeros(8), <<1, 2, 3, 4, 5, 6, 7, 8>>}
         /\ s.outputs \in MCOutputLists
BY SMT DEF Inputs

LEMMA OutputIs ==
  ASSUME NEW kind \in {"P2PKH", "P2SH", "P2WPKH"}, NEW n \in Nat
  PROVE  MCOutput(kind, n) \in Outputs
<1>1. 1 \in Byte /\ 2 \in Byte
  BY ByteIs
<1>2. <<1, 2>> \in Seq(Byte)
  BY <1>1
<1> DEFINE data == <<1, 2>>
<1> HIDE DEF data
<1>3. [kind |-> kind, data |-> data, coins |-> n] \in Outputs
  BY <1>2 DEF Outputs, data
<1> QED
  BY <1>3 DEF MCOutput, data

LEMMA ExampleLists == MCOutputLists \subseteq Seq(Outputs)
<1> DEFINE a == MCOutput("P2SH", 900)
           b == MCOutput("P2PKH", 7)
           c == MCOutput("P2WPKH", 333)
           d == MCOutput("P2PKH", 1)
           e == MCOutput("P2PKH", 0)
           f == MCOutput("P2SH", 2500)
           g == MCOutput("P2SH", 333)
<1>1. /\ a \in Outputs /\ b \in Outputs /\ c \in Outputs /\ d \in Outputs /\ e \in Outputs
      /\ f \in Outputs /\ g \in Outputs
  <2>1. 900 \in Nat /\ 7 \in Nat /\ 333 \in Nat /\ 1 \in Nat /\ 0 \in Nat /\ 2500 \in Nat
    OBVIOUS
  <2> QED
    BY <2>1, OutputIs
<1> HIDE DEF a, b, c, d, e, f, g
<1>2. /\ <<>> \in Seq(Outputs) /\ <<a>> \in Seq(Outputs) /\ <<b, c>> \in Seq(Outputs)
      /\ <<d, e, f>> \in Seq(Outputs) /\ <<g, g, g>> \in Seq(Outputs)
  BY <1>1
<1>3. MCOutputLists = {<<>>, <<a>>, <<b, c>>, <<d, e, f>>, <<g, g, g>>}
  BY DEF MCOutputLists, a, b, c, d, e, f, g
<1> QED
  BY <1>2, <1>3, Zenon

(***************************************************************************)
(* The run's heights, identifications, nonces and outputs are such.        *)
(***************************************************************************)
THEOREM CoinbasesAreWellFormed == Spec => []CoinbaseWellFormed
<1>1. SubjectStays => CoinbaseWellFormed
  <2> SUFFICES ASSUME subject \in Inputs, subject.of = "coinbase"
               PROVE  CoinbaseWellFormed
    BY DEF SubjectStays, CoinbaseWellFormed
  <2> DEFINE id == [i \in 1..subject.idLength |-> 65]
             now == 1700000000
  <2>1. subject.outputs \in Seq(Outputs)
    BY CoinbaseInputs, ExampleLists
  <2>2. subject.height \in Nat /\ now \in Nat
    BY CoinbaseInputs
  <2> HIDE DEF now
  <2>3. subject.nonces \in Seq(Byte) /\ Len(subject.nonces) = 8
    <3>1. Zeros(8) \in Seq(Byte) /\ Len(Zeros(8)) = 8
      BY ZerosIs
    <3>2. <<1, 2, 3, 4, 5, 6, 7, 8>> \in Seq(Byte) /\ Len(<<1, 2, 3, 4, 5, 6, 7, 8>>) = 8
      <4>1. /\ 1 \in Byte /\ 2 \in Byte /\ 3 \in Byte /\ 4 \in Byte /\ 5 \in Byte
            /\ 6 \in Byte /\ 7 \in Byte /\ 8 \in Byte
        BY ByteIs
      <4> QED
        BY <4>1
    <3>3. subject.nonces \in {Zeros(8), <<1, 2, 3, 4, 5, 6, 7, 8>>}
      BY CoinbaseInputs
    <3> QED
      BY <3>1, <3>2, <3>3, Zenon
  <2>4. id \in Seq(Byte) /\ Len(id) < Power(4)
    <3>1. subject.idLength \in Nat /\ subject.idLength < 256
      BY CoinbaseInputs
    <3>2. 65 \in Byte
      BY ByteIs
    <3>3. id \in Seq(Byte) /\ Len(id) = subject.idLength
      BY <3>1, <3>2
    <3> HIDE DEF id
    <3> QED
      BY <3>1, <3>3, PowersAre
  <2> HIDE DEF id
  <2>5. PartsMakeTransaction(subject.height, now, subject.nonces, id, subject.outputs)
    BY <2>1, <2>2, <2>3, <2>4, CoinbasesAreMadeOfParts, Zenon
  <2> QED
    BY <2>5 DEF CoinbaseWellFormed, id, now
<1> QED
  BY <1>1, SubjectIs, PTL

-----------------------------------------------------------------------------
(***************************************************************************)
(* The help screen.                                                        *)
(***************************************************************************)
LEMMA ColumnSizes ==
  \A p \in Parameters : ParamNameColumnSize(p) \in Nat
<1> DEFINE W == [name : STRING, abbreviation : STRING, required : BOOLEAN,
                 type : {"string", "int", "bool", "flag"}, width : Nat]
<1>1. \A p \in DOMAIN Template : Template[p] \in W
  <2>1. Template \in Seq(W)
    BY TemplateAssumption
  <2> HIDE DEF W
  <2> QED
    BY <2>1, LenProperties
<1>2. \A p \in Parameters : Template[p].width \in Nat
  BY <1>1 DEF Parameters
<1> SUFFICES ASSUME NEW p \in Parameters PROVE ParamNameColumnSize(p) \in Nat
  OBVIOUS
<1> DEFINE w == Template[p].width
           x == IF Template[p].abbreviation # "" THEN 5 ELSE 0
           y == IF RequiresArgument(p) THEN 8 ELSE 0
<1>3. w \in Nat /\ x \in Nat /\ y \in Nat
  BY <1>2
<1>4. ParamNameColumnSize(p) = 4 + 2 + w + 1 + x + y
  BY DEF ParamNameColumnSize
<1> HIDE DEF w, x, y
<1> QED
  BY <1>3, <1>4

(* The number of tabs is no smaller than any parameter's, nor than what it
   was before.                                                             *)
LEMMA TabsAreEnough ==
  ASSUME NEW garbage \in Int
  PROVE  /\ HelpTabs(garbage) \in Int /\ garbage <= HelpTabs(garbage)
         /\ \A p \in Parameters : RequiredTabs(p) <= HelpTabs(garbage)
<1> DEFINE N == Len(Template)
           Step(v, n) == IF RequiredTabs(n) > v THEN RequiredTabs(n) ELSE v
           next == [n \in 1..N |-> [v \in Int |-> Step(v, n)]]
<1>1. N \in Nat /\ Parameters = 1..N
  BY TemplateAssumption, LenProperties DEF Parameters
<1>2. \A n \in 1..N : RequiredTabs(n) \in Int
  <2>1. \A n \in 1..N : ParamNameColumnSize(n) \in Nat
    BY <1>1, ColumnSizes
  <2> QED
    BY <2>1 DEF RequiredTabs
<1> HIDE DEF N
<1>3. next \in [1..N -> [Int -> Int]]
  BY <1>2
<1>4. PICK g : Iterates(g, Int, garbage, N, next)
  <2> HIDE DEF next
  <2> QED
    BY <1>1, <1>3, Recursion
<1>5. ASSUME NEW n \in 1..N PROVE g[n] = Step(g[n - 1], n)
  <2>1. next[n] = [v \in Int |-> Step(v, n)]
    OBVIOUS
  <2> HIDE DEF next, Step
  <2>2. g[n - 1] \in Int /\ g[n] = next[n][g[n - 1]]
    BY <1>1, <1>4 DEF Iterates
  <2> QED
    BY <2>1, <2>2
<1> DEFINE Rec(h) == [n \in 0..N |-> IF n = 0 THEN garbage
                        ELSE IF RequiredTabs(n) > h[n - 1] THEN RequiredTabs(n) ELSE h[n - 1]]
           f == CHOOSE h : h = Rec(h)
<1>6. g = Rec(g)
  BY <1>1, <1>4, <1>5 DEF Iterates
<1>7. f = Rec(f)
  <2> HIDE DEF Rec
  <2> QED
    BY <1>6
<1>8. HelpTabs(garbage) = f[N]
  BY DEF HelpTabs, N
<1> HIDE DEF f
<1> DEFINE Fine(k) == /\ f[k] \in Int /\ garbage <= f[k]
                      /\ \A p \in 1..k : RequiredTabs(p) <= f[k]
           T == {k \in Nat : k <= N => Fine(k)}
<1>9. Nat \subseteq T
  <2>1. 0 \in T
    BY <1>1, <1>7
  <2>2. ASSUME NEW k \in Nat, k \in T PROVE k + 1 \in T
    <3> SUFFICES ASSUME k + 1 <= N PROVE Fine(k + 1)
      OBVIOUS
    <3>1. Fine(k) /\ k + 1 \in 1..N /\ (k + 1) - 1 = k /\ k \in 0..N
      BY <1>1, <2>2
    <3>2. f[k + 1] = IF RequiredTabs(k + 1) > f[k] THEN RequiredTabs(k + 1) ELSE f[k]
      BY <1>1, <1>7, <3>1
    <3>3. \A p \in 1..(k + 1) : p = k + 1 \/ p \in 1..k
      OBVIOUS
    <3>4. \A p \in 1..k : RequiredTabs(p) \in Int
      BY <1>1, <1>2, <3>1
    <3> QED
      BY <1>2, <3>1, <3>2, <3>3, <3>4
  <2> HIDE DEF T
  <2> QED
    BY <2>1, <2>2, Induction
<1> QED
  BY <1>1, <1>8, <1>9

(***************************************************************************)
(* Whatever the parameters and the number that was not initialised: the    *)
(* help texts start in one column, unless the longest name ends at a tab   *)
(* stop and the number is not larger.                                      *)
(***************************************************************************)
THEOREM HelpTextsAreInLine == \A garbage \in Int : HelpLinesUp(garbage)
<1> SUFFICES ASSUME NEW garbage \in Int PROVE HelpLinesUp(garbage)
  OBVIOUS
<1> DEFINE tabs == HelpTabs(garbage)
           size(p) == ParamNameColumnSize(p)
           longest == CHOOSE p \in Parameters : \A q \in Parameters : size(q) <= size(p)
<1>1. tabs \in Int /\ garbage <= tabs /\ \A p \in Parameters : (size(p) + 3) \div 4 <= tabs
  BY TabsAreEnough DEF RequiredTabs
<1>2. \A p \in Parameters : size(p) \in Nat
  BY ColumnSizes
<1> HIDE DEF tabs, size
<1>3. ASSUME NEW p \in Parameters PROVE HelpColumn(tabs, p) = 4 * tabs
  <2>1. HelpColumn(tabs, p)
          = size(p) + (4 - (size(p) % 4)) + 4 * (tabs - (size(p) \div 4) - 1)
    BY DEF HelpColumn, Filler, size
  <2>2. size(p) \in Nat
    BY <1>2
  <2> QED
    BY <1>1, <2>1, <2>2
<1>4. ASSUME NEW p \in Parameters, ~ (Filler(tabs, size(p)) >= 0)
      PROVE  size(longest) % 4 = 0 /\ garbage <= size(longest) \div 4
  <2>1. longest \in Parameters /\ \A q \in Parameters : size(q) <= size(longest)
    <3> DEFINE S == {size(q) : q \in Parameters}
    <3>1. \E m \in Parameters : \A q \in Parameters : size(q) <= size(m)
      <4> DEFINE T == {k \in Nat : (\E q \in Parameters : size(q) >= tabs * 4 - k)
                          => \E m \in Parameters : \A q \in Parameters : size(q) <= size(m)}
      <4>1. \A q \in Parameters : size(q) <= tabs * 4
        BY <1>1, <1>2
      <4>2. 0 \in T
        <5> SUFFICES ASSUME NEW m \in Parameters, size(m) >= tabs * 4 - 0
                     PROVE  \A q \in Parameters : size(q) <= size(m)
          OBVIOUS
        <5> QED
          BY <1>1, <1>2, <4>1
      <4>3. ASSUME NEW k \in Nat, k \in T PROVE k + 1 \in T
        <5> SUFFICES ASSUME NEW m \in Parameters, size(m) >= tabs * 4 - (k + 1),
                            ~ \E q \in Parameters : size(q) >= tabs * 4 - k
                     PROVE  \A q \in Parameters : size(q) <= size(m)
          BY <4>3
        <5> QED
          BY <1>1, <1>2
      <4> HIDE DEF T
      <4>4. Nat \subseteq T
        BY <4>2, <4>3, Induction
      <4>5. size(p) >= tabs * 4 - (tabs * 4 - size(p)) /\ tabs * 4 - size(p) \in Nat
        BY <1>1, <1>2, <4>1
      <4> QED
        BY <4>4, <4>5 DEF T
    <3> QED
      BY <3>1
  <2> HIDE DEF longest
  <2>2. ~ (tabs - (size(p) \div 4) - 1 >= 0)
    BY <1>4 DEF Filler
  <2>3. size(p) \in Nat /\ size(longest) \in Nat
    BY <1>2, <2>1
  <2>4. (size(longest) + 3) \div 4 <= tabs /\ (size(p) + 3) \div 4 <= tabs
        /\ size(p) <= size(longest)
    BY <1>1, <2>1
  <2> DEFINE x == size(p)
             y == size(longest)
  <2>5. x \in Nat /\ y \in Nat /\ tabs < (x \div 4) + 1 /\ (y + 3) \div 4 <= tabs
        /\ (x + 3) \div 4 <= tabs /\ x <= y
    BY <1>1, <2>2, <2>3, <2>4
  <2> HIDE DEF x, y
  <2>6. y % 4 = 0 /\ y \div 4 = tabs
    BY <1>1, <2>5
  <2> QED
    BY <1>1, <2>6 DEF y
<1> HIDE DEF longest
<1>5. IF \A p \in Parameters : Filler(tabs, size(p)) >= 0
      THEN \A p, q \in Parameters : HelpColumn(tabs, p) = HelpColumn(tabs, q)
      ELSE size(longest) % 4 = 0 /\ garbage <= size(longest) \div 4
  BY <1>3, <1>4
<1> QED
  BY <1>5 DEF HelpLinesUp, tabs, size, longest

LEMMA HelpInputs ==
  ASSUME NEW s \in Inputs, s.of = "help"
  PROVE  s.garbage \in {0, 6, 7, 8, 1000}
BY SMT DEF Inputs

(***************************************************************************)
(* The run's numbers are such.                                             *)
(***************************************************************************)
THEOREM HelpTextsAlwaysLineUp == Spec => []HelpTextsLineUp
<1>1. SubjectStays => HelpTextsLineUp
  <2> SUFFICES ASSUME subject \in Inputs, subject.of = "help"
               PROVE  HelpLinesUp(subject.garbage)
    BY DEF SubjectStays, HelpTextsLineUp
  <2>1. subject.garbage \in Int
    BY HelpInputs
  <2> QED
    BY <2>1, HelpTextsAreInLine
<1> QED
  BY <1>1, SubjectIs, PTL

-----------------------------------------------------------------------------
(***************************************************************************)
(* Difficulties: quotients of the first digits.                            *)
(***************************************************************************)
Hashes == [1..HashLength -> 0..(Base - 1)]

LEMMA DigitsAre ==
  /\ Base \in Nat /\ Base >= 2 /\ Window \in Nat /\ Window >= 1
  /\ HashLength \in Nat /\ HashLength >= Window
  /\ Diff1 \in Hashes
BY DigitsAssumption DEF Hashes

Weighs(p, n) ==
  /\ p \in [0..n -> Nat]
  /\ p[0] = 1
  /\ \A i \in 1..n : p[i] = Base * p[i - 1]

LEMMA WeightIs ==
  ASSUME NEW n \in Nat
  PROVE  \E p : Weighs(p, n) /\ Weight(n) = p[n]
<1> DEFINE next == [i \in 1..n |-> [v \in Nat |-> Base * v]]
<1>1. next \in [1..n -> [Nat -> Nat]]
  <2>1. \A v \in Nat : Base * v \in Nat
    BY DigitsAre, Products
  <2> QED
    BY <2>1
<1>2. PICK g : Iterates(g, Nat, 1, n, next)
  <2>1. 1 \in Nat
    OBVIOUS
  <2> HIDE DEF next
  <2> QED
    BY <1>1, <2>1, Recursion
<1>3. ASSUME NEW i \in 1..n PROVE g[i] = Base * g[i - 1]
  <2>1. next[i] = [v \in Nat |-> Base * v]
    OBVIOUS
  <2> HIDE DEF next
  <2>2. g[i - 1] \in Nat /\ g[i] = next[i][g[i - 1]]
    BY <1>2 DEF Iterates
  <2> QED
    BY <2>1, <2>2
<1> DEFINE Rec(h) == [i \in 0..n |-> IF i = 0 THEN 1 ELSE Base * h[i - 1]]
           f == CHOOSE h : h = Rec(h)
<1>4. g = Rec(g)
  BY <1>2, <1>3 DEF Iterates
<1>5. f = Rec(f)
  <2> HIDE DEF Rec
  <2> QED
    BY <1>4
<1>6. Weight(n) = f[n]
  BY DEF Weight
<1> HIDE DEF f
<1>7. f[0] = 1 /\ \A i \in 1..n : f[i] = Base * f[i - 1]
  BY <1>5
<1> DEFINE T == {k \in Nat : k <= n => f[k] \in Nat}
<1>8. Nat \subseteq T
  <2>1. 0 \in T
    BY <1>7
  <2>2. ASSUME NEW k \in Nat, k \in T PROVE k + 1 \in T
    <3> SUFFICES ASSUME k + 1 <= n PROVE f[k + 1] \in Nat
      OBVIOUS
    <3>1. f[k + 1] = Base * f[k] /\ f[k] \in Nat
      BY <1>7, <2>2
    <3> QED
      BY <3>1, DigitsAre, Products
  <2> HIDE DEF T
  <2> QED
    BY <2>1, <2>2, Induction
<1>9. f \in [0..n -> Nat]
  <2>1. \A k \in 0..n : f[k] \in Nat
    BY <1>8
  <2> QED
    BY <1>5, <2>1
<1> QED
  BY <1>6, <1>7, <1>9 DEF Weighs

LEMMA WeighsOnce ==
  ASSUME NEW n \in Nat, NEW p, Weighs(p, n), NEW v \in 0..n
  PROVE  Weight(v) = p[v]
<1>1. PICK q : Weighs(q, v) /\ Weight(v) = q[v]
  BY WeightIs
<1> DEFINE T == {k \in Nat : k <= v => q[k] = p[k]}
<1>2. Nat \subseteq T
  <2>1. 0 \in T
    BY <1>1 DEF Weighs
  <2>2. ASSUME NEW k \in Nat, k \in T PROVE k + 1 \in T
    <3> SUFFICES ASSUME k + 1 <= v PROVE q[k + 1] = p[k + 1]
      OBVIOUS
    <3>1. q[k] = p[k] /\ k + 1 \in 1..v /\ k + 1 \in 1..n /\ (k + 1) - 1 = k
      BY <2>2
    <3> QED
      BY <3>1, <1>1 DEF Weighs
  <2> HIDE DEF T
  <2> QED
    BY <2>1, <2>2, Induction
<1>3. v \in Nat
  OBVIOUS
<1> QED
  BY <1>1, <1>2, <1>3

LEMMA WeightSteps ==
  /\ Weight(0) = 1
  /\ \A n \in Nat : Weight(n) \in Nat /\ Weight(n + 1) = Base * Weight(n)
<1>1. Weight(0) = 1
  <2>1. 0 \in Nat
    OBVIOUS
  <2>2. PICK p : Weighs(p, 0) /\ Weight(0) = p[0]
    BY <2>1, WeightIs, Zenon
  <2> QED
    BY <2>2 DEF Weighs
<1>2. ASSUME NEW n \in Nat PROVE Weight(n) \in Nat /\ Weight(n + 1) = Base * Weight(n)
  <2>1. n + 1 \in Nat /\ n \in 0..(n + 1) /\ n + 1 \in 1..(n + 1) /\ (n + 1) - 1 = n
    OBVIOUS
  <2>2. PICK p : Weighs(p, n + 1) /\ Weight(n + 1) = p[n + 1]
    BY <2>1, WeightIs, Zenon
  <2>3. Weight(n) = p[n]
    BY <2>1, <2>2, WeighsOnce
  <2> QED
    BY <2>1, <2>2, <2>3 DEF Weighs
<1> QED
  BY <1>1, <1>2

(* Weights multiply, and are at least the base.                            *)
LEMMA WeightSum ==
  ASSUME NEW m \in Nat, NEW n \in Nat
  PROVE  Weight(m + n) = Weight(m) * Weight(n)
<1> DEFINE T == {k \in Nat : Weight(m + k) = Weight(m) * Weight(k)}
<1>1. Weight(m) \in Nat
  BY WeightSteps
<1>2. 0 \in T
  <2>1. m + 0 = m /\ Weight(0) = 1
    BY WeightSteps
  <2> QED
    BY <1>1, <2>1
<1>3. ASSUME NEW k \in Nat, k \in T PROVE k + 1 \in T
  <2> DEFINE x == Weight(m)
             y == Weight(k)
             z == Weight(m + k)
             s == m + k
  <2>1. s \in Nat /\ m + (k + 1) = s + 1
    OBVIOUS
  <2>2. Weight(k + 1) = Base * y /\ y \in Nat /\ Weight(s + 1) = Base * z
    BY <2>1, WeightSteps
  <2>3. z = x * y /\ x \in Nat /\ Base \in Nat
    BY <1>1, <1>3, DigitsAre
  <2> HIDE DEF x, y, z, s
  <2>4. Base * z = x * (Base * y)
    BY <2>2, <2>3
  <2>5. Weight(m + (k + 1)) = x * Weight(k + 1)
    BY <2>1, <2>2, <2>4
  <2> QED
    BY <2>5 DEF x
<1> HIDE DEF T
<1>4. Nat \subseteq T
  BY <1>2, <1>3, Induction
<1> QED
  BY <1>4 DEF T

LEMMA WeightPositive ==
  ASSUME NEW n \in Nat
  PROVE  Weight(n) \in Nat /\ Weight(n) >= 1 /\ (n >= 1 => Weight(n) >= Base)
<1> DEFINE T == {k \in Nat : Weight(k) >= 1}
<1>1. 0 \in T
  BY WeightSteps
<1>2. ASSUME NEW k \in Nat, k \in T PROVE k + 1 \in T
  <2> DEFINE x == Weight(k)
  <2>1. x \in Nat /\ x >= 1 /\ Weight(k + 1) = Base * x /\ Base \in Nat /\ Base >= 2
    BY <1>2, WeightSteps, DigitsAre
  <2> HIDE DEF x
  <2>2. Base * 1 <= Base * x
    BY <2>1
  <2> QED
    BY <2>1, <2>2
<1> HIDE DEF T
<1>3. Nat \subseteq T
  BY <1>1, <1>2, Induction
<1>4. Weight(n) \in Nat /\ Weight(n) >= 1
  BY <1>3, WeightSteps DEF T
<1>5. ASSUME n >= 1 PROVE Weight(n) >= Base
  <2> DEFINE k == n - 1
             x == Weight(k)
  <2>1. k \in Nat /\ k + 1 = n
    BY <1>5
  <2> HIDE DEF k
  <2>2. x \in Nat /\ x >= 1 /\ Weight(n) = Base * x /\ Base \in Nat
    BY <1>3, <2>1, WeightSteps, DigitsAre DEF T
  <2> HIDE DEF x
  <2>3. Base * 1 <= Base * x
    BY <2>2
  <2> QED
    BY <2>2, <2>3
<1> QED
  BY <1>4, <1>5

(***************************************************************************)
(* The first digits of a hash as a number.                                 *)
(***************************************************************************)
Shown(f, a, from) ==
  /\ f \in [0..Window -> Nat]
  /\ f[0] = 0
  /\ \A i \in 1..Window : f[i] = f[i - 1] * Base + a[from + i]

LEMMA DigitIs ==
  ASSUME NEW a \in Hashes, NEW from \in 0..(HashLength - Window), NEW i \in 1..Window
  PROVE  from + i \in 1..HashLength /\ a[from + i] \in Nat /\ a[from + i] < Base
<1>1. from + i \in 1..HashLength
  BY DigitsAre
<1>2. a[from + i] \in 0..(Base - 1)
  BY <1>1 DEF Hashes
<1> QED
  BY <1>1, <1>2, DigitsAre

LEMMA WindowIs ==
  ASSUME NEW a \in Hashes, NEW from \in 0..(HashLength - Window)
  PROVE  \E f : Shown(f, a, from) /\ ReadWindow(a, from) = f[Window]
<1>0. Window \in Nat
  BY DigitsAre
<1> DEFINE next == [i \in 1..Window |-> [v \in Nat |-> v * Base + a[from + i]]]
<1>1. next \in [1..Window -> [Nat -> Nat]]
  <2>1. ASSUME NEW i \in 1..Window, NEW v \in Nat PROVE v * Base + a[from + i] \in Nat
    <3>1. v * Base \in Nat
      BY DigitsAre, Products
    <3> QED
      BY <3>1, DigitIs
  <2> QED
    BY <2>1
<1>2. PICK g : Iterates(g, Nat, 0, Window, next)
  <2>1. 0 \in Nat
    OBVIOUS
  <2> HIDE DEF next
  <2> QED
    BY <1>0, <1>1, <2>1, Recursion
<1>3. ASSUME NEW i \in 1..Window PROVE g[i] = g[i - 1] * Base + a[from + i]
  <2>1. next[i] = [v \in Nat |-> v * Base + a[from + i]]
    OBVIOUS
  <2> HIDE DEF next
  <2>2. g[i - 1] \in Nat /\ g[i] = next[i][g[i - 1]]
    BY <1>0, <1>2 DEF Iterates
  <2> QED
    BY <2>1, <2>2
<1> DEFINE Rec(h) == [i \in 0..Window |-> IF i = 0 THEN 0 ELSE h[i - 1] * Base + a[from + i]]
           f == CHOOSE h : h = Rec(h)
<1>4. g = Rec(g)
  BY <1>0, <1>2, <1>3 DEF Iterates
<1>5. f = Rec(f)
  <2> HIDE DEF Rec
  <2> QED
    BY <1>4
<1>6. ReadWindow(a, from) = f[Window]
  BY DEF ReadWindow
<1> HIDE DEF f
<1>7. f[0] = 0 /\ \A i \in 1..Window : f[i] = f[i - 1] * Base + a[from + i]
  BY <1>0, <1>5
<1> DEFINE T == {k \in Nat : k <= Window => f[k] \in Nat}
<1>8. Nat \subseteq T
  <2>1. 0 \in T
    BY <1>7
  <2>2. ASSUME NEW k \in Nat, k \in T PROVE k + 1 \in T
    <3> SUFFICES ASSUME k + 1 <= Window PROVE f[k + 1] \in Nat
      OBVIOUS
    <3>1. k + 1 \in 1..Window /\ (k + 1) - 1 = k /\ f[k] \in Nat
      BY <1>0, <2>2
    <3>2. f[k + 1] = f[k] * Base + a[from + (k + 1)]
      BY <1>7, <3>1
    <3>3. a[from + (k + 1)] \in Nat
      BY <3>1, DigitIs
    <3>4. f[k] * Base \in Nat
      BY <3>1, DigitsAre, Products
    <3> QED
      BY <3>2, <3>3, <3>4
  <2> HIDE DEF T
  <2> QED
    BY <2>1, <2>2, Induction
<1>9. f \in [0..Window -> Nat]
  <2>1. \A k \in 0..Window : f[k] \in Nat
    BY <1>0, <1>8
  <2> QED
    BY <1>5, <2>1
<1> QED
  BY <1>6, <1>7, <1>9 DEF Shown

(* The number is below the weight of the window, and it is not below the   *)
(* weight of all digits but the first if that is not 0.                    *)
LEMMA WindowBounds ==
  ASSUME NEW a \in Hashes, NEW from \in 0..(HashLength - Window)
  PROVE  /\ ReadWindow(a, from) \in Nat
         /\ ReadWindow(a, from) < Weight(Window)
         /\ a[from + 1] # 0 => ReadWindow(a, from) >= Weight(Window - 1)
<1>0. Window \in Nat /\ Window >= 1 /\ Base \in Nat /\ Base >= 2
  BY DigitsAre
<1>1. PICK f : Shown(f, a, from) /\ ReadWindow(a, from) = f[Window]
  BY WindowIs
<1>2. \A k \in 0..Window : f[k] \in Nat
  BY <1>1 DEF Shown
<1> DEFINE T == {k \in Nat : k <= Window =>
                   /\ f[k] < Weight(k)
                   /\ k >= 1 /\ a[from + 1] # 0 => f[k] >= Weight(k - 1)}
<1>3. 0 \in T
  BY <1>1, WeightSteps DEF Shown
<1>4. ASSUME NEW k \in Nat, k \in T PROVE k + 1 \in T
  <2> SUFFICES ASSUME k + 1 <= Window
               PROVE  /\ f[k + 1] < Weight(k + 1)
                      /\ a[from + 1] # 0 => f[k + 1] >= Weight(k)
    <3>1. (k + 1) - 1 = k /\ k + 1 \in Nat
      OBVIOUS
    <3> QED
      BY <3>1
  <2> DEFINE v == f[k]
             w == Weight(k)
             d == a[from + (k + 1)]
  <2>1. k + 1 \in 1..Window /\ (k + 1) - 1 = k /\ k \in 0..Window
    BY <1>0
  <2>2. d \in Nat /\ d < Base
    BY <2>1, DigitIs
  <2>3. f[k + 1] = v * Base + d
    BY <1>1, <2>1 DEF Shown
  <2>4. v \in Nat /\ w \in Nat /\ Weight(k + 1) = Base * w
    BY <1>2, <2>1, WeightSteps
  <2>5. v < w
    BY <1>4, <2>1
  <2>6. k >= 1 /\ a[from + 1] # 0 => v >= Weight(k - 1)
    BY <1>4, <2>1
  <2>7. k >= 1 => Weight(k - 1) \in Nat /\ w = Base * Weight(k - 1)
    <3> SUFFICES ASSUME k >= 1 PROVE Weight(k - 1) \in Nat /\ w = Base * Weight(k - 1)
      OBVIOUS
    <3>1. k - 1 \in Nat /\ (k - 1) + 1 = k
      OBVIOUS
    <3> QED
      BY <3>1, WeightSteps
  <2>8. k = 0 => d = a[from + 1] /\ w = 1
    BY WeightSteps
  <2> HIDE DEF v, w, d
  <2>9. v * Base + d < Base * w
    <3>1. Base * (v + 1) <= Base * w
      BY <1>0, <2>4, <2>5, Products
    <3>2. Base * (v + 1) = v * Base + Base /\ v * Base \in Nat /\ Base * w \in Nat
      BY <1>0, <2>4, Products
    <3> DEFINE p == v * Base
               q == Base * w
               r == Base * (v + 1)
    <3> HIDE DEF p, q, r
    <3>3. r <= q /\ r = p + Base /\ p \in Nat /\ q \in Nat
      BY <3>1, <3>2 DEF p, q, r
    <3>4. p + d < q
      BY <1>0, <2>2, <3>3
    <3> QED
      BY <3>4 DEF p, q
  <2>10. ASSUME a[from + 1] # 0 PROVE v * Base + d >= w
    <3>0. v * Base \in Nat
      BY <1>0, <2>4, Products
    <3>1. CASE k = 0
      <4>1. d # 0 /\ w = 1
        BY <2>8, <2>10, <3>1
      <4> DEFINE p == v * Base
      <4> HIDE DEF p
      <4>2. p \in Nat
        BY <3>0 DEF p
      <4>3. p + d >= w
        BY <2>2, <4>1, <4>2
      <4> QED
        BY <4>3 DEF p
    <3>2. CASE k >= 1
      <4> DEFINE u == Weight(k - 1)
      <4>1. u \in Nat /\ w = Base * u /\ u <= v
        BY <2>4, <2>6, <2>7, <2>10, <3>2
      <4> HIDE DEF u
      <4>2. Base * u <= Base * v /\ Base * v = v * Base
        BY <1>0, <2>4, <4>1, Products
      <4> DEFINE p == v * Base
      <4>3. p \in Nat /\ w <= p
        BY <3>0, <4>1, <4>2
      <4> HIDE DEF p
      <4>4. p + d >= w
        BY <2>2, <2>4, <4>3
      <4> QED
        BY <4>4 DEF p
    <3> QED
      BY <3>1, <3>2
  <2> QED
    BY <2>3, <2>4, <2>9, <2>10 DEF w
<1> HIDE DEF T
<1>5. Nat \subseteq T
  BY <1>3, <1>4, Induction
<1>6. Window \in 0..Window
  BY <1>0
<1> QED
  BY <1>0, <1>1, <1>2, <1>5, <1>6 DEF T

(***************************************************************************)
(* The first digit that is not 0, or the last window.                      *)
(***************************************************************************)
LEMMA FirstIs ==
  ASSUME NEW a \in Hashes
  PROVE  /\ FindFirstNonZeroByte(a) \in 0..(HashLength - Window)
         /\ \A j \in 1..FindFirstNonZeroByte(a) : a[j] = 0
         /\ FindFirstNonZeroByte(a) < HashLength - Window
              => a[FindFirstNonZeroByte(a) + 1] # 0
<1> DEFINE M == HashLength - Window
           found == {i \in 1..M : a[i] # 0}
           first == CHOOSE i \in found : \A k \in found : i <= k
           k == FindFirstNonZeroByte(a)
<1>0. M \in Nat
  BY DigitsAre
<1>1. k = IF found = {} THEN M ELSE first - 1
  BY DEF FindFirstNonZeroByte
<1>2. CASE found = {}
  <2>1. k = M
    BY <1>1, <1>2
  <2>2. \A j \in 1..M : a[j] = 0
    BY <1>2
  <2> HIDE DEF k, found, M
  <2>3. k \in 0..M /\ (\A j \in 1..k : a[j] = 0) /\ ~ (k < M)
    BY <1>0, <2>1, <2>2
  <2> QED
    BY <2>3 DEF k, M
<1>3. CASE found # {}
  <2>1. \E i \in found : \A j \in found : i <= j
    <3>1. found \subseteq Nat
      OBVIOUS
    <3> HIDE DEF found
    <3> QED
      BY <1>3, <3>1, LeastNumber
  <2>2. first \in found /\ \A j \in found : first <= j
    <3> HIDE DEF found
    <3> QED
      BY <2>1
  <2>3. k = first - 1
    BY <1>1, <1>3
  <2> HIDE DEF first, k
  <2>4. first \in 1..M /\ a[first] # 0
    BY <2>2
  <2>5. \A j \in 1..M : j < first => a[j] = 0
    BY <2>2, <2>4
  <2> HIDE DEF found, M
  <2>6. k \in 0..M /\ k + 1 = first
    BY <1>0, <2>3, <2>4
  <2>7. \A j \in 1..k : a[j] = 0
    BY <1>0, <2>4, <2>5, <2>6
  <2> QED
    BY <2>4, <2>6, <2>7 DEF k, M
<1> QED
  BY <1>2, <1>3

(* A lower hash begins with as many zeros at least.                        *)
LEMMA LowerBeginsLater ==
  ASSUME NEW h \in Hashes, NEW t \in Hashes, IsLowerOrEqual(h, t)
  PROVE  FindFirstNonZeroByte(t) <= FindFirstNonZeroByte(h)
<1> DEFINE m == FindFirstNonZeroByte(h)
           k == FindFirstNonZeroByte(t)
           M == HashLength - Window
<1>0. M \in Nat /\ HashLength \in Nat /\ M < HashLength
  BY DigitsAre
<1>1. m \in 0..M /\ (m < M => h[m + 1] # 0)
  BY FirstIs
<1>2. k \in 0..M /\ \A j \in 1..k : t[j] = 0
  BY FirstIs
<1> HIDE DEF m, k, M
<1> SUFFICES ASSUME m < k PROVE FALSE
  BY <1>0, <1>1, <1>2 DEF m, k
<1>3. m + 1 \in 1..HashLength /\ m + 1 \in 1..k /\ m < M
  BY <1>0, <1>1, <1>2
<1>4. \A j \in 1..HashLength : h[j] \in 0..(Base - 1)
  BY DEF Hashes
<1>5. h[m + 1] > t[m + 1]
  BY <1>1, <1>2, <1>3, <1>4, DigitsAre
<1>6. PICK j \in 1..((m + 1) - 1) : h[j] < t[j]
  BY <1>3, <1>5 DEF IsLowerOrEqual
<1>7. j \in 1..k /\ j \in 1..HashLength
  BY <1>0, <1>1, <1>2, <1>3, <1>6
<1>8. t[j] = 0 /\ h[j] \in 0..(Base - 1)
  BY <1>2, <1>4, <1>7
<1> QED
  BY <1>6, <1>8, DigitsAre

(* Windows after the same zeros compare as the hashes do.                  *)
LEMMA WindowsCompare ==
  ASSUME NEW h \in Hashes, NEW t \in Hashes, IsLowerOrEqual(h, t),
         NEW k \in 0..(HashLength - Window), \A j \in 1..k : t[j] = 0
  PROVE  ReadWindow(h, k) <= ReadWindow(t, k)
<1>0. Window \in Nat /\ Window >= 1 /\ Base \in Nat /\ Base >= 2
  BY DigitsAre
<1>1. PICK f : Shown(f, h, k) /\ ReadWindow(h, k) = f[Window]
  BY WindowIs
<1>2. PICK g : Shown(g, t, k) /\ ReadWindow(t, k) = g[Window]
  BY WindowIs
<1>3. \A n \in 0..Window : f[n] \in Nat /\ g[n] \in Nat
  BY <1>1, <1>2 DEF Shown
<1> DEFINE Same(n) == f[n] = g[n] /\ \A j \in 1..n : h[k + j] = t[k + j]
           T == {n \in Nat : n <= Window => Same(n) \/ f[n] < g[n]}
<1>4. 0 \in T
  BY <1>1, <1>2 DEF Shown
<1>5. ASSUME NEW n \in Nat, n \in T PROVE n + 1 \in T
  <2> SUFFICES ASSUME n + 1 <= Window PROVE Same(n + 1) \/ f[n + 1] < g[n + 1]
    OBVIOUS
  <2> DEFINE x == h[k + (n + 1)]
             y == t[k + (n + 1)]
             u == f[n]
             v == g[n]
  <2>1. n + 1 \in 1..Window /\ (n + 1) - 1 = n /\ n \in 0..Window
    BY <1>0
  <2>2. x \in Nat /\ x < Base /\ y \in Nat /\ y < Base /\ k + (n + 1) \in 1..HashLength
    BY <2>1, DigitIs
  <2>3. f[n + 1] = u * Base + x /\ g[n + 1] = v * Base + y
    BY <1>1, <1>2, <2>1 DEF Shown
  <2>4. u \in Nat /\ v \in Nat /\ u * Base \in Nat /\ v * Base \in Nat
    BY <1>0, <1>3, <2>1, Products
  <2>5. Same(n) \/ u < v
    BY <1>5, <2>1
  <2>6. ASSUME u < v PROVE f[n + 1] < g[n + 1]
    <3> HIDE DEF x, y, u, v
    <3>1. Base * (u + 1) <= Base * v
      BY <1>0, <2>4, <2>6, Products
    <3>2. Base * (u + 1) = u * Base + Base /\ Base * v = v * Base
      BY <1>0, <2>4, Products
    <3> DEFINE p == u * Base
               q == v * Base
    <3>3. p + Base <= q
      BY <3>1, <3>2
    <3>4. p \in Nat /\ q \in Nat
      BY <2>4
    <3> HIDE DEF p, q
    <3>5. p + x < q + y
      BY <1>0, <2>2, <3>3, <3>4
    <3> QED
      BY <2>3, <3>5 DEF p, q
  <2>7. ASSUME Same(n) PROVE Same(n + 1) \/ f[n + 1] < g[n + 1]
    <3>1. ~ (x > y)
      <4> SUFFICES ASSUME x > y PROVE FALSE
        OBVIOUS
      <4>1. PICK j \in 1..((k + (n + 1)) - 1) : h[j] < t[j]
        BY <2>2 DEF IsLowerOrEqual
      <4>2. k \in Nat
        BY DigitsAre
      <4>3. CASE j <= k
        <5>1. t[j] = 0 /\ j \in 1..HashLength
          BY <4>1, <4>2, <4>3, DigitsAre
        <5>2. h[j] \in 0..(Base - 1)
          BY <5>1 DEF Hashes
        <5> QED
          BY <1>0, <4>1, <5>1, <5>2
      <4>4. CASE j > k
        <5>1. j - k \in 1..n /\ k + (j - k) = j
          BY <4>1, <4>2, <4>4
        <5>2. h[j] = t[j]
          BY <2>7, <5>1
        <5>3. j \in 1..HashLength
          BY <2>2, <4>1, <4>2, DigitsAre
        <5>4. h[j] \in 0..(Base - 1)
          BY <5>3 DEF Hashes
        <5> QED
          BY <1>0, <4>1, <5>2, <5>4
      <4> QED
        BY <4>1, <4>2, <4>3, <4>4
    <3>2. u = v
      BY <2>7
    <3>3. \A j \in 1..n : h[k + j] = t[k + j]
      BY <2>7
    <3>4. CASE x = y
      <4>1. f[n + 1] = g[n + 1]
        BY <2>3, <3>2, <3>4
      <4>2. \A j \in 1..(n + 1) : h[k + j] = t[k + j]
        <5> TAKE j \in 1..(n + 1)
        <5>1. j \in 1..n \/ j = n + 1
          OBVIOUS
        <5> QED
          BY <3>3, <3>4, <5>1
      <4> QED
        BY <4>1, <4>2
    <3>5. CASE x < y
      <4> DEFINE p == u * Base
                 q == v * Base
      <4>1. p = q /\ p \in Nat
        BY <2>4, <3>2
      <4> HIDE DEF p, q, x, y
      <4>2. p + x < q + y
        BY <2>2, <3>5, <4>1
      <4> QED
        BY <2>3, <4>2 DEF p, q
    <3> HIDE DEF Same, u, v
    <3> QED
      BY <2>2, <3>1, <3>4, <3>5
  <2> QED
    BY <2>5, <2>6, <2>7
<1> HIDE DEF T
<1>6. Nat \subseteq T
  BY <1>4, <1>5, Induction
<1>7. f[Window] <= g[Window]
  BY <1>0, <1>3, <1>6 DEF T
<1> QED
  BY <1>1, <1>2, <1>7

(* What the window of a lower hash is worth.                               *)
LEMMA LowerIsWorthLess ==
  ASSUME NEW h \in Hashes, NEW t \in Hashes, IsLowerOrEqual(h, t)
  PROVE  ReadWindow(h, FindFirstNonZeroByte(h))
           <= Weight(FindFirstNonZeroByte(h) - FindFirstNonZeroByte(t))
                * ReadWindow(t, FindFirstNonZeroByte(t))
<1> DEFINE m == FindFirstNonZeroByte(h)
           k == FindFirstNonZeroByte(t)
           a == ReadWindow(h, m)
           b == ReadWindow(t, k)
           w == Weight(m - k)
<1>0. Window \in Nat /\ Window >= 1 /\ Base \in Nat /\ HashLength \in Nat
  BY DigitsAre
<1>1. m \in 0..(HashLength - Window) /\ k \in 0..(HashLength - Window) /\ k <= m
  BY FirstIs, LowerBeginsLater
<1>2. (\A j \in 1..k : t[j] = 0) /\ (k < HashLength - Window => t[k + 1] # 0)
  BY FirstIs
<1>3. a \in Nat /\ a < Weight(Window) /\ b \in Nat
      /\ (t[k + 1] # 0 => b >= Weight(Window - 1))
  <2> HIDE DEF m, k
  <2> QED
    BY <1>1, WindowBounds
<1>4. CASE m = k
  <2>1. ReadWindow(h, k) <= b
    <3> HIDE DEF k
    <3> QED
      BY <1>1, <1>2, WindowsCompare
  <2>2. m - k = 0 /\ a = ReadWindow(h, k)
    BY <1>1, <1>4
  <2>3. w = 1
    BY <2>2, WeightSteps
  <2> HIDE DEF a, b, w
  <2>4. a <= w * b
    BY <1>3, <2>1, <2>2, <2>3
  <2> QED
    BY <2>4 DEF a, b, w, m, k
<1>5. CASE m # k
  <2>1. m - k \in Nat /\ m - k >= 1 /\ t[k + 1] # 0
    <3> HIDE DEF m, k
    <3> QED
      BY <1>0, <1>1, <1>2, <1>5
  <2>2. w \in Nat /\ w >= Base
    <3> DEFINE n == m - k
    <3> HIDE DEF n
    <3> QED
      BY <2>1, WeightPositive DEF n
  <2>3. Window - 1 \in Nat /\ (Window - 1) + 1 = Window
    BY <1>0
  <2> DEFINE u == Weight(Window - 1)
  <2>4. u \in Nat /\ Weight(Window) = Base * u
    BY <2>3, WeightSteps
  <2>5. u <= b
    BY <1>3, <2>1
  <2> HIDE DEF a, b, w, u, m, k
  <2>6. Base * u <= Base * b /\ b * Base <= b * w
    BY <1>0, <1>3, <2>2, <2>4, <2>5, Products
  <2>7. Base * b = b * Base /\ b * w = w * b /\ w * b \in Nat /\ Base * b \in Nat /\ Base * u \in Nat
    BY <1>0, <1>3, <2>2, <2>4, Products
  <2>8. a <= w * b
    BY <1>3, <2>4, <2>6, <2>7
  <2> QED
    BY <2>8 DEF a, b, w, m, k
<1> QED
  BY <1>4, <1>5

(***************************************************************************)
(* The difficulty of a hash, against that of the target it is not above.   *)
(***************************************************************************)
Places(i, k) == IF i < k THEN k - i ELSE 0

LEMMA QuotientIs ==
  ASSUME NEW x \in Hashes
  PROVE  LET i == FindFirstNonZeroByte(Diff1)
             k == FindFirstNonZeroByte(x)
         IN  Quotient(Diff1, x) =
               [num |-> ReadWindow(Diff1, i) * Weight(Places(i, k)),
                den |-> ReadWindow(x, k) * Weight(Places(k, i))]
BY DEF Quotient, Places

LEMMA PlacesMove ==
  ASSUME NEW i \in Nat, NEW k \in Nat, NEW m \in Nat, k <= m
  PROVE  /\ Places(i, k) \in Nat /\ Places(m, i) \in Nat
         /\ Places(i, m) \in Nat /\ Places(k, i) \in Nat
         /\ Places(i, m) + Places(k, i) = (Places(i, k) + Places(m, i)) + (m - k)
BY DEF Places

LEMMA WeightMoves ==
  ASSUME NEW i \in Nat, NEW k \in Nat, NEW m \in Nat, k <= m
  PROVE  Weight(Places(i, m)) * Weight(Places(k, i))
           = (Weight(Places(i, k)) * Weight(Places(m, i))) * Weight(m - k)
<1> DEFINE p == Places(i, k)
           q == Places(m, i)
           r == Places(i, m)
           s == Places(k, i)
           d == m - k
<1>1. p \in Nat /\ q \in Nat /\ r \in Nat /\ s \in Nat /\ d \in Nat /\ p + q \in Nat
      /\ r + s = (p + q) + d
  <2>1. p \in Nat /\ q \in Nat /\ r \in Nat /\ s \in Nat /\ r + s = (p + q) + d
    BY PlacesMove, Zenon
  <2>2. d \in Nat
    OBVIOUS
  <2> HIDE DEF p, q, r, s, d
  <2> QED
    BY <2>1, <2>2
<1> HIDE DEF p, q, r, s, d
<1>2. Weight(r + s) = Weight(r) * Weight(s)
  BY <1>1, WeightSum
<1>3. Weight(p + q) = Weight(p) * Weight(q)
  BY <1>1, WeightSum
<1>4. Weight((p + q) + d) = Weight(p + q) * Weight(d)
  BY <1>1, WeightSum
<1>5. Weight(r) * Weight(s) = (Weight(p) * Weight(q)) * Weight(d)
  BY <1>1, <1>2, <1>3, <1>4, Zenon
<1> QED
  BY <1>5 DEF p, q, r, s, d

LEMMA CrossProducts ==
  ASSUME NEW D \in Nat, NEW p \in Nat, NEW q \in Nat, NEW r \in Nat, NEW s \in Nat,
         NEW w \in Nat, NEW a \in Nat, NEW b \in Nat,
         r * s = (p * q) * w, a <= w * b
  PROVE  (D * p) * (a * q) <= (D * r) * (b * s)
<1> DEFINE x == p * q
           y == w * b
<1>1. x \in Nat /\ y \in Nat
  BY Products
<1>2. x * a <= x * y
  <2> HIDE DEF x, y
  <2> QED
    BY <1>1, Products DEF y
<1>3. x * y = (r * s) * b
  OBVIOUS
<1>4. x * a \in Nat /\ x * y \in Nat
  <2> HIDE DEF x, y
  <2> QED
    BY <1>1, Products
<1>5. D * (x * a) <= D * (x * y)
  <2> DEFINE u == x * a
             v == x * y
  <2> HIDE DEF x, y, u, v
  <2> QED
    BY <1>2, <1>4, Products DEF u, v
<1>6. (D * p) * (a * q) = D * (x * a)
  OBVIOUS
<1>7. (D * r) * (b * s) = D * ((r * s) * b)
  OBVIOUS
<1> HIDE DEF x, y
<1> QED
  BY <1>3, <1>5, <1>6, <1>7

LEMMA LowerIsHarder ==
  ASSUME NEW h \in Hashes, NEW t \in Hashes, IsLowerOrEqual(h, t)
  PROVE  /\ AtMost(Quotient(Diff1, t), Quotient(Diff1, h))
         /\ Quotient(Diff1, t).den = 0 => Quotient(Diff1, h).den = 0
<1> DEFINE i == FindFirstNonZeroByte(Diff1)
           m == FindFirstNonZeroByte(h)
           k == FindFirstNonZeroByte(t)
           D == ReadWindow(Diff1, i)
           a == ReadWindow(h, m)
           b == ReadWindow(t, k)
           p == Weight(Places(i, k))
           q == Weight(Places(m, i))
           r == Weight(Places(i, m))
           s == Weight(Places(k, i))
           w == Weight(m - k)
<1>0. Diff1 \in Hashes /\ HashLength \in Nat /\ Window \in Nat
  BY DigitsAre
<1>1. /\ i \in 0..(HashLength - Window) /\ m \in 0..(HashLength - Window)
      /\ k \in 0..(HashLength - Window) /\ k <= m
  BY <1>0, FirstIs, LowerBeginsLater
<1>2. i \in Nat /\ m \in Nat /\ k \in Nat
  <2> HIDE DEF i, m, k
  <2> QED
    BY <1>0, <1>1
<1>3. D \in Nat /\ a \in Nat /\ b \in Nat
  <2> HIDE DEF i, m, k
  <2> QED
    BY <1>0, <1>1, WindowBounds
<1>4. p \in Nat /\ q \in Nat /\ r \in Nat /\ s \in Nat /\ w \in Nat /\ s # 0
  <2> HIDE DEF i, m, k
  <2>1. /\ Places(i, k) \in Nat /\ Places(m, i) \in Nat
        /\ Places(i, m) \in Nat /\ Places(k, i) \in Nat /\ m - k \in Nat
    BY <1>1, <1>2 DEF Places
  <2>2. s >= 1
    BY <2>1, WeightPositive
  <2> QED
    BY <2>1, <2>2, WeightSteps
<1>5. r * s = (p * q) * w
  <2> HIDE DEF i, m, k
  <2> QED
    BY <1>1, <1>2, WeightMoves, Zenon
<1>6. a <= w * b
  BY LowerIsWorthLess, Zenon
<1>7. Quotient(Diff1, t) = [num |-> D * p, den |-> b * s]
  BY QuotientIs
<1>8. Quotient(Diff1, h) = [num |-> D * r, den |-> a * q]
  BY QuotientIs
<1> HIDE DEF i, m, k, D, a, b, p, q, r, s, w
<1>9. (D * p) * (a * q) <= (D * r) * (b * s)
  BY <1>3, <1>4, <1>5, <1>6, CrossProducts, Zenon
<1>10. b * s = 0 => a * q = 0
  <2>1. b * s = 0 => b = 0
    BY <1>3, <1>4
  <2>2. b = 0 => a = 0
    BY <1>3, <1>4, <1>6
  <2> QED
    BY <1>3, <1>4, <2>1, <2>2
<1> QED
  BY <1>7, <1>8, <1>9, <1>10 DEF AtMost

LEMMA FractionsCompare ==
  ASSUME NEW a \in Nat, NEW b \in Nat, NEW c \in Nat, NEW d \in Nat \ {0},
         NEW e \in Nat, NEW f \in Nat, a * d <= c * b, c * f <= e * d
  PROVE  a * f <= e * b
<1>1. (a * d) * f <= (c * b) * f
  <2> DEFINE u == a * d
             v == c * b
  <2>1. u \in Nat /\ v \in Nat
    BY Products
  <2> HIDE DEF u, v
  <2>2. f * u <= f * v /\ f * u = u * f /\ f * v = v * f
    BY <2>1, Products DEF u, v
  <2> QED
    BY <2>2 DEF u, v
<1>2. (c * f) * b <= (e * d) * b
  <2> DEFINE u == c * f
             v == e * d
  <2>1. u \in Nat /\ v \in Nat
    BY Products
  <2> HIDE DEF u, v
  <2>2. b * u <= b * v /\ b * u = u * b /\ b * v = v * b
    BY <2>1, Products DEF u, v
  <2> QED
    BY <2>2 DEF u, v
<1>3. (c * b) * f = (c * f) * b
  OBVIOUS
<1>4. (a * d) * f = d * (a * f) /\ (e * d) * b = d * (e * b)
  OBVIOUS
<1> DEFINE x == a * f
           y == e * b
<1>5. x \in Nat /\ y \in Nat /\ d * x \in Nat /\ d * y \in Nat /\ (c * f) * b \in Nat
  <2>1. x \in Nat /\ y \in Nat /\ c * f \in Nat
    BY Products
  <2> HIDE DEF x, y
  <2> QED
    BY <2>1, Products
<1>6. d * x <= d * y
  <2> DEFINE z == (c * f) * b
  <2>1. d * x <= z /\ z <= d * y
    BY <1>1, <1>2, <1>3, <1>4
  <2> HIDE DEF x, y, z
  <2> QED
    BY <1>5, <2>1 DEF z
<1> HIDE DEF x, y
<1>7. x <= y
  BY <1>5, <1>6, Products
<1> QED
  BY <1>7 DEF x, y

(***************************************************************************)
(* For every target and every difficulty that a client's shares suggest,   *)
(* however the digits are grouped: a hash that is not above the target is  *)
(* never refused as one of low difficulty.                                 *)
(***************************************************************************)
Fractions == [num : Nat, den : Nat]

LEMMA QuotientFraction ==
  ASSUME NEW x \in Hashes
  PROVE  Quotient(Diff1, x) \in Fractions
<1> DEFINE i == FindFirstNonZeroByte(Diff1)
           k == FindFirstNonZeroByte(x)
           p == Places(i, k)
           q == Places(k, i)
<1>0. Diff1 \in Hashes /\ HashLength \in Nat /\ Window \in Nat
  BY DigitsAre
<1>1. i \in 0..(HashLength - Window) /\ k \in 0..(HashLength - Window)
  BY <1>0, FirstIs
<1>2. ReadWindow(Diff1, i) \in Nat /\ ReadWindow(x, k) \in Nat
  <2> HIDE DEF i, k
  <2> QED
    BY <1>0, <1>1, WindowBounds
<1>3. p \in Nat /\ q \in Nat
  <2> HIDE DEF i, k
  <2> QED
    BY <1>0, <1>1 DEF Places
<1>4. Weight(p) \in Nat /\ Weight(q) \in Nat
  <2> HIDE DEF p, q
  <2> QED
    BY <1>3, WeightSteps
<1>5. Quotient(Diff1, x) = [num |-> ReadWindow(Diff1, i) * Weight(p),
                            den |-> ReadWindow(x, k) * Weight(q)]
  BY QuotientIs
<1> HIDE DEF i, k, p, q
<1>6. ReadWindow(Diff1, i) * Weight(p) \in Nat /\ ReadWindow(x, k) * Weight(q) \in Nat
  BY <1>2, <1>4, Products
<1> QED
  BY <1>5, <1>6 DEF Fractions

THEOREM SolutionsAreNeverRefused ==
  \A target \in Hashes, diff \in Fractions : SolutionAccepted(target, diff)
<1> SUFFICES ASSUME NEW target \in Hashes, NEW diff \in Fractions,
                    NEW hash \in Hashes, IsLowerOrEqual(hash, target)
             PROVE  AtMost(CappedDiff(diff, target), Quotient(Diff1, hash))
  BY DEF SolutionAccepted, IsLowDiff, Hashes
<1> DEFINE M == MiningDiff(target)
           Q == Quotient(Diff1, hash)
<1>1. M \in Fractions /\ Q \in Fractions
  BY QuotientFraction DEF MiningDiff
<1>2. AtMost(M, Q)
  BY LowerIsHarder DEF MiningDiff
<1>3. M.den = 0 => Q.den = 0
  BY LowerIsHarder DEF MiningDiff
<1> HIDE DEF M, Q
<1>4. /\ M.num \in Nat /\ M.den \in Nat /\ Q.num \in Nat /\ Q.den \in Nat
      /\ diff.num \in Nat /\ diff.den \in Nat
      /\ M.num * Q.den <= Q.num * M.den
  BY <1>1, <1>2 DEF Fractions, AtMost
<1>5. CASE AtMost(diff, M)
  <2>1. CappedDiff(diff, target) = diff
    BY <1>5 DEF CappedDiff, M
  <2>2. diff.num * M.den <= M.num * diff.den
    BY <1>5 DEF AtMost
  <2>3. CASE M.den = 0
    <3>1. Q.den = 0
      BY <1>3, <2>3
    <3>2. diff.num * 0 <= Q.num * diff.den
      BY <1>4, Products
    <3> QED
      BY <2>1, <3>1, <3>2 DEF AtMost, Q
  <2>4. CASE M.den # 0
    <3>1. diff.num * Q.den <= Q.num * diff.den
      BY <1>4, <2>2, <2>4, FractionsCompare
    <3> QED
      BY <2>1, <3>1 DEF AtMost, Q
  <2> QED
    BY <2>3, <2>4
<1>6. CASE ~ AtMost(diff, M)
  <2>1. CappedDiff(diff, target) = [num |-> M.num, den |-> 4 * M.den]
    BY <1>6 DEF CappedDiff, M
  <2>2. M.num * Q.den <= Q.num * (4 * M.den)
    <3> DEFINE x == Q.num * M.den
    <3>1. Q.num * (4 * M.den) = 4 * x /\ x \in Nat
      BY <1>4
    <3>2. M.num * Q.den <= x /\ M.num * Q.den \in Nat
      BY <1>4
    <3> HIDE DEF x
    <3> QED
      BY <3>1, <3>2
  <2> QED
    BY <2>1, <2>2 DEF AtMost, Q
<1> QED
  BY <1>5, <1>6

(***************************************************************************)
(* The run's targets and shares are such.                                  *)
(***************************************************************************)
LEMMA TargetInputs ==
  ASSUME NEW s \in Inputs, s.of = "target"
  PROVE  s.target \in Hashes /\ s.share \in Nat
BY SMT DEF Inputs, Hashes

THEOREM SolutionsAreAccepted == Spec => []SolutionsAccepted
<1>1. SubjectStays => SolutionsAccepted
  <2> SUFFICES ASSUME subject \in Inputs, subject.of = "target"
               PROVE  SolutionsAccepted
    BY DEF SubjectStays, SolutionsAccepted
  <2> DEFINE M == MiningDiff(subject.target)
             diff == [num |-> M.num * subject.share, den |-> M.den * 4]
  <2>1. subject.target \in Hashes /\ subject.share \in Nat
    BY TargetInputs
  <2>2. M \in Fractions
    BY <2>1, QuotientFraction DEF MiningDiff
  <2>3. diff \in Fractions
    <3> HIDE DEF M
    <3>1. M.num * subject.share \in Nat /\ M.den * 4 \in Nat
      BY <2>1, <2>2 DEF Fractions
    <3> QED
      BY <3>1 DEF Fractions
  <2>4. SolutionAccepted(subject.target, diff)
    <3> HIDE DEF diff
    <3> QED
      BY <2>1, <2>3, SolutionsAreNeverRefused
  <2> QED
    BY <2>4 DEF SolutionsAccepted
<1> QED
  BY <1>1, SubjectIs, PTL

-----------------------------------------------------------------------------
(***************************************************************************)
(* The command line: what process() keeps while it reads the arguments.    *)
(***************************************************************************)
(* The texts: strings.  (The provers do not know that a literal is one.)    *)
Texts ==
  STRING \cup {"port", "hostname", "relay", "debug", "help", "other", "p", "h", "D", "x",
               "42nd", "1", "huge", "no"}

Arguments ==
  [kind : {"long"}, name : Texts]
    \cup [kind : {"short"}, letters : Seq(Texts)]
    \cup [kind : {"plain"}, text : Texts]

ValueTypes == {"string", "int", "bool", "flag"}

StoredValues ==
  {NotSet, TRUE}
    \cup UNION {{Stored(type, text).value : text \in Texts} : type \in ValueTypes}

States ==
  [current : Parameters \cup {0},
   outcome : {"running", "help", "error", "abort"},
   values  : [Parameters -> StoredValues]]

LEMMA ParametersAre ==
  /\ Len(Template) \in Nat /\ Parameters = 1..Len(Template) /\ 0 \notin Parameters
  /\ \A p \in Parameters : Template[p].type \in ValueTypes
<1> DEFINE W == [name : STRING, abbreviation : STRING, required : BOOLEAN,
                 type : ValueTypes, width : Nat]
<1>1. Template \in Seq(W)
  BY TemplateAssumption DEF ValueTypes
<1>2. \A w \in W : w.type \in ValueTypes
  OBVIOUS
<1> HIDE DEF W
<1>3. Len(Template) \in Nat /\ DOMAIN Template = 1..Len(Template)
      /\ \A p \in DOMAIN Template : Template[p] \in W
  BY <1>1, LenProperties
<1>4. 0 \notin 1..Len(Template)
  BY <1>3
<1> QED
  BY <1>2, <1>3, <1>4 DEF Parameters

(* The first parameter of a set.                                           *)
LEMMA FirstOfParameters ==
  ASSUME NEW found \in SUBSET Parameters
  PROVE  (IF found = {} THEN 0 ELSE CHOOSE p \in found : \A q \in found : p <= q)
           \in Parameters \cup {0}
<1>1. CASE found = {}
  BY <1>1
<1>2. CASE found # {}
  <2>1. found \in SUBSET Nat
    BY ParametersAre
  <2>2. \E p \in found : \A q \in found : p <= q
    BY <1>2, <2>1, LeastNumber
  <2>3. (CHOOSE p \in found : \A q \in found : p <= q) \in found
    BY <2>2
  <2> QED
    BY <1>2, <2>3
<1> QED
  BY <1>1, <1>2

LEMMA NamedIs == \A name : Named(name) \in Parameters \cup {0}
<1> SUFFICES ASSUME NEW name PROVE Named(name) \in Parameters \cup {0}
  OBVIOUS
<1> DEFINE found == {p \in Parameters : Template[p].name = name}
<1>1. found \in SUBSET Parameters
  OBVIOUS
<1>2. Named(name) = IF found = {} THEN 0
                    ELSE CHOOSE p \in found : \A q \in found : p <= q
  BY DEF Named
<1> HIDE DEF found
<1> QED
  BY <1>1, <1>2, FirstOfParameters

LEMMA AbbreviatedIs == \A letter : Abbreviated(letter) \in Parameters \cup {0}
<1> SUFFICES ASSUME NEW letter PROVE Abbreviated(letter) \in Parameters \cup {0}
  OBVIOUS
<1> DEFINE found == {p \in Parameters : Template[p].abbreviation = letter}
<1>1. found \in SUBSET Parameters
  OBVIOUS
<1>2. Abbreviated(letter) = IF found = {} THEN 0
                            ELSE CHOOSE p \in found : \A q \in found : p <= q
  BY DEF Abbreviated
<1> HIDE DEF found
<1> QED
  BY <1>1, <1>2, FirstOfParameters

LEMMA StoredIs ==
  /\ \A type \in ValueTypes, text \in Texts :
       /\ Stored(type, text).ok \in BOOLEAN
       /\ Stored(type, text).value \in StoredValues
       /\ ~ Stored(type, text).ok => Stored(type, text).value \in {"error", "abort"}
  /\ \A text : Stored("flag", text) = [ok |-> TRUE, value |-> TRUE]
<1>1. ASSUME NEW type \in ValueTypes, NEW text \in Texts
      PROVE  /\ Stored(type, text).ok \in BOOLEAN
             /\ ~ Stored(type, text).ok => Stored(type, text).value \in {"error", "abort"}
  BY DEF Stored, ValueTypes
<1>2. ASSUME NEW type \in ValueTypes, NEW text \in Texts
      PROVE  Stored(type, text).value \in StoredValues
  <2> DEFINE V == {Stored(type, t).value : t \in Texts}
  <2>1. Stored(type, text).value \in V
    OBVIOUS
  <2>2. V \in {{Stored(u, t).value : t \in Texts} : u \in ValueTypes}
    OBVIOUS
  <2> HIDE DEF V
  <2> QED
    BY <2>1, <2>2 DEF StoredValues
<1>3. ASSUME NEW text PROVE Stored("flag", text) = [ok |-> TRUE, value |-> TRUE]
  BY DEF Stored
<1> QED
  BY <1>1, <1>2, <1>3

(* One argument of a parameter is stored, or the parser has ended.         *)
LEMMA SetArgumentIs ==
  ASSUME NEW s \in States, s.outcome = "running", s.current # 0,
         NEW text, text \in Texts \/ ~ RequiresArgument(s.current)
  PROVE  /\ SetArgument(s, text) \in States
         /\ SetArgument(s, text).outcome = "running" =>
              /\ SetArgument(s, text).current = 0
              /\ SetArgument(s, text).values =
                   [s.values EXCEPT ![s.current] =
                      Stored(Template[s.current].type, text).value]
<1> DEFINE c == s.current
           stored == Stored(Template[c].type, text)
<1>1. c \in Parameters /\ s.values \in [Parameters -> StoredValues]
  BY DEF States
<1>2. Template[c].type \in ValueTypes
  BY <1>1, ParametersAre
<1>3. stored.value \in StoredValues /\ (~ stored.ok => stored.value \in {"error", "abort"})
      /\ stored.ok \in BOOLEAN
  <2>1. CASE text \in Texts
    <3> HIDE DEF c
    <3> QED
      BY <1>2, <2>1, StoredIs
  <2>2. CASE ~ RequiresArgument(c)
    <3>1. stored = [ok |-> TRUE, value |-> TRUE]
      BY <2>2, StoredIs DEF RequiresArgument
    <3> QED
      BY <3>1 DEF StoredValues
  <2> QED
    BY <2>1, <2>2
<1> HIDE DEF stored, c
<1>4. CASE stored.ok
  <2>1. SetArgument(s, text) = [s EXCEPT !.values[c] = stored.value, !.current = 0]
    BY <1>4 DEF SetArgument, stored, c
  <2>2. SetArgument(s, text) \in States
    BY <1>1, <1>3, <2>1 DEF States
  <2>3. SetArgument(s, text).current = 0
        /\ SetArgument(s, text).values = [s.values EXCEPT ![c] = stored.value]
    BY <2>1 DEF States
  <2> QED
    BY <2>2, <2>3 DEF stored, c
<1>5. CASE ~ stored.ok
  <2>1. SetArgument(s, text) = [s EXCEPT !.outcome = stored.value]
    BY <1>5 DEF SetArgument, Ended, stored, c
  <2>2. SetArgument(s, text) \in States /\ SetArgument(s, text).outcome # "running"
    BY <1>3, <1>5, <2>1 DEF States
  <2> QED
    BY <2>2
<1> QED
  BY <1>3, <1>4, <1>5

(* A parameter that is followed by none must be a flag.                    *)
LEMMA FlagIsSet ==
  ASSUME NEW s \in States, s.outcome = "running", s.current # 0
  PROVE  /\ SetEmptyParameterArgument(s) \in States
         /\ SetEmptyParameterArgument(s).outcome = "running" =>
              /\ ~ RequiresArgument(s.current)
              /\ SetEmptyParameterArgument(s).current = 0
              /\ SetEmptyParameterArgument(s).values = [s.values EXCEPT ![s.current] = TRUE]
<1> DEFINE nothing == ""
<1>1. SetEmptyParameterArgument(s) = IF RequiresArgument(s.current)
                                     THEN Ended(s, "error") ELSE SetArgument(s, nothing)
  BY Zenon DEF SetEmptyParameterArgument
<1> HIDE DEF nothing
<1>2. CASE RequiresArgument(s.current)
  <2>1. SetEmptyParameterArgument(s) = [s EXCEPT !.outcome = "error"]
    BY <1>1, <1>2 DEF Ended
  <2> QED
    BY <2>1 DEF States
<1>3. CASE ~ RequiresArgument(s.current)
  <2>1. SetEmptyParameterArgument(s) = SetArgument(s, nothing)
    BY <1>1, <1>3
  <2>2. Stored(Template[s.current].type, nothing).value = TRUE
    BY <1>3, StoredIs DEF RequiresArgument
  <2>3. /\ SetArgument(s, nothing) \in States
        /\ SetArgument(s, nothing).outcome = "running" =>
              /\ SetArgument(s, nothing).current = 0
              /\ SetArgument(s, nothing).values =
                   [s.values EXCEPT ![s.current] =
                      Stored(Template[s.current].type, nothing).value]
    BY <1>3, SetArgumentIs, Zenon
  <2> QED
    BY <1>3, <2>1, <2>2, <2>3
<1> QED
  BY <1>2, <1>3

(***************************************************************************)
(* A letter, and letters one after another.                                *)
(***************************************************************************)
AfterLetter(s, r, letter) ==
  /\ s.outcome = "running"
  /\ s.current # 0 => ~ RequiresArgument(s.current)
  /\ r.current = Abbreviated(letter) /\ r.current \in Parameters
  /\ r.values = [p \in Parameters |-> IF p = s.current THEN TRUE ELSE s.values[p]]

LEMMA LetterIs ==
  ASSUME NEW s \in States, NEW letter
  PROVE  /\ Letter(s, letter) \in States
         /\ Letter(s, letter).outcome = "running" => AfterLetter(s, Letter(s, letter), letter)
<1> DEFINE c == Abbreviated(letter)
           r == Letter(s, letter)
           flushed == IF s.outcome = "running" /\ s.current # 0
                      THEN SetEmptyParameterArgument(s) ELSE s
<1>1. c \in Parameters \cup {0}
  BY AbbreviatedIs
<1>2. r = IF flushed.outcome # "running" THEN flushed
          ELSE IF c = 0 THEN Ended(flushed, "error")
          ELSE [flushed EXCEPT !.current = c]
  BY DEF Letter
<1>3. flushed \in States
  BY FlagIsSet
<1>4. flushed.outcome = "running" =>
        /\ s.outcome = "running"
        /\ s.current # 0 => ~ RequiresArgument(s.current)
        /\ flushed.values = [p \in Parameters |-> IF p = s.current THEN TRUE ELSE s.values[p]]
  <2>1. s.values = [p \in Parameters |-> s.values[p]]
    BY DEF States
  <2>2. CASE s.outcome = "running" /\ s.current # 0
    <3>1. flushed = SetEmptyParameterArgument(s)
      BY <2>2
    <3>2. flushed.outcome = "running" =>
            /\ ~ RequiresArgument(s.current)
            /\ flushed.values = [s.values EXCEPT ![s.current] = TRUE]
      BY <2>2, <3>1, FlagIsSet
    <3>3. [s.values EXCEPT ![s.current] = TRUE]
            = [p \in Parameters |-> IF p = s.current THEN TRUE ELSE s.values[p]]
      BY <2>1
    <3> HIDE DEF flushed
    <3> QED
      BY <2>2, <3>2, <3>3, Zenon
  <2>3. CASE s.outcome = "running" /\ s.current = 0
    <3>1. flushed = s
      BY <2>3
    <3>2. s.values = [p \in Parameters |-> IF p = s.current THEN TRUE ELSE s.values[p]]
      BY <2>1, <2>3, ParametersAre
    <3> HIDE DEF flushed
    <3> QED
      BY <2>3, <3>1, <3>2
  <2>4. CASE s.outcome # "running"
    BY <2>4
  <2> QED
    BY <2>2, <2>3, <2>4
<1> HIDE DEF c, r, flushed
<1>5. CASE flushed.outcome # "running"
  <2>1. r = flushed
    BY <1>2, <1>5
  <2> QED
    BY <1>3, <1>5, <2>1 DEF r
<1>6. CASE flushed.outcome = "running" /\ c = 0
  <2>1. r = [flushed EXCEPT !.outcome = "error"]
    BY <1>2, <1>6 DEF Ended
  <2>2. r \in States /\ r.outcome # "running"
    BY <1>3, <2>1 DEF States
  <2> QED
    BY <2>2 DEF r
<1>7. CASE flushed.outcome = "running" /\ c # 0
  <2>1. r = [flushed EXCEPT !.current = c]
    BY <1>2, <1>7
  <2>2. r \in States /\ r.current = c /\ r.values = flushed.values
    BY <1>1, <1>3, <2>1 DEF States
  <2> QED
    BY <1>1, <1>4, <1>7, <2>2 DEF AfterLetter, r, c
<1> QED
  BY <1>5, <1>6, <1>7

LettersRead(w, s, letters) ==
  /\ w \in [0..Len(letters) -> States]
  /\ w[0] = s
  /\ \A k \in 1..Len(letters) : w[k] = Letter(w[k - 1], letters[k])

LEMMA LettersAre ==
  ASSUME NEW s \in States, NEW letters \in Seq(Texts)
  PROVE  \E w : LettersRead(w, s, letters) /\ Letters(s, letters) = w[Len(letters)]
<1> DEFINE N == Len(letters)
           next == [k \in 1..N |-> [v \in States |-> Letter(v, letters[k])]]
<1>0. N \in Nat
  BY LenProperties
<1> HIDE DEF N
<1>1. next \in [1..N -> [States -> States]]
  BY LetterIs
<1>2. PICK g : Iterates(g, States, s, N, next)
  <2> HIDE DEF next
  <2> QED
    BY <1>0, <1>1, Recursion
<1>3. ASSUME NEW k \in 1..N PROVE g[k] = Letter(g[k - 1], letters[k])
  <2>1. next[k] = [v \in States |-> Letter(v, letters[k])]
    OBVIOUS
  <2> HIDE DEF next
  <2>2. g[k - 1] \in States /\ g[k] = next[k][g[k - 1]]
    BY <1>0, <1>2 DEF Iterates
  <2> QED
    BY <2>1, <2>2
<1> DEFINE Rec(h) == [k \in 0..N |-> IF k = 0 THEN s ELSE Letter(h[k - 1], letters[k])]
           f == CHOOSE h : h = Rec(h)
<1>4. g = Rec(g)
  BY <1>0, <1>2, <1>3 DEF Iterates
<1>5. f = Rec(f)
  <2> HIDE DEF Rec
  <2> QED
    BY <1>4
<1>6. Letters(s, letters) = f[N]
  BY DEF Letters, N
<1> HIDE DEF f
<1>7. f[0] = s /\ \A k \in 1..N : f[k] = Letter(f[k - 1], letters[k])
  BY <1>0, <1>5
<1> DEFINE T == {k \in Nat : k <= N => f[k] \in States}
<1>8. Nat \subseteq T
  <2>1. 0 \in T
    BY <1>7
  <2>2. ASSUME NEW k \in Nat, k \in T PROVE k + 1 \in T
    <3> SUFFICES ASSUME k + 1 <= N PROVE f[k + 1] \in States
      OBVIOUS
    <3>1. k + 1 \in 1..N /\ (k + 1) - 1 = k /\ f[k] \in States
      BY <1>0, <2>2
    <3>2. f[k + 1] = Letter(f[k], letters[k + 1])
      BY <1>7, <3>1
    <3> QED
      BY <3>1, <3>2, LetterIs
  <2> HIDE DEF T
  <2> QED
    BY <2>1, <2>2, Induction
<1>9. f \in [0..N -> States]
  <2>1. \A k \in 0..N : f[k] \in States
    BY <1>0, <1>8
  <2> QED
    BY <1>5, <2>1
<1> QED
  BY <1>6, <1>7, <1>9 DEF LettersRead, N

(* What m letters have done to the state s.                                *)
Sets(s, letters, m, p) ==
  p = s.current \/ \E k \in 1..(m - 1) : Abbreviated(letters[k]) = p

AfterLetters(s, r, letters, m) ==
  /\ s.outcome = "running"
  /\ s.current # 0 => ~ RequiresArgument(s.current)
  /\ r.current = Abbreviated(letters[m]) /\ r.current \in Parameters
  /\ \A k \in 1..(m - 1) : ~ RequiresArgument(Abbreviated(letters[k]))
  /\ \A p \in Parameters :
       r.values[p] = IF Sets(s, letters, m, p) THEN TRUE ELSE s.values[p]

LEMMA LettersSet ==
  ASSUME NEW s \in States, NEW letters \in Seq(Texts), letters # <<>>
  PROVE  /\ Letters(s, letters) \in States
         /\ Letters(s, letters).outcome = "running"
              => AfterLetters(s, Letters(s, letters), letters, Len(letters))
<1> DEFINE N == Len(letters)
<1>0. N \in Nat /\ N >= 1
  BY EmptySeq, LenProperties
<1>1. PICK w : LettersRead(w, s, letters) /\ Letters(s, letters) = w[N]
  BY LettersAre
<1>2. /\ w[0] = s /\ \A k \in 0..N : w[k] \in States
      /\ \A k \in 1..N : w[k] = Letter(w[k - 1], letters[k])
  BY <1>1 DEF LettersRead
<1> HIDE DEF N
<1> DEFINE Fine(m) == w[m].outcome = "running" => AfterLetters(s, w[m], letters, m)
           T == {m \in Nat : m + 1 <= N => Fine(m + 1)}
<1>3. 0 \in T
  <2>1. 1 \in 1..N /\ 1 - 1 = 0 /\ 0 + 1 = 1
    BY <1>0
  <2>2. w[1] = Letter(s, letters[1])
    BY <1>2, <2>1
  <2>3. w[1].outcome = "running" => AfterLetter(s, w[1], letters[1])
    BY <2>2, LetterIs
  <2>4. AfterLetter(s, w[1], letters[1]) => AfterLetters(s, w[1], letters, 1)
    BY DEF AfterLetter, AfterLetters, Sets
  <2> QED
    BY <2>1, <2>3, <2>4
<1>4. ASSUME NEW n \in Nat, n \in T PROVE n + 1 \in T
  <2> DEFINE m == n + 1
  <2> SUFFICES ASSUME m + 1 <= N, w[m + 1].outcome = "running"
               PROVE  AfterLetters(s, w[m + 1], letters, m + 1)
    OBVIOUS
  <2>0. m \in Nat /\ m >= 1 /\ m <= N
    BY <1>0
  <2>1. Fine(m)
    BY <1>4, <2>0
  <2> HIDE DEF m
  <2>2. m + 1 \in 1..N /\ (m + 1) - 1 = m /\ m \in 0..N
    BY <1>0, <2>0
  <2>3. w[m + 1] = Letter(w[m], letters[m + 1]) /\ w[m] \in States
    BY <1>2, <2>2
  <2>4. AfterLetter(w[m], w[m + 1], letters[m + 1])
    BY <2>3, LetterIs
  <2>5. AfterLetters(s, w[m], letters, m)
    BY <2>1, <2>4 DEF AfterLetter
  <2>6. w[m].current = Abbreviated(letters[m]) /\ w[m].current \in Parameters
        /\ ~ RequiresArgument(Abbreviated(letters[m]))
    BY <2>4, <2>5, ParametersAre DEF AfterLetter, AfterLetters
  <2>7. \A k \in 1..m : k \in 1..(m - 1) \/ k = m
    BY <2>0
  <2>8. \A k \in 1..m : ~ RequiresArgument(Abbreviated(letters[k]))
    BY <2>5, <2>6, <2>7 DEF AfterLetters
  <2>9. ASSUME NEW p \in Parameters
        PROVE  w[m + 1].values[p]
                 = IF Sets(s, letters, m + 1, p) THEN TRUE ELSE s.values[p]
    <3>1. w[m + 1].values[p] = IF p = w[m].current THEN TRUE ELSE w[m].values[p]
      BY <2>4 DEF AfterLetter
    <3>2. w[m].values[p] = IF Sets(s, letters, m, p) THEN TRUE ELSE s.values[p]
      BY <2>5 DEF AfterLetters
    <3>3. 1..(m - 1) \subseteq 1..m /\ m \in 1..m
      BY <2>0
    <3>4. Sets(s, letters, m + 1, p) <=> (Sets(s, letters, m, p) \/ p = Abbreviated(letters[m]))
      BY <2>2, <2>7, <3>3 DEF Sets
    <3> QED
      BY <2>6, <3>1, <3>2, <3>4
  <2> QED
    BY <2>2, <2>4, <2>5, <2>8, <2>9 DEF AfterLetters, AfterLetter
<1> HIDE DEF T
<1>5. Nat \subseteq T
  BY <1>3, <1>4, Induction
<1>6. N - 1 \in Nat /\ (N - 1) + 1 = N /\ N \in 0..N
  BY <1>0
<1>7. Fine(N)
  <2> DEFINE n == N - 1
  <2>1. n \in T /\ n + 1 = N
    BY <1>5, <1>6
  <2> HIDE DEF n, Fine
  <2>2. Fine(n + 1)
    BY <1>0, <2>1 DEF T
  <2> QED
    BY <2>1, <2>2
<1> QED
  BY <1>1, <1>2, <1>6, <1>7 DEF N

(***************************************************************************)
(* An argument.                                                            *)
(***************************************************************************)
IsNothing(arg) == arg.kind = "short" /\ arg.letters = <<>>

AfterArgument(s, r, arg) ==
  /\ s.outcome = "running"
  /\ IsNothing(arg) => r = s
  /\ arg.kind = "long" => /\ r.current = Named(arg.name) /\ r.current \in Parameters
                          /\ r.values = s.values
  /\ arg.kind = "short" /\ arg.letters # <<>>
       => AfterLetters(s, r, arg.letters, Len(arg.letters))
  /\ arg.kind = "plain" =>
       /\ s.current \in Parameters /\ RequiresArgument(s.current) /\ r.current = 0
       /\ r.values = [s.values EXCEPT ![s.current] =
                        Stored(Template[s.current].type, arg.text).value]

LEMMA ArgumentKinds ==
  ASSUME NEW arg \in Arguments
  PROVE  /\ arg.kind \in {"long", "short", "plain"}
         /\ arg.kind = "long" => arg.name \in Texts
         /\ arg.kind = "short" => arg.letters \in Seq(Texts)
         /\ arg.kind = "plain" => arg.text \in Texts
BY DEF Arguments

LEMMA ArgumentIs ==
  ASSUME NEW s \in States, NEW arg \in Arguments
  PROVE  /\ Argument(s, arg) \in States
         /\ Argument(s, arg).outcome = "running" => AfterArgument(s, Argument(s, arg), arg)
<1> DEFINE r == Argument(s, arg)
<1>1. /\ s.current \in Parameters \cup {0} /\ s.values \in [Parameters -> StoredValues]
      /\ s = [current |-> s.current, outcome |-> s.outcome, values |-> s.values]
      /\ s.outcome \in {"running", "help", "error", "abort"}
  BY DEF States
<1>2. CASE s.outcome # "running"
  <2>1. r = s
    BY <1>2 DEF Argument
  <2> QED
    BY <1>2, <2>1
<1>3. CASE s.outcome = "running" /\ arg.kind = "long"
  <2>1. r = Long(s, arg.name)
    BY <1>3 DEF Argument
  <2>2. Named(arg.name) \in Parameters \cup {0}
    BY NamedIs
  <2>3. CASE arg.name = "help" \/ Named(arg.name) = 0
    <3>1. r = [s EXCEPT !.outcome = "help"] \/ r = [s EXCEPT !.outcome = "error"]
      BY <2>1, <2>3 DEF Long, Ended
    <3>2. r \in States /\ r.outcome # "running"
      <4> HIDE DEF r
      <4> QED
        BY <3>1 DEF States
    <3> QED
      BY <3>2
  <2>4. CASE arg.name # "help" /\ Named(arg.name) # 0
    <3>1. r = [s EXCEPT !.current = Named(arg.name)]
      BY <2>1, <2>4 DEF Long
    <3> HIDE DEF r
    <3>2. r \in States /\ r.current = Named(arg.name) /\ r.values = s.values
      BY <2>2, <3>1 DEF States
    <3>3. AfterArgument(s, r, arg)
      BY <1>3, <2>2, <2>4, <3>2 DEF AfterArgument, IsNothing
    <3> QED
      BY <3>2, <3>3 DEF r
  <2> QED
    BY <2>3, <2>4
<1>4. CASE s.outcome = "running" /\ arg.kind = "short"
  <2>1. r = Letters(s, arg.letters)
    BY <1>4 DEF Argument
  <2>2. arg.letters \in Seq(Texts)
    BY <1>4, ArgumentKinds
  <2>3. CASE arg.letters = <<>>
    <3>1. PICK w : LettersRead(w, s, arg.letters) /\ r = w[Len(arg.letters)]
      BY <2>1, <2>2, LettersAre
    <3>2. Len(arg.letters) = 0
      BY <2>3, EmptySeq
    <3> HIDE DEF r
    <3>3. r = s
      BY <3>1, <3>2 DEF LettersRead
    <3>4. AfterArgument(s, r, arg)
      BY <1>4, <2>3, <3>3 DEF AfterArgument, IsNothing
    <3> QED
      BY <3>3, <3>4 DEF r
  <2>4. CASE arg.letters # <<>>
    <3>1. r \in States /\ (r.outcome = "running"
                             => AfterLetters(s, r, arg.letters, Len(arg.letters)))
      BY <2>1, <2>2, <2>4, LettersSet
    <3> HIDE DEF r
    <3>2. r.outcome = "running" => AfterArgument(s, r, arg)
      BY <1>4, <2>4, <3>1 DEF AfterArgument, IsNothing
    <3> QED
      BY <3>1, <3>2 DEF r
  <2> QED
    BY <2>3, <2>4
<1>5. CASE s.outcome = "running" /\ arg.kind = "plain"
  <2>1. r = IF s.current = 0 \/ ~ RequiresArgument(s.current)
            THEN Ended(s, "error") ELSE SetArgument(s, arg.text)
    BY <1>5 DEF Argument
  <2>2. arg.text \in Texts
    BY <1>5, ArgumentKinds
  <2>3. CASE s.current = 0 \/ ~ RequiresArgument(s.current)
    <3>1. r = [s EXCEPT !.outcome = "error"]
      BY <2>1, <2>3 DEF Ended
    <3> HIDE DEF r
    <3>2. r \in States /\ r.outcome # "running"
      BY <3>1 DEF States
    <3> QED
      BY <3>2 DEF r
  <2>4. CASE s.current # 0 /\ RequiresArgument(s.current)
    <3>1. r = SetArgument(s, arg.text)
      BY <2>1, <2>4
    <3> HIDE DEF r
    <3>2. /\ r \in States
          /\ r.outcome = "running" =>
               /\ r.current = 0
               /\ r.values = [s.values EXCEPT ![s.current] =
                                Stored(Template[s.current].type, arg.text).value]
      <4>1. /\ SetArgument(s, arg.text) \in States
            /\ SetArgument(s, arg.text).outcome = "running" =>
                 /\ SetArgument(s, arg.text).current = 0
                 /\ SetArgument(s, arg.text).values =
                      [s.values EXCEPT ![s.current] =
                         Stored(Template[s.current].type, arg.text).value]
        BY <1>5, <2>2, <2>4, SetArgumentIs, Zenon
      <4> QED
        BY <3>1, <4>1, Zenon
    <3>3. r.outcome = "running" => AfterArgument(s, r, arg)
      BY <1>1, <1>5, <2>4, <3>2, Zenon DEF AfterArgument, IsNothing
    <3> QED
      BY <3>2, <3>3 DEF r
  <2> QED
    BY <2>3, <2>4
<1> QED
  BY <1>2, <1>3, <1>4, <1>5, ArgumentKinds

(***************************************************************************)
(* All arguments.                                                          *)
(***************************************************************************)
Beginning ==
  [current |-> 0, outcome |-> "running", values |-> [p \in Parameters |-> NotSet]]

ArgumentsRead(u, args) ==
  /\ u \in [0..Len(args) -> States]
  /\ u[0] = Beginning
  /\ \A n \in 1..Len(args) : u[n] = Argument(u[n - 1], args[n])

(* How process() ends after the last argument.                             *)
Flushed(read) ==
  IF read.outcome = "running" /\ read.current # 0
  THEN SetEmptyParameterArgument(read) ELSE read

Finished(last) ==
  IF last.outcome # "running" THEN last
  ELSE IF \E p \in Parameters : Template[p].required /\ last.values[p] = NotSet
  THEN Ended(last, "error")
  ELSE Ended(last, "accepted")

LEMMA BeginningIs == Beginning \in States
BY DEF Beginning, States, StoredValues

LEMMA ArgumentsAre ==
  ASSUME NEW args \in Seq(Arguments)
  PROVE  \E u : ArgumentsRead(u, args) /\ Process(args) = Finished(Flushed(u[Len(args)]))
<1> DEFINE N == Len(args)
           next == [n \in 1..N |-> [v \in States |-> Argument(v, args[n])]]
<1>0. N \in Nat /\ \A n \in 1..N : args[n] \in Arguments
  BY LenProperties, ElementOfSeq
<1> HIDE DEF N
<1>1. next \in [1..N -> [States -> States]]
  BY <1>0, ArgumentIs
<1>2. PICK g : Iterates(g, States, Beginning, N, next)
  <2> HIDE DEF next
  <2> QED
    BY <1>0, <1>1, BeginningIs, Recursion
<1>3. ASSUME NEW n \in 1..N PROVE g[n] = Argument(g[n - 1], args[n])
  <2>1. next[n] = [v \in States |-> Argument(v, args[n])]
    OBVIOUS
  <2> HIDE DEF next
  <2>2. g[n - 1] \in States /\ g[n] = next[n][g[n - 1]]
    BY <1>0, <1>2 DEF Iterates
  <2> QED
    BY <2>1, <2>2
<1> DEFINE Rec(h) == [n \in 0..N |-> IF n = 0 THEN Beginning ELSE Argument(h[n - 1], args[n])]
           f == CHOOSE h : h = Rec(h)
<1>4. g = Rec(g)
  BY <1>0, <1>2, <1>3 DEF Iterates
<1>5. f = Rec(f)
  <2> HIDE DEF Rec
  <2> QED
    BY <1>4
<1>6. Process(args) = Finished(Flushed(f[N]))
  BY DEF Process, Finished, Flushed, Beginning, N
<1> HIDE DEF f
<1>7. f[0] = Beginning /\ \A n \in 1..N : f[n] = Argument(f[n - 1], args[n])
  BY <1>0, <1>5
<1> DEFINE T == {n \in Nat : n <= N => f[n] \in States}
<1>8. Nat \subseteq T
  <2>1. 0 \in T
    BY <1>7, BeginningIs
  <2>2. ASSUME NEW n \in Nat, n \in T PROVE n + 1 \in T
    <3> SUFFICES ASSUME n + 1 <= N PROVE f[n + 1] \in States
      OBVIOUS
    <3>1. n + 1 \in 1..N /\ (n + 1) - 1 = n /\ f[n] \in States
      BY <1>0, <2>2
    <3>2. f[n + 1] = Argument(f[n], args[n + 1])
      BY <1>7, <3>1
    <3> QED
      BY <1>0, <3>1, <3>2, ArgumentIs
  <2> HIDE DEF T
  <2> QED
    BY <2>1, <2>2, Induction
<1>9. f \in [0..N -> States]
  <2>1. \A n \in 0..N : f[n] \in States
    BY <1>0, <1>8
  <2> QED
    BY <1>5, <2>1
<1> QED
  BY <1>6, <1>7, <1>9 DEF ArgumentsRead, N

(***************************************************************************)
(* The next argument of any effect.                                        *)
(***************************************************************************)
LEMMA NextIs ==
  ASSUME NEW args \in Seq(Arguments), NEW i \in 1..Len(args)
  PROVE  /\ NextOf(args, i) \in 0..Len(args)
         /\ NextOf(args, i) # 0 => i < NextOf(args, i) /\ ~ IsNothing(args[NextOf(args, i)])
         /\ \A j \in 1..Len(args) :
              i < j /\ ~ IsNothing(args[j]) => NextOf(args, i) # 0 /\ NextOf(args, i) <= j
<1> DEFINE N == Len(args)
           after == {k \in (i + 1)..N : ~ (args[k].kind = "short" /\ args[k].letters = <<>>)}
           x == NextOf(args, i)
<1>0. N \in Nat /\ i \in Nat
  BY LenProperties
<1>1. x = IF after = {} THEN 0 ELSE CHOOSE k \in after : \A l \in after : k <= l
  BY DEF NextOf
<1> HIDE DEF N
<1>2. \A j \in 1..N : i < j /\ ~ IsNothing(args[j]) => j \in after
  BY <1>0 DEF IsNothing
<1>3. \A j \in after : j \in 1..N /\ i < j /\ ~ IsNothing(args[j])
  BY <1>0 DEF IsNothing
<1> HIDE DEF after, x
<1>4. CASE after = {}
  BY <1>0, <1>1, <1>2, <1>4 DEF x, N
<1>5. CASE after # {}
  <2>1. after \in SUBSET Nat
    BY <1>0, <1>3
  <2>2. \E k \in after : \A l \in after : k <= l
    BY <1>5, <2>1, LeastNumber
  <2>3. x \in after /\ \A l \in after : x <= l
    BY <1>1, <1>5, <2>2
  <2>4. x \in 1..N /\ i < x /\ ~ IsNothing(args[x]) /\ x # 0
    BY <1>0, <1>3, <2>3
  <2> QED
    BY <1>0, <1>2, <2>3, <2>4 DEF x, N
<1> QED
  BY <1>4, <1>5

(***************************************************************************)
(* What the arguments before n + 1 have done: a parameter is settled at i  *)
(* when another letter of the argument follows it, or the next argument    *)
(* has been read; an argument is open as long as none follows.             *)
(***************************************************************************)
Holds(arg) ==
  IF arg.kind = "long" THEN Named(arg.name)
  ELSE IF arg.kind = "short" THEN Abbreviated(arg.letters[Len(arg.letters)])
  ELSE 0

PassedOver(arg, p) ==
  /\ arg.kind = "short"
  /\ \E k \in 1..(Len(arg.letters) - 1) : Abbreviated(arg.letters[k]) = p

Open(args, n, i) ==
  /\ i \in 1..n /\ ~ IsNothing(args[i])
  /\ NextOf(args, i) = 0 \/ NextOf(args, i) > n

Settled(args, n, p) ==
  {i \in 1..n :
     \/ PassedOver(args[i], p)
     \/ /\ Holds(args[i]) = p /\ ~ IsNothing(args[i])
        /\ NextOf(args, i) # 0 /\ NextOf(args, i) <= n
        /\ args[NextOf(args, i)].kind # "long"}

Meant(args, p, i) ==
  IF RequiresArgument(p)
  THEN Stored(Template[p].type, args[NextOf(args, i)].text).value ELSE TRUE

LEMMA GivenIs ==
  ASSUME NEW args \in Seq(Arguments), NEW i \in 1..Len(args), NEW p \in Parameters
  PROVE  /\ i \in Given(args, p)
              <=> ~ IsNothing(args[i]) /\ (Holds(args[i]) = p \/ PassedOver(args[i], p))
         /\ i \in Given(args, p) =>
              (Forgotten(args, i, p)
                 <=> /\ NextOf(args, i) # 0 /\ args[NextOf(args, i)].kind = "long"
                     /\ ~ PassedOver(args[i], p))
<1> DEFINE arg == args[i]
           long == NextOf(args, i) # 0 /\ args[NextOf(args, i)].kind = "long"
<1>0. arg \in Arguments /\ i \in DOMAIN args
  BY ElementOfSeq, LenProperties
<1>1. i \in Given(args, p)
        <=> \/ arg.kind = "long" /\ Named(arg.name) = p
            \/ arg.kind = "short" /\ \E k \in DOMAIN arg.letters :
                                        Abbreviated(arg.letters[k]) = p
  BY <1>0 DEF Given
<1>2. Forgotten(args, i, p)
        <=> /\ long
            /\ \/ arg.kind = "long"
               \/ /\ Abbreviated(arg.letters[Len(arg.letters)]) = p
                  /\ \A k \in 1..(Len(arg.letters) - 1) : Abbreviated(arg.letters[k]) # p
  BY DEF Forgotten
<1>3. p # 0
  BY ParametersAre
<1> HIDE DEF arg, long
<1>4. CASE arg.kind = "long"
  BY <1>1, <1>2, <1>4 DEF IsNothing, Holds, PassedOver, arg, long
<1>5. CASE arg.kind = "plain"
  BY <1>1, <1>2, <1>3, <1>5 DEF IsNothing, Holds, PassedOver, arg, long
<1>6. CASE arg.kind = "short" /\ arg.letters = <<>>
  <2>1. DOMAIN arg.letters = {} /\ Len(arg.letters) - 1 = -1
    BY <1>6
  <2>2. i \notin Given(args, p) /\ IsNothing(arg)
    BY <1>1, <1>6, <2>1 DEF IsNothing
  <2> QED
    BY <2>2 DEF arg
<1>7. CASE arg.kind = "short" /\ arg.letters # <<>>
  <2> DEFINE N == Len(arg.letters)
  <2>1. arg.letters \in Seq(Texts)
    BY <1>0, <1>7, ArgumentKinds
  <2>2. N \in Nat /\ N >= 1 /\ DOMAIN arg.letters = 1..N
    BY <1>7, <2>1, EmptySeq, LenProperties
  <2> HIDE DEF N
  <2>3. \A k \in 1..N : k \in 1..(N - 1) \/ k = N
    BY <2>2
  <2>4. 1..(N - 1) \subseteq 1..N /\ N \in 1..N
    BY <2>2
  <2>5. ~ IsNothing(arg) /\ Holds(arg) = Abbreviated(arg.letters[N])
    BY <1>7 DEF IsNothing, Holds, N
  <2>6. PassedOver(arg, p) <=> \E k \in 1..(N - 1) : Abbreviated(arg.letters[k]) = p
    BY <1>7 DEF PassedOver, N
  <2>7. i \in Given(args, p) <=> Holds(arg) = p \/ PassedOver(arg, p)
    BY <1>1, <1>7, <2>2, <2>3, <2>4, <2>5, <2>6
  <2>8. Forgotten(args, i, p) <=> long /\ Holds(arg) = p /\ ~ PassedOver(arg, p)
    BY <1>2, <1>7, <2>5, <2>6 DEF N
  <2> QED
    BY <2>5, <2>7, <2>8 DEF arg, long
<1> QED
  BY <1>0, <1>4, <1>5, <1>6, <1>7, ArgumentKinds

LEMMA OpenIs ==
  ASSUME NEW args \in Seq(Arguments), NEW n \in Nat, n + 1 <= Len(args), NEW i
  PROVE  /\ Open(args, n, i) /\ ~ IsNothing(args[n + 1]) => NextOf(args, i) = n + 1
         /\ IsNothing(args[n + 1]) => (Open(args, n + 1, i) <=> Open(args, n, i))
         /\ ~ IsNothing(args[n + 1]) => (Open(args, n + 1, i) <=> i = n + 1)
<1>0. Len(args) \in Nat /\ n + 1 \in 1..Len(args)
  BY LenProperties
<1>1. CASE i \in 1..n
  <2>1. i \in 1..Len(args) /\ i < n + 1 /\ i # n + 1 /\ i \in 1..(n + 1)
    BY <1>0, <1>1
  <2> DEFINE x == NextOf(args, i)
  <2>2. /\ x \in 0..Len(args)
        /\ x # 0 => i < x /\ ~ IsNothing(args[x])
        /\ \A j \in 1..Len(args) : i < j /\ ~ IsNothing(args[j]) => x # 0 /\ x <= j
    BY <2>1, NextIs
  <2> HIDE DEF x
  <2>3. ~ IsNothing(args[n + 1]) => x # 0 /\ x <= n + 1
    BY <1>0, <2>1, <2>2
  <2>4. IsNothing(args[n + 1]) => x # n + 1
    BY <2>2
  <2>5. x \in Nat
    BY <1>0, <2>2
  <2> QED
    BY <1>1, <2>1, <2>3, <2>4, <2>5 DEF Open, x
<1>2. CASE i = n + 1
  <2>1. /\ NextOf(args, i) \in 0..Len(args)
        /\ NextOf(args, i) # 0 => i < NextOf(args, i)
    BY <1>0, <1>2, NextIs
  <2> QED
    BY <1>0, <1>2, <2>1 DEF Open
<1>3. CASE i \notin 1..n /\ i # n + 1
  BY <1>3 DEF Open
<1> QED
  BY <1>1, <1>2, <1>3

LEMMA SettledIs ==
  ASSUME NEW args \in Seq(Arguments), NEW n \in Nat, n + 1 <= Len(args), NEW p, NEW k
  PROVE  k \in Settled(args, n + 1, p)
           <=> \/ k \in Settled(args, n, p)
               \/ /\ Open(args, n, k) /\ Holds(args[k]) = p
                  /\ ~ IsNothing(args[n + 1]) /\ args[n + 1].kind # "long"
               \/ k = n + 1 /\ PassedOver(args[n + 1], p)
<1>0. Len(args) \in Nat /\ n + 1 \in 1..Len(args)
  BY LenProperties
<1> DEFINE x == NextOf(args, k)
           Then(j) == \/ PassedOver(args[k], p)
                      \/ /\ Holds(args[k]) = p /\ ~ IsNothing(args[k])
                         /\ x # 0 /\ x <= j /\ args[x].kind # "long"
<1>1. /\ k \in Settled(args, n + 1, p) <=> k \in 1..(n + 1) /\ Then(n + 1)
      /\ k \in Settled(args, n, p) <=> k \in 1..n /\ Then(n)
  BY DEF Settled
<1>2. CASE k \in 1..n
  <2>1. k \in 1..Len(args) /\ k \in 1..(n + 1) /\ k # n + 1
    BY <1>0, <1>2
  <2>2. x \in Nat /\ (x # 0 => ~ IsNothing(args[x]))
    <3>1. x \in 0..Len(args) /\ (x # 0 => ~ IsNothing(args[x]))
      BY <2>1, NextIs
    <3> HIDE DEF x
    <3> QED
      BY <1>0, <3>1
  <2>3. Open(args, n, k) /\ ~ IsNothing(args[n + 1]) => x = n + 1
    BY OpenIs
  <2>4. Open(args, n, k) <=> ~ IsNothing(args[k]) /\ (x = 0 \/ x > n)
    BY <1>2 DEF Open
  <2> HIDE DEF x
  <2>5. x # 0 /\ x <= n + 1 => x <= n \/ x = n + 1
    BY <2>2
  <2>6. x <= n => x <= n + 1
    BY <2>2
  <2>7. x = n + 1 => x > n /\ x # 0 /\ x <= n + 1
    BY <2>2
  <2> QED
    BY <1>1, <1>2, <2>1, <2>2, <2>3, <2>4, <2>5, <2>6, <2>7
<1>3. CASE k = n + 1
  <2>1. k \notin 1..n /\ k \in 1..(n + 1)
    BY <1>0, <1>3
  <2>2. x # 0 => ~ (x <= n + 1)
    <3>1. x \in 0..Len(args) /\ (x # 0 => k < x)
      BY <1>0, <1>3, NextIs
    <3> HIDE DEF x
    <3> QED
      BY <1>0, <1>3, <3>1
  <2>3. ~ Open(args, n, k)
    BY <2>1 DEF Open
  <2> HIDE DEF x
  <2> QED
    BY <1>1, <1>3, <2>1, <2>2, <2>3
<1>4. CASE k \notin 1..n /\ k # n + 1
  <2>1. k \notin 1..(n + 1)
    BY <1>4
  <2> QED
    BY <1>1, <1>4, <2>1 DEF Open
<1> QED
  BY <1>2, <1>3, <1>4

(***************************************************************************)
(* What has been read means what it says.                                  *)
(***************************************************************************)
ReadWell(args, n, s) ==
  /\ \A i : Open(args, n, i) => s.current = Holds(args[i])
  /\ s.current # 0 => \E i : Open(args, n, i)
  /\ \A p \in Parameters : Settled(args, n, p) = {} => s.values[p] = NotSet
  /\ \A p \in Parameters : \A i \in Settled(args, n, p) :
       (\A k \in Settled(args, n, p) : k <= i) => s.values[p] = Meant(args, p, i)

(* Only the values of parameters that this argument settles change.        *)
LEMMA ValuesRead ==
  ASSUME NEW args \in Seq(Arguments), NEW n \in Nat, n + 1 <= Len(args),
         NEW s, NEW r, NEW p \in Parameters, ReadWell(args, n, s),
         \/ /\ r.values[p] = s.values[p]
            /\ \A k : k \in Settled(args, n + 1, p) => k \in Settled(args, n, p)
         \/ /\ r.values[p] = TRUE /\ ~ RequiresArgument(p)
            /\ Settled(args, n + 1, p) # {}
  PROVE  /\ Settled(args, n + 1, p) = {} => r.values[p] = NotSet
         /\ \A i \in Settled(args, n + 1, p) :
              (\A k \in Settled(args, n + 1, p) : k <= i) => r.values[p] = Meant(args, p, i)
<1>1. CASE /\ r.values[p] = s.values[p]
           /\ \A k : k \in Settled(args, n + 1, p) => k \in Settled(args, n, p)
  <2>1. \A k : k \in Settled(args, n, p) => k \in Settled(args, n + 1, p)
    BY SettledIs
  <2>2. Settled(args, n + 1, p) = Settled(args, n, p)
    <3> DEFINE A == Settled(args, n + 1, p)
               B == Settled(args, n, p)
    <3>1. \A k : k \in A <=> k \in B
      BY <1>1, <2>1
    <3>2. A \subseteq 1..(n + 1) /\ B \subseteq 1..n
      BY DEF Settled
    <3> HIDE DEF A, B
    <3>3. A = B
      BY <3>1
    <3> QED
      BY <3>3 DEF A, B
  <2> QED
    BY <1>1, <2>2 DEF ReadWell
<1>2. CASE /\ r.values[p] = TRUE /\ ~ RequiresArgument(p)
           /\ Settled(args, n + 1, p) # {}
  BY <1>2 DEF Meant
<1> QED
  BY <1>1, <1>2

LEMMA ArgumentReadWell ==
  ASSUME NEW args \in Seq(Arguments), NEW n \in Nat, n + 1 <= Len(args),
         NEW s \in States, NEW r \in States,
         AfterArgument(s, r, args[n + 1]), ReadWell(args, n, s)
  PROVE  ReadWell(args, n + 1, r)
<1> DEFINE arg == args[n + 1]
           Old(p) == Settled(args, n, p)
           New(p) == Settled(args, n + 1, p)
           NowSettled(p, k) == /\ Open(args, n, k) /\ Holds(args[k]) = p
                               /\ ~ IsNothing(arg) /\ arg.kind # "long"
           Fine(p) == /\ New(p) = {} => r.values[p] = NotSet
                      /\ \A i \in New(p) :
                           (\A k \in New(p) : k <= i) => r.values[p] = Meant(args, p, i)
           Unchanged(p) == /\ r.values[p] = s.values[p]
                           /\ \A k : k \in New(p) => k \in Old(p)
           Flag(p) == r.values[p] = TRUE /\ ~ RequiresArgument(p) /\ New(p) # {}
<1>0. /\ Len(args) \in Nat /\ n + 1 \in 1..Len(args) /\ arg \in Arguments
      /\ s.values \in [Parameters -> StoredValues]
  BY LenProperties, ElementOfSeq DEF States
<1>1. ASSUME NEW p, NEW k
      PROVE  k \in New(p) <=> \/ k \in Old(p) \/ NowSettled(p, k)
                              \/ k = n + 1 /\ PassedOver(arg, p)
  BY SettledIs
<1>2. ASSUME NEW i
      PROVE  /\ Open(args, n, i) /\ ~ IsNothing(arg) => NextOf(args, i) = n + 1
             /\ IsNothing(arg) => (Open(args, n + 1, i) <=> Open(args, n, i))
             /\ ~ IsNothing(arg) => (Open(args, n + 1, i) <=> i = n + 1)
  BY OpenIs
<1>3. ASSUME NEW p \in Parameters, Unchanged(p) \/ Flag(p) PROVE Fine(p)
  BY <1>3, ValuesRead
<1>4. ASSUME NEW p, NEW k, NowSettled(p, k) PROVE s.current = p
  BY <1>4 DEF ReadWell
<1>5. /\ s.outcome = "running"
      /\ IsNothing(arg) => r = s
      /\ arg.kind = "long" => /\ r.current = Named(arg.name) /\ r.current \in Parameters
                              /\ r.values = s.values
      /\ arg.kind = "short" /\ arg.letters # <<>>
           => AfterLetters(s, r, arg.letters, Len(arg.letters))
      /\ arg.kind = "plain" =>
           /\ s.current \in Parameters /\ RequiresArgument(s.current) /\ r.current = 0
           /\ r.values = [s.values EXCEPT ![s.current] =
                            Stored(Template[s.current].type, arg.text).value]
  BY DEF AfterArgument
<1>6. /\ \A i : Open(args, n, i) => s.current = Holds(args[i])
      /\ s.current # 0 => \E i : Open(args, n, i)
  BY DEF ReadWell
<1>7. ASSUME ~ IsNothing(arg), r.current = Holds(arg), \A p \in Parameters : Fine(p)
      PROVE  ReadWell(args, n + 1, r)
  BY <1>2, <1>7 DEF ReadWell
<1>8. CASE IsNothing(arg)
  <2>1. r = s
    BY <1>5, <1>8
  <2>2. ASSUME NEW p PROVE ~ PassedOver(arg, p)
    <3>1. arg.letters = <<>>
      BY <1>8 DEF IsNothing
    <3> HIDE DEF arg
    <3>2. 1..(Len(arg.letters) - 1) = {}
      BY <3>1
    <3> QED
      BY <3>2 DEF PassedOver
  <2>3. ASSUME NEW p \in Parameters PROVE Unchanged(p)
    BY <1>1, <1>8, <2>1, <2>2
  <2>4. ASSUME NEW p \in Parameters PROVE Fine(p)
    <3>1. Unchanged(p)
      BY <2>3
    <3> HIDE DEF Unchanged, Fine
    <3> QED
      BY <1>3, <3>1
  <2> HIDE DEF arg
  <2>5. /\ \A i : Open(args, n + 1, i) => r.current = Holds(args[i])
        /\ r.current # 0 => \E i : Open(args, n + 1, i)
    BY <1>2, <1>6, <1>8, <2>1
  <2> QED
    BY <2>4, <2>5 DEF ReadWell
<1>9. CASE arg.kind = "long"
  <2>1. ~ IsNothing(arg) /\ r.current = Holds(arg) /\ r.values = s.values
    BY <1>5, <1>9 DEF IsNothing, Holds
  <2>2. ASSUME NEW p \in Parameters PROVE Unchanged(p)
    <3>1. ~ PassedOver(arg, p)
      BY <1>9 DEF PassedOver
    <3> QED
      BY <1>1, <1>9, <2>1, <3>1
  <2> HIDE DEF Unchanged, Fine
  <2> QED
    BY <1>3, <1>7, <2>1, <2>2
<1>10. CASE arg.kind = "plain"
  <2>1. ~ IsNothing(arg) /\ r.current = Holds(arg)
    BY <1>5, <1>10 DEF IsNothing, Holds
  <2>2. ASSUME NEW p PROVE ~ PassedOver(arg, p)
    BY <1>10 DEF PassedOver
  <2> DEFINE c == s.current
  <2>3. c \in Parameters /\ RequiresArgument(c) /\ c # 0
    BY <1>5, <1>10, ParametersAre
  <2>4. PICK i : Open(args, n, i)
    BY <1>6, <2>3
  <2>5. i \in 1..n /\ NextOf(args, i) = n + 1 /\ Holds(args[i]) = c
    BY <1>2, <1>6, <2>1, <2>4 DEF Open
  <2>6. i \in 1..Len(args)
    BY <1>0, <2>5
  <2>7. /\ \A p \in Parameters : p # c => r.values[p] = s.values[p]
        /\ r.values[c] = Stored(Template[c].type, arg.text).value
    BY <1>0, <1>5, <1>10, <2>3
  <2>8. ASSUME NEW p \in Parameters, p # c PROVE Unchanged(p)
    BY <1>1, <1>4, <2>2, <2>7, <2>8
  <2>9. Fine(c)
    <3>1. i \in New(c)
      BY <1>1, <1>10, <2>1, <2>4, <2>5
    <3>2. ASSUME NEW k \in New(c), i < k PROVE FALSE
      <4>1. k \in 1..n
        <5>1. k \in 1..(n + 1)
          BY DEF Settled
        <5>2. k # n + 1
          <6>1. ~ (n + 1 \in Old(c))
            BY <1>0 DEF Settled
          <6>2. ~ NowSettled(c, n + 1)
            BY <1>0 DEF Open
          <6> HIDE DEF New, Old, NowSettled
          <6> QED
            BY <1>1, <2>2, <3>2, <6>1, <6>2
        <5> QED
          BY <5>1, <5>2
      <4>2. ~ IsNothing(args[k])
        <5>1. PassedOver(args[k], c) \/ ~ IsNothing(args[k])
          BY <3>2 DEF Settled
        <5>2. PassedOver(args[k], c) => ~ IsNothing(args[k])
          <6>1. args[k].letters = <<>> => 1..(Len(args[k].letters) - 1) = {}
            OBVIOUS
          <6> QED
            BY <6>1 DEF PassedOver, IsNothing
        <5> QED
          BY <5>1, <5>2
      <4>3. k \in 1..Len(args)
        BY <1>0, <4>1
      <4>4. NextOf(args, i) <= k
        BY <2>6, <3>2, <4>2, <4>3, NextIs
      <4> QED
        BY <2>5, <4>1, <4>4
    <3>3. Meant(args, c, i) = r.values[c]
      BY <2>3, <2>5, <2>7 DEF Meant
    <3>4. ASSUME NEW j \in New(c), \A k \in New(c) : k <= j
          PROVE  r.values[c] = Meant(args, c, j)
      <4>1. j = i
        <5>1. i <= j /\ ~ (i < j)
          BY <3>1, <3>2, <3>4
        <5>2. j \in Int /\ i \in Int
          BY <2>5 DEF Settled
        <5> HIDE DEF New
        <5> QED
          BY <5>1, <5>2
      <4> QED
        BY <3>3, <4>1
    <3> HIDE DEF New
    <3> QED
      BY <3>1, <3>4
  <2>10. ASSUME NEW p \in Parameters PROVE Fine(p)
    <3> HIDE DEF Unchanged, Fine, c
    <3> QED
      BY <1>3, <2>8, <2>9
  <2> HIDE DEF Fine
  <2> QED
    BY <1>7, <2>1, <2>10
<1>11. CASE arg.kind = "short" /\ arg.letters # <<>>
  <2> DEFINE N == Len(arg.letters)
             c == s.current
  <2>1. AfterLetters(s, r, arg.letters, N)
    BY <1>5, <1>11
  <2>2. ~ IsNothing(arg) /\ r.current = Holds(arg) /\ arg.kind # "long"
    BY <1>11, <2>1 DEF AfterLetters, Holds, IsNothing
  <2>3. ASSUME NEW p \in Parameters
        PROVE  /\ PassedOver(arg, p) => ~ RequiresArgument(p)
               /\ r.values[p] = IF p = c \/ PassedOver(arg, p) THEN TRUE ELSE s.values[p]
    BY <1>11, <2>1 DEF AfterLetters, PassedOver, Sets
  <2>4. c # 0 => ~ RequiresArgument(c)
    BY <2>1 DEF AfterLetters
  <2>5. ASSUME NEW p \in Parameters, p = c PROVE Flag(p)
    <3>1. c # 0
      BY <2>5, ParametersAre
    <3>2. PICK i : Open(args, n, i)
      BY <1>6, <3>1
    <3>3. i \in New(p)
      BY <1>1, <1>6, <2>2, <2>5, <3>2
    <3> QED
      BY <2>3, <2>4, <2>5, <3>1, <3>3
  <2>6. ASSUME NEW p \in Parameters, PassedOver(arg, p) PROVE Flag(p)
    <3>1. n + 1 \in New(p)
      BY <1>1, <2>6
    <3> QED
      BY <2>3, <2>6, <3>1
  <2>7. ASSUME NEW p \in Parameters, p # c, ~ PassedOver(arg, p) PROVE Unchanged(p)
    BY <1>1, <1>4, <2>3, <2>7
  <2>8. ASSUME NEW p \in Parameters PROVE Fine(p)
    <3> HIDE DEF Unchanged, Flag, Fine, arg, c
    <3> QED
      BY <1>3, <2>5, <2>6, <2>7
  <2> HIDE DEF Fine
  <2> QED
    BY <1>7, <2>2, <2>8
<1> QED
  BY <1>0, <1>8, <1>9, <1>10, <1>11, ArgumentKinds DEF IsNothing

LEMMA GreatestNumber ==
  ASSUME NEW n \in Nat, NEW S \in SUBSET (1..n), S # {}
  PROVE  \E m \in S : \A k \in S : k <= m
<1> DEFINE D == {d \in Nat : n - d \in S}
<1>1. PICK k \in S : TRUE
  OBVIOUS
<1>2. n - k \in D
  BY <1>1
<1>3. PICK d \in D : \A e \in D : d <= e
  BY <1>2, LeastNumber
<1>4. ASSUME NEW l \in S PROVE l <= n - d
  <2>1. l \in 1..n
    OBVIOUS
  <2>2. n - l \in Nat /\ n - (n - l) = l
    BY <2>1
  <2>3. n - l \in D
    BY <2>2
  <2>4. d \in Nat /\ d <= n - l
    BY <1>3, <2>3
  <2> QED
    BY <2>1, <2>4
<1> QED
  BY <1>3, <1>4

(***************************************************************************)
(* An accepted command line means what it says, whatever its arguments and *)
(* the parameters are.                                                     *)
(***************************************************************************)
THEOREM OptionsAlwaysMean == \A args \in Seq(Arguments) : OptionsMean(args)
<1> SUFFICES ASSUME NEW args \in Seq(Arguments), Process(args).outcome = "accepted"
             PROVE  OptionsMean(args)
  BY DEF OptionsMean
<1> DEFINE N == Len(args)
<1>0. N \in Nat
  BY LenProperties
<1>1. PICK u : ArgumentsRead(u, args) /\ Process(args) = Finished(Flushed(u[N]))
  BY ArgumentsAre
<1>2. /\ u[0] = Beginning /\ \A n \in 0..N : u[n] \in States
      /\ \A n \in 1..N : u[n] = Argument(u[n - 1], args[n])
  BY <1>1 DEF ArgumentsRead
<1> HIDE DEF N
<1> DEFINE Fine(n) == u[n].outcome = "running" => ReadWell(args, n, u[n])
           T == {n \in Nat : n <= N => Fine(n)}
<1>3. 0 \in T
  <2>1. \A p : Settled(args, 0, p) = {}
    BY DEF Settled
  <2>2. \A i : ~ Open(args, 0, i)
    BY DEF Open
  <2>3. ReadWell(args, 0, u[0])
    BY <1>2, <2>1, <2>2 DEF ReadWell, Beginning
  <2> QED
    BY <2>3
<1>4. ASSUME NEW n \in Nat, n \in T PROVE n + 1 \in T
  <2> SUFFICES ASSUME n + 1 <= N, u[n + 1].outcome = "running"
               PROVE  ReadWell(args, n + 1, u[n + 1])
    OBVIOUS
  <2>1. n + 1 \in 1..N /\ (n + 1) - 1 = n /\ n \in 0..N /\ n + 1 \in 0..N
    BY <1>0
  <2>2. u[n + 1] = Argument(u[n], args[n + 1]) /\ u[n] \in States /\ u[n + 1] \in States
    BY <1>2, <2>1
  <2>3. args[n + 1] \in Arguments
    BY <2>1, ElementOfSeq DEF N
  <2>4. AfterArgument(u[n], u[n + 1], args[n + 1])
    BY <2>2, <2>3, ArgumentIs
  <2>5. ReadWell(args, n, u[n])
    BY <1>4, <2>1, <2>4 DEF AfterArgument
  <2> QED
    BY <2>2, <2>4, <2>5, ArgumentReadWell DEF N
<1> HIDE DEF T
<1>5. Nat \subseteq T
  BY <1>3, <1>4, Induction
<1> DEFINE s == u[N]
           last == Flushed(s)
           c == s.current
<1>6. s \in States /\ Fine(N)
  BY <1>0, <1>2, <1>5 DEF T
<1>7. last \in States /\ last.outcome = "running"
      /\ Process(args).values = last.values
  <2>1. last \in States
    BY <1>6, FlagIsSet DEF Flushed
  <2> HIDE DEF last
  <2>2. Process(args) = Finished(last)
    BY <1>1 DEF last
  <2>3. last.outcome = "running"
    BY <2>1, <2>2 DEF Finished, States
  <2>4. Finished(last).values = last.values
    BY <2>1 DEF Finished, Ended, States
  <2> QED
    BY <2>1, <2>2, <2>3, <2>4
<1>8. /\ s.outcome = "running"
      /\ c # 0 => ~ RequiresArgument(c)
      /\ \A p \in Parameters : last.values[p] = IF p = c THEN TRUE ELSE s.values[p]
  <2> DEFINE flag == SetEmptyParameterArgument(s)
  <2>1. last = IF s.outcome = "running" /\ c # 0 THEN flag ELSE s
    BY DEF Flushed
  <2>2. CASE s.outcome = "running" /\ c # 0
    <3>1. flag.outcome = "running" =>
            /\ ~ RequiresArgument(c)
            /\ flag.values = [s.values EXCEPT ![c] = TRUE]
      BY <1>6, <2>2, FlagIsSet
    <3>2. s.values \in [Parameters -> StoredValues]
      BY <1>6 DEF States
    <3> HIDE DEF flag, last, s
    <3> QED
      BY <1>7, <2>1, <2>2, <3>1, <3>2
  <2>3. CASE ~ (s.outcome = "running" /\ c # 0)
    <3> HIDE DEF flag, last, s
    <3> QED
      BY <1>7, <2>1, <2>3, ParametersAre
  <2> QED
    BY <2>2, <2>3
<1>9. ReadWell(args, N, s)
  BY <1>6, <1>8
<1> HIDE DEF s, last, Fine
<1> DEFINE nothing == ""
           effective(p) == {i \in Given(args, p) : ~ Forgotten(args, i, p)}
           latest(p) == CHOOSE i \in effective(p) : \A k \in effective(p) : k <= i
           text(p) == IF RequiresArgument(p) THEN args[NextOf(args, latest(p))].text
                                             ELSE nothing
<1>10. ASSUME NEW p \in Parameters
       PROVE  last.values[p] = IF effective(p) = {} THEN NotSet
                               ELSE Stored(Template[p].type, text(p)).value
  <2>0. effective(p) \subseteq 1..N
    BY LenProperties DEF Given, N
  <2>1. ASSUME NEW i \in 1..N
        PROVE  i \in effective(p)
                 <=> \/ i \in Settled(args, N, p)
                     \/ Open(args, N, i) /\ Holds(args[i]) = p
    <3> DEFINE x == NextOf(args, i)
    <3>1. i \in 1..Len(args)
      BY DEF N
    <3>2. x = 0 \/ (x <= N /\ ~ (x > N))
      <4>1. x \in 0..Len(args)
        BY <3>1, NextIs
      <4> HIDE DEF x
      <4> QED
        BY <1>0, <4>1 DEF N
    <3>3. ~ (0 > N)
      BY <1>0
    <3>4. /\ i \in Given(args, p)
               <=> ~ IsNothing(args[i]) /\ (Holds(args[i]) = p \/ PassedOver(args[i], p))
          /\ i \in Given(args, p) =>
               (Forgotten(args, i, p)
                  <=> /\ x # 0 /\ args[x].kind = "long"
                      /\ ~ PassedOver(args[i], p))
      BY <3>1, GivenIs
    <3>5. i \in Settled(args, N, p)
            <=> \/ PassedOver(args[i], p)
                \/ /\ Holds(args[i]) = p /\ ~ IsNothing(args[i])
                   /\ x # 0 /\ x <= N /\ args[x].kind # "long"
      BY DEF Settled
    <3>6. Open(args, N, i) <=> ~ IsNothing(args[i]) /\ (x = 0 \/ x > N)
      BY DEF Open
    <3>7. PassedOver(args[i], p) => ~ IsNothing(args[i])
      <4>1. args[i].letters = <<>> => 1..(Len(args[i].letters) - 1) = {}
        OBVIOUS
      <4> QED
        BY <4>1 DEF PassedOver, IsNothing
    <3> HIDE DEF x
    <3> QED
      BY <3>2, <3>4, <3>5, <3>6, <3>7
  <2>2. Settled(args, N, p) \subseteq 1..N /\ \A i : Open(args, N, i) => i \in 1..N
    BY DEF Settled, Open
  <2>3. CASE p = c
    <3>1. c # 0 /\ ~ RequiresArgument(p) /\ last.values[p] = TRUE
      BY <1>8, <2>3, ParametersAre
    <3>2. PICK i : Open(args, N, i)
      BY <1>9, <3>1 DEF ReadWell
    <3>3. i \in effective(p)
      BY <1>9, <2>1, <2>2, <2>3, <3>2 DEF ReadWell
    <3>4. Stored(Template[p].type, text(p)).value = TRUE
      <4> HIDE DEF text
      <4>1. Template[p].type = "flag"
        BY <3>1 DEF RequiresArgument
      <4> QED
        BY <4>1, StoredIs
    <3> QED
      BY <3>1, <3>3, <3>4
  <2>4. CASE p # c
    <3>1. effective(p) = Settled(args, N, p)
      <4>1. \A i \in 1..N : i \in effective(p) <=> i \in Settled(args, N, p)
        BY <1>9, <2>1, <2>4 DEF ReadWell
      <4> HIDE DEF effective
      <4> QED
        BY <2>0, <2>2, <4>1
    <3>2. last.values[p] = s.values[p]
      BY <1>8, <2>4
    <3>3. CASE effective(p) = {}
      BY <1>9, <3>1, <3>2, <3>3 DEF ReadWell
    <3>4. CASE effective(p) # {}
      <4> HIDE DEF effective
      <4>1. \E i \in effective(p) : \A k \in effective(p) : k <= i
        BY <1>0, <2>0, <3>4, GreatestNumber
      <4>2. latest(p) \in effective(p) /\ \A k \in effective(p) : k <= latest(p)
        BY <4>1
      <4> HIDE DEF latest
      <4>3. last.values[p] = Meant(args, p, latest(p))
        BY <1>9, <3>1, <3>2, <4>2 DEF ReadWell
      <4>4. CASE RequiresArgument(p)
        BY <3>4, <4>3, <4>4 DEF Meant
      <4>5. CASE ~ RequiresArgument(p)
        <5>1. Stored(Template[p].type, text(p)).value = TRUE
          <6> HIDE DEF text
          <6>1. Template[p].type = "flag"
            BY <4>5 DEF RequiresArgument
          <6> QED
            BY <6>1, StoredIs
        <5> QED
          BY <3>4, <4>3, <4>5, <5>1 DEF Meant
      <4> QED
        BY <4>4, <4>5
    <3> QED
      BY <3>3, <3>4
  <2> QED
    BY <2>3, <2>4
<1>11. ASSUME NEW p \in Parameters
       PROVE  Process(args).values[p] = IF effective(p) = {} THEN NotSet
                                        ELSE Stored(Template[p].type, text(p)).value
  BY <1>7, <1>10
<1> QED
  BY <1>11, Zenon DEF OptionsMean

LEMMA OptionInputs ==
  ASSUME NEW s \in Inputs, s.of = "options"
  PROVE  s.args \in Sequences(MCArguments, 0, 4)
BY SMT DEF Inputs

LEMMA ArgumentInputs == MCArguments \subseteq Arguments
<1> DEFINE names == {"port", "hostname", "relay", "debug", "help", "other"}
           letters == {<<>>, <<"p">>, <<"h">>, <<"D">>, <<"D", "h">>, <<"x">>}
           texts == {"42nd", "1", "huge", "no"}
<1>1. names \subseteq Texts /\ texts \subseteq Texts
  BY DEF Texts
<1>2. letters \subseteq Seq(Texts)
  <2>1. "p" \in Texts /\ "h" \in Texts /\ "D" \in Texts /\ "x" \in Texts
    BY DEF Texts
  <2>2. /\ <<>> \in Seq(Texts) /\ <<"p">> \in Seq(Texts) /\ <<"h">> \in Seq(Texts)
        /\ <<"D">> \in Seq(Texts) /\ <<"D", "h">> \in Seq(Texts) /\ <<"x">> \in Seq(Texts)
    BY <2>1
  <2> QED
    BY <2>2
<1>3. MCArguments = [kind : {"long"}, name : names] \cup [kind : {"short"}, letters : letters]
                      \cup [kind : {"plain"}, text : texts]
  BY DEF MCArguments
<1> HIDE DEF names, letters, texts
<1> QED
  BY <1>1, <1>2, <1>3 DEF Arguments

(***************************************************************************)
(* The run's arguments are such.                                           *)
(***************************************************************************)
THEOREM OptionsMeanTheirWords == Spec => []OptionsMeanWhatTheySay
<1>1. SubjectStays => OptionsMeanWhatTheySay
  <2> SUFFICES ASSUME subject \in Inputs, subject.of = "options"
               PROVE  OptionsMean(subject.args)
    BY DEF SubjectStays, OptionsMeanWhatTheySay
  <2>1. subject.args \in Sequences(MCArguments, 0, 4)
    BY OptionInputs
  <2>2. subject.args \in Seq(MCArguments)
    BY <2>1, SequencesIs
  <2>3. subject.args \in Seq(Arguments)
    BY <2>2, ArgumentInputs
  <2> QED
    BY <2>3, OptionsAlwaysMean
<1> QED
  BY <1>1, SubjectIs, PTL
=============================================================================
