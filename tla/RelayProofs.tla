---------------------------- MODULE RelayProofs ----------------------------
(***************************************************************************)
(* The safety properties of Relay, proved for every set of connections and *)
(* classes, any frames and any bounds.  The argument is the invariant IInv *)
(* of Relay: a lemma for each conjunct of it says that it is preserved.    *)
(* They rest on the facts about sequences of ranks that come first.        *)
(***************************************************************************)
EXTENDS Relay, SequenceTheorems, TLAPS

-----------------------------------------------------------------------------
(***************************************************************************)
(* A connection's outgoing stream, cut in three: what was written (s), the *)
(* event in the worker's hands (e, 0 if none) and what is queued (q).      *)
(***************************************************************************)
(* The stream of three parts, and the messages in it. *)
Joined(s, e, q) == s \o (IF e = 0 THEN <<>> ELSE <<e>>) \o q
Members(s, e, q) == {s[i] : i \in 1..Len(s)} \union ({e} \ {0})
                      \union {q[i] : i \in 1..Len(q)}

(* Queueing a message later than all before it keeps the order. *)
LEMMA OrderedEnqueue ==
  ASSUME NEW s \in Seq(Nat), NEW e \in Nat, NEW q \in Seq(Nat),
         NEW last \in Int, Ordered(s, e, q, last), NEW n \in Nat, last < n
  PROVE  Ordered(s, e, Append(q, n), n)
<1>. DEFINE r == Append(q, n)
<1>1. /\ Len(r) = Len(q) + 1 /\ Len(q) \in Nat /\ Len(s) \in Nat
      /\ \A i \in 1..Len(q) : r[i] = q[i] /\ q[i] \in Nat
      /\ r[Len(r)] = n
      /\ \A i \in 1..Len(s) : s[i] \in Nat
  BY AppendProperties
<1>2. \A i \in 1..Len(r) : i \in 1..Len(q) \/ i = Len(r)
  BY <1>1
<1>3. /\ \A i \in 1..Len(s) : s[i] < n
      /\ \A i \in 1..Len(q) : q[i] < n
      /\ e < n
  BY <1>1 DEF Ordered, AtMost
<1>. HIDE DEF r
<1>4. Increasing(r)
  <2>. SUFFICES ASSUME NEW i \in 1..Len(r), NEW j \in 1..Len(r), i < j
                PROVE  r[i] < r[j]
    BY DEF Increasing
  <2>1. i \in 1..Len(q) /\ r[i] = q[i]
    BY <1>1
  <2>2. CASE j = Len(r)
    BY <1>1, <1>3, <2>1, <2>2
  <2>3. CASE j \in 1..Len(q)
    BY <1>1, <2>1, <2>3 DEF Ordered, Increasing
  <2>. QED
    BY <1>2, <2>2, <2>3
<1>5. AtMost(s, n) /\ AtMost(r, n) /\ e <= n
  <2>1. AtMost(s, n) /\ e <= n
    BY <1>3 DEF AtMost
  <2>2. ASSUME NEW i \in 1..Len(r) PROVE r[i] <= n
    <3>1. CASE i = Len(r)
      BY <1>1, <3>1
    <3>2. CASE i \in 1..Len(q)
      <4>1. r[i] = q[i] /\ q[i] < n /\ q[i] \in Nat
        BY <1>1, <1>3, <3>2
      <4>. QED
        BY <4>1
    <3>. QED
      BY <1>2, <3>1, <3>2
  <2>. QED
    BY <2>1, <2>2 DEF AtMost
<1>6. /\ \A i \in 1..Len(s), j \in 1..Len(r) : s[i] < r[j]
      /\ \A j \in 1..Len(r) : e < r[j]
  BY <1>1, <1>2, <1>3 DEF Ordered
<1>7. Ordered(s, e, r, n)
  BY <1>4, <1>5, <1>6 DEF Ordered
<1>. QED
  BY <1>7 DEF r

(* Taking the head of the queue as the event keeps the order. *)
LEMMA OrderedTake ==
  ASSUME NEW s \in Seq(Nat), NEW q \in Seq(Nat), NEW last \in Int,
         Ordered(s, 0, q, last), q # <<>>
  PROVE  /\ Ordered(s, Head(q), Tail(q), last)
         /\ Members(s, Head(q), Tail(q)) = Members(s, 0, q)
         /\ Head(q) # 0
<1>. DEFINE r == Tail(q)
<1>1. /\ Len(r) = Len(q) - 1 /\ Len(q) \in Nat \ {0} /\ Len(s) \in Nat
      /\ \A i \in 1..Len(r) : r[i] = q[i + 1] /\ i + 1 \in 1..Len(q)
      /\ Head(q) = q[1] /\ 1 \in 1..Len(q)
      /\ \A i \in 1..Len(q) : q[i] \in Nat
  BY HeadTailProperties, EmptySeq
<1>2. \A i \in 1..Len(q) : i = 1 \/ i - 1 \in 1..Len(r)
  BY <1>1
<1>. HIDE DEF r
<1>3. Head(q) # 0 /\ Head(q) <= last
  BY <1>1 DEF Ordered, AtMost
<1>4. Increasing(r) /\ AtMost(r, last)
  <2>1. ASSUME NEW i \in 1..Len(r), NEW j \in 1..Len(r), i < j
        PROVE  r[i] < r[j]
    <3>1. /\ i + 1 \in 1..Len(q) /\ j + 1 \in 1..Len(q) /\ i + 1 < j + 1
          /\ r[i] = q[i + 1] /\ r[j] = q[j + 1]
      BY <1>1, <2>1
    <3>. QED
      BY <3>1 DEF Ordered, Increasing
  <2>2. \A i \in 1..Len(r) : r[i] <= last
    BY <1>1 DEF Ordered, AtMost
  <2>. QED
    BY <2>1, <2>2 DEF Increasing, AtMost
<1>5a. \A i \in 1..Len(s) : s[i] < Head(q)
  BY <1>1 DEF Ordered
<1>5b. \A i \in 1..Len(s), j \in 1..Len(r) : s[i] < r[j]
  BY <1>1 DEF Ordered
<1>5c. \A j \in 1..Len(r) : Head(q) < r[j]
  <2>1. ASSUME NEW j \in 1..Len(r) PROVE Head(q) < r[j]
    <3>1. j + 1 \in 1..Len(q) /\ r[j] = q[j + 1] /\ 1 < j + 1
      BY <1>1
    <3>. QED
      BY <1>1, <3>1 DEF Ordered, Increasing
  <2>. QED
    BY <2>1
<1>6. Ordered(s, Head(q), r, last)
  BY <1>3, <1>4, <1>5a, <1>5b, <1>5c DEF Ordered
<1>7. {q[i] : i \in 1..Len(q)} = {q[1]} \union {r[i] : i \in 1..Len(r)}
  <2>1. ASSUME NEW i \in 1..Len(q), i # 1 PROVE q[i] \in {r[j] : j \in 1..Len(r)}
    <3>1. i - 1 \in 1..Len(r) /\ r[i - 1] = q[i]
      BY <1>1, <1>2, <2>1
    <3>. QED
      BY <3>1
  <2>2. q[1] \in {q[i] : i \in 1..Len(q)}
    BY <1>1
  <2>3. ASSUME NEW i \in 1..Len(r) PROVE r[i] \in {q[j] : j \in 1..Len(q)}
    <3>1. i + 1 \in 1..Len(q) /\ r[i] = q[i + 1]
      BY <1>1
    <3>. QED
      BY <3>1
  <2>. QED
    BY <2>1, <2>2, <2>3
<1>. QED
  BY <1>1, <1>3, <1>6, <1>7 DEF Members, r

(* Writing the event behind what was written keeps the order. *)
LEMMA OrderedSend ==
  ASSUME NEW s \in Seq(Nat), NEW e \in Nat \ {0}, NEW q \in Seq(Nat),
         NEW last \in Int, Ordered(s, e, q, last)
  PROVE  /\ Ordered(Append(s, e), 0, q, last)
         /\ Members(Append(s, e), 0, q) = Members(s, e, q)
<1>. DEFINE r == Append(s, e)
<1>1. /\ Len(r) = Len(s) + 1 /\ Len(q) \in Nat /\ Len(s) \in Nat
      /\ \A i \in 1..Len(s) : r[i] = s[i] /\ s[i] \in Nat
      /\ r[Len(r)] = e /\ Len(r) \in 1..Len(r)
      /\ \A i \in 1..Len(q) : q[i] \in Nat
  BY AppendProperties
<1>2. \A i \in 1..Len(r) : i \in 1..Len(s) \/ i = Len(r)
  BY <1>1
<1>2a. \A i \in 1..Len(s) : i \in 1..Len(r)
  BY <1>1
<1>. HIDE DEF r
<1>3. Increasing(r) /\ AtMost(r, last)
  <2>1. ASSUME NEW i \in 1..Len(r), NEW j \in 1..Len(r), i < j
        PROVE  r[i] < r[j]
    <3>1. i \in 1..Len(s) /\ r[i] = s[i]
      BY <1>1, <2>1
    <3>2. CASE j = Len(r)
      BY <1>1, <3>1, <3>2 DEF Ordered
    <3>3. CASE j \in 1..Len(s)
      BY <1>1, <2>1, <3>1, <3>3 DEF Ordered, Increasing
    <3>. QED
      BY <1>2, <3>2, <3>3
  <2>2. \A i \in 1..Len(r) : r[i] <= last
    BY <1>1, <1>2 DEF Ordered, AtMost
  <2>. QED
    BY <2>1, <2>2 DEF Increasing, AtMost
<1>4. \A i \in 1..Len(r), j \in 1..Len(q) : r[i] < q[j]
  <2>. SUFFICES ASSUME NEW i \in 1..Len(r), NEW j \in 1..Len(q)
                PROVE  r[i] < q[j]
    OBVIOUS
  <2>1. CASE i \in 1..Len(s)
    BY <1>1, <2>1 DEF Ordered
  <2>2. CASE i = Len(r)
    BY <1>1, <2>2 DEF Ordered
  <2>. QED
    BY <1>2, <2>1, <2>2
<1>4b. \A j \in 1..Len(q) : 0 < q[j]
  BY <1>1 DEF Ordered
<1>4a. 0 <= last
  BY DEF Ordered
<1>5. Ordered(r, 0, q, last)
  BY <1>3, <1>4, <1>4a, <1>4b DEF Ordered
<1>6. {r[i] : i \in 1..Len(r)} = {s[i] : i \in 1..Len(s)} \union {e}
  <2>1. ASSUME NEW i \in 1..Len(s) PROVE s[i] \in {r[j] : j \in 1..Len(r)}
    BY <1>1, <1>2a
  <2>2. e \in {r[j] : j \in 1..Len(r)}
    BY <1>1
  <2>3. ASSUME NEW i \in 1..Len(r)
        PROVE  r[i] \in {s[j] : j \in 1..Len(s)} \union {e}
    BY <1>1, <1>2
  <2>. QED
    BY <2>1, <2>2, <2>3
<1>. QED
  BY <1>5, <1>6 DEF Members, r

(* So does dropping the event. *)
LEMMA OrderedDrop ==
  ASSUME NEW s \in Seq(Nat), NEW e \in Nat, NEW q \in Seq(Nat),
         NEW last \in Int, Ordered(s, e, q, last)
  PROVE  Ordered(s, 0, q, last)
<1>1. \A i \in 1..Len(q) : q[i] \in Nat
  OBVIOUS
<1>. QED
  BY <1>1 DEF Ordered

(* When the connection is destroyed only what was written remains. *)
LEMMA OrderedClear ==
  ASSUME NEW s \in Seq(Nat), NEW e \in Nat, NEW q \in Seq(Nat),
         NEW last \in Int, Ordered(s, e, q, last)
  PROVE  Ordered(s, 0, <<>>, last)
<1>1. Len(<<>>) = 0 /\ 0 <= last
  BY DEF Ordered
<1>. QED
  BY <1>1 DEF Ordered, Increasing, AtMost

(* The bound may grow. *)
LEMMA OrderedGrow ==
  ASSUME NEW s \in Seq(Nat), NEW e \in Nat, NEW q \in Seq(Nat),
         NEW last \in Int, Ordered(s, e, q, last), NEW n \in Int, last <= n
  PROVE  Ordered(s, e, q, n)
<1>1. /\ \A i \in 1..Len(q) : q[i] \in Nat
      /\ \A i \in 1..Len(s) : s[i] \in Nat
  OBVIOUS
<1>. QED
  BY <1>1 DEF Ordered, AtMost

(* An ordered stream is strictly increasing from end to end. *)
LEMMA OrderedJoined ==
  ASSUME NEW s \in Seq(Nat), NEW e \in Nat, NEW q \in Seq(Nat),
         NEW last \in Int, Ordered(s, e, q, last)
  PROVE  Increasing(Joined(s, e, q))
<1>. DEFINE m == IF e = 0 THEN <<>> ELSE <<e>>
            r == s \o m
            t == r \o q
<1>1. /\ Len(q) \in Nat /\ Len(s) \in Nat /\ m \in Seq(Nat) /\ r \in Seq(Nat)
      /\ \A i \in 1..Len(q) : q[i] \in Nat
      /\ \A i \in 1..Len(s) : s[i] \in Nat
  OBVIOUS
<1>2. /\ e = 0 => Len(m) = 0
      /\ e # 0 => Len(m) = 1 /\ m[1] = e
  OBVIOUS
<1>3. /\ Len(r) = Len(s) + Len(m)
      /\ \A i \in 1..Len(r) : r[i] = IF i <= Len(s) THEN s[i] ELSE m[i - Len(s)]
  BY <1>1, ConcatProperties
<1>4. /\ Len(t) = Len(r) + Len(q)
      /\ \A i \in 1..Len(t) : t[i] = IF i <= Len(r) THEN r[i] ELSE q[i - Len(r)]
  BY <1>1, ConcatProperties
<1>. HIDE DEF m, r, t
<1>5. ASSUME NEW i \in 1..Len(r)
      PROVE  \/ i <= Len(s) /\ r[i] = s[i] /\ i \in 1..Len(s)
             \/ i > Len(s) /\ r[i] = e /\ e # 0 /\ i = Len(r)
  <2>1. CASE i <= Len(s)
    BY <1>1, <1>3, <2>1
  <2>2. CASE i > Len(s)
    <3>1. e # 0 /\ Len(m) = 1 /\ m[1] = e
      BY <1>1, <1>2, <1>3, <2>2
    <3>2. i - Len(s) = 1
      BY <1>1, <1>3, <2>2, <3>1
    <3>. QED
      BY <1>1, <1>3, <2>2, <3>1, <3>2
  <2>. QED
    BY <1>1, <2>1, <2>2
<1>6. Increasing(r)
  <2>. SUFFICES ASSUME NEW i \in 1..Len(r), NEW j \in 1..Len(r), i < j
                PROVE  r[i] < r[j]
    BY DEF Increasing
  <2>1. i <= Len(s) /\ r[i] = s[i] /\ i \in 1..Len(s)
    BY <1>1, <1>5
  <2>2. CASE j <= Len(s)
    BY <1>1, <1>5, <2>1, <2>2 DEF Ordered, Increasing
  <2>3. CASE j > Len(s)
    <3>1. r[j] = e /\ e # 0
      BY <1>1, <1>5, <2>3
    <3>2. s[i] < e
      BY <2>1, <3>1 DEF Ordered
    <3>. QED
      BY <2>1, <3>1, <3>2
  <2>. QED
    BY <1>1, <2>2, <2>3
<1>7. \A i \in 1..Len(r), j \in 1..Len(q) : r[i] < q[j] /\ r[i] \in Nat
  BY <1>1, <1>5 DEF Ordered
<1>8. \A i \in 1..Len(t) : IF i <= Len(r) THEN t[i] = r[i] /\ i \in 1..Len(r)
                            ELSE t[i] = q[i - Len(r)] /\ i - Len(r) \in 1..Len(q)
  BY <1>1, <1>2, <1>3, <1>4
<1>9. Increasing(t)
  <2>. SUFFICES ASSUME NEW i \in 1..Len(t), NEW j \in 1..Len(t), i < j
                PROVE  t[i] < t[j]
    BY DEF Increasing
  <2>1. CASE j <= Len(r)
    <3>1. /\ i \in 1..Len(r) /\ t[i] = r[i]
          /\ j \in 1..Len(r) /\ t[j] = r[j]
      <4>1. Len(r) \in Nat
        BY <1>1
      <4>. QED
        BY <1>8, <2>1, <4>1
    <3>. QED
      BY <1>6, <3>1 DEF Increasing
  <2>2. CASE i <= Len(r) /\ ~(j <= Len(r))
    BY <1>7, <1>8, <2>2
  <2>3. CASE ~(i <= Len(r)) /\ ~(j <= Len(r))
    <3>1. i - Len(r) < j - Len(r)
      BY <1>1, <1>2, <1>3
    <3>. QED
      BY <1>8, <2>3, <3>1 DEF Ordered, Increasing
  <2>. QED
    BY <2>1, <2>2, <2>3, <1>1, <1>2, <1>3
<1>. QED
  BY <1>9 DEF Joined, t, r, m

(* The messages in a joined stream are those of its parts. *)
LEMMA MembersJoined ==
  ASSUME NEW s \in Seq(Nat), NEW e \in Nat, NEW q \in Seq(Nat)
  PROVE  {Joined(s, e, q)[i] : i \in 1..Len(Joined(s, e, q))} = Members(s, e, q)
<1>. DEFINE m == IF e = 0 THEN <<>> ELSE <<e>>
            r == s \o m
            t == r \o q
<1>1. Len(q) \in Nat /\ Len(s) \in Nat /\ m \in Seq(Nat) /\ r \in Seq(Nat)
  OBVIOUS
<1>2. /\ e = 0 => Len(m) = 0
      /\ e # 0 => Len(m) = 1 /\ m[1] = e
  OBVIOUS
<1>3. /\ Len(r) = Len(s) + Len(m)
      /\ \A i \in 1..Len(r) : r[i] = IF i <= Len(s) THEN s[i] ELSE m[i - Len(s)]
  BY <1>1, ConcatProperties
<1>4. /\ Len(t) = Len(r) + Len(q)
      /\ \A i \in 1..Len(t) : t[i] = IF i <= Len(r) THEN r[i] ELSE q[i - Len(r)]
  BY <1>1, ConcatProperties
<1>. HIDE DEF m, r, t
<1>5. Len(r) \in Nat /\ Len(m) \in Nat
  BY <1>1
<1>6. ASSUME NEW i \in 1..Len(t) PROVE t[i] \in Members(s, e, q)
  <2>1. CASE i <= Len(s)
    <3>1. t[i] = s[i] /\ i \in 1..Len(s)
      BY <1>1, <1>3, <1>4, <1>5, <2>1
    <3>. QED
      BY <3>1 DEF Members
  <2>2. CASE i > Len(s) /\ i <= Len(r)
    <3>1. e # 0 /\ Len(m) = 1 /\ m[1] = e
      BY <1>1, <1>2, <1>3, <2>2
    <3>2. i - Len(s) = 1
      BY <1>1, <1>3, <2>2, <3>1
    <3>3. t[i] = m[i - Len(s)]
      BY <1>1, <1>3, <1>4, <2>2
    <3>. QED
      BY <3>1, <3>2, <3>3 DEF Members
  <2>3. CASE i > Len(r)
    <3>1. t[i] = q[i - Len(r)] /\ i - Len(r) \in 1..Len(q)
      BY <1>1, <1>4, <1>5, <2>3
    <3>. QED
      BY <3>1 DEF Members
  <2>. QED
    BY <1>1, <1>5, <2>1, <2>2, <2>3
<1>7. ASSUME NEW i \in 1..Len(s) PROVE s[i] \in {t[j] : j \in 1..Len(t)}
  <2>1. i \in 1..Len(t) /\ t[i] = s[i]
    BY <1>1, <1>3, <1>4, <1>5
  <2>. QED
    BY <2>1
<1>8. ASSUME e # 0 PROVE e \in {t[j] : j \in 1..Len(t)}
  <2>1. Len(m) = 1 /\ m[1] = e
    BY <1>2, <1>8
  <2>2. Len(s) + 1 \in 1..Len(t) /\ Len(s) + 1 \in 1..Len(r)
    BY <1>1, <1>3, <1>4, <2>1
  <2>3. t[Len(s) + 1] = r[Len(s) + 1] /\ r[Len(s) + 1] = m[1]
    BY <1>1, <1>3, <1>4, <2>1, <2>2
  <2>. QED
    BY <2>1, <2>2, <2>3
<1>9. ASSUME NEW i \in 1..Len(q) PROVE q[i] \in {t[j] : j \in 1..Len(t)}
  <2>. DEFINE k == Len(r) + i
  <2>1. k \in 1..Len(t) /\ k > Len(r) /\ k - Len(r) = i
    BY <1>1, <1>4, <1>5
  <2>2. ~(k <= Len(r))
    BY <1>5, <2>1
  <2>3. t[k] = IF k <= Len(r) THEN r[k] ELSE q[k - Len(r)]
    <3>. HIDE DEF k
    <3>. QED
      BY <1>4, <2>1
  <2>4. t[k] = q[i]
    <3>. HIDE DEF k
    <3>. QED
      BY <2>1, <2>2, <2>3
  <2>. QED
    BY <2>1, <2>4
<1>10. {t[i] : i \in 1..Len(t)} = Members(s, e, q)
  BY <1>6, <1>7, <1>8, <1>9 DEF Members
<1>. QED
  BY <1>10 DEF Joined, t, r, m

(* Queueing adds one message. *)
LEMMA MembersEnqueue ==
  ASSUME NEW s \in Seq(Nat), NEW e \in Nat, NEW q \in Seq(Nat), NEW n \in Nat
  PROVE  Members(s, e, Append(q, n)) = Members(s, e, q) \union {n}
<1>. DEFINE r == Append(q, n)
<1>1. /\ Len(r) = Len(q) + 1 /\ Len(q) \in Nat
      /\ \A i \in 1..Len(q) : r[i] = q[i]
      /\ r[Len(r)] = n
  BY AppendProperties
<1>. HIDE DEF r
<1>2. ASSUME NEW i \in 1..Len(r) PROVE r[i] \in {q[j] : j \in 1..Len(q)} \union {n}
  BY <1>1
<1>3. ASSUME NEW i \in 1..Len(q) PROVE q[i] \in {r[j] : j \in 1..Len(r)}
  BY <1>1
<1>4. n \in {r[j] : j \in 1..Len(r)}
  BY <1>1
<1>. QED
  BY <1>2, <1>3, <1>4 DEF Members, r

(* No message of an ordered stream is beyond the bound. *)
LEMMA MembersBound ==
  ASSUME NEW s \in Seq(Nat), NEW e \in Nat, NEW q \in Seq(Nat),
         NEW last \in Int, Ordered(s, e, q, last), NEW x \in Members(s, e, q)
  PROVE  x <= last
BY DEF Members, Ordered, AtMost

(* The stream of connection c in these terms. *)
LEMMA StreamJoined ==
  ASSUME NEW c \in Conns
  PROVE  Stream(c) = Joined(sent[c], event[c], queue[c])
BY DEF Stream, Event, Joined

-----------------------------------------------------------------------------
(***************************************************************************)
(* The invariant and the theorems.                                         *)
(***************************************************************************)

USE RelayAssumption
USE DEF RelayAssumption, Unlocked, Unlock, Consume, IsSubscribed, Post

LEMMA InitIInv == Init => IInv
<1>. SUFFICES ASSUME Init PROVE IInv
  OBVIOUS
<1>1. TypeOK
  BY DEF Init, TypeOK, RecvState, WorkState, PeerState, Gone, Entry
<1>2. LockInv
  BY DEF Init, LockInv
<1>3. RegistryInv
  BY DEF Init, RegistryInv, StartTouchesLive
<1>4. ThreadInv
  BY DEF Init, ThreadInv, SemaphoreMatchesQueue
<1>5. OrderInv
  BY DEF Init, OrderInv, Ordered, Reached, Increasing, AtMost
<1>6. PublisherInv
  BY DEF Init, PublisherInv, PublisherOrder
<1>7. DeliveryInv
  BY DEF Init, DeliveryInv, ExactDelivery
<1>. QED
  BY <1>1, <1>2, <1>3, <1>4, <1>5, <1>6, <1>7 DEF IInv

(* A step is a step of one of the three threads of a connection, of its    *)
(* client, or the failure of accept().                                     *)
LEMMA TypeStep == IInv /\ [Next]_vars => TypeOK'
<1>. SUFFICES ASSUME IInv, [Next]_vars PROVE TypeOK'
  OBVIOUS
<1>0. TypeOK
  BY DEF IInv
<1>a. /\ recv \in [Conns -> RecvState] /\ work \in [Conns -> WorkState]
      /\ peer \in [Conns -> PeerState] /\ clients \subseteq Conns
      /\ process \in {"up", "exited", "aborted", "killed", "corrupted"}
  BY <1>0 DEF TypeOK
<1>b. /\ request \in [Conns -> PublishFrame \union {NoRequest}]
      /\ subs \in [Conns -> SUBSET Classes]
  BY <1>0 DEF TypeOK
<1>c. queue \in [Conns -> Seq(Nat)] /\ sent \in [Conns -> Seq(Nat)]
  BY <1>0 DEF TypeOK
<1>d. /\ sem \in [Conns -> Nat] /\ event \in [Conns -> Nat]
      /\ unread \in [Conns -> Nat] /\ frames \in [Conns -> Nat]
      /\ since \in [Conns -> Nat]
  BY <1>0 DEF TypeOK
<1>e. log \in Seq(Entry) /\ Len(log) \in Nat
  BY <1>0 DEF TypeOK
<1>1. CASE UNCHANGED vars
  BY <1>0, <1>1 DEF TypeOK, vars, sockVars, queueVars, passVars
<1>2. CASE AcceptFails
  BY <1>0, <1>2 DEF TypeOK, AcceptFails, sockVars, queueVars, passVars
<1>3. ASSUME NEW c \in Conns, Listen(c) PROVE TypeOK'
  <2>1. CASE Accept(c)
    <3>1. /\ recv' \in [Conns -> RecvState] /\ work' \in [Conns -> WorkState]
          /\ peer' \in [Conns -> PeerState]
      BY <1>a, <2>1 DEF Accept, RecvState, WorkState, PeerState, Gone
    <3>. QED
      BY <1>0, <2>1, <3>1 DEF TypeOK, Accept, queueVars, passVars
  <2>2. CASE AcceptNoWorker(c)
    <3>1. /\ recv' \in [Conns -> RecvState] /\ work' \in [Conns -> WorkState]
          /\ peer' \in [Conns -> PeerState]
      BY <1>a, <2>2 DEF AcceptNoWorker, RecvState, WorkState, PeerState, Gone
    <3>. QED
      BY <1>0, <2>2, <3>1 DEF TypeOK, AcceptNoWorker, queueVars, passVars
  <2>2a. CASE AcceptNoReceiver(c)
    <3>1. recv' \in [Conns -> RecvState] /\ peer' \in [Conns -> PeerState]
      BY <1>a, <2>2a DEF AcceptNoReceiver, RecvState, PeerState, Gone
    <3>. QED
      BY <1>0, <2>2a, <3>1 DEF TypeOK, AcceptNoReceiver, queueVars, passVars
  <2>3. CASE Add(c)
    <3>1. since' \in [Conns -> Nat] /\ clients' \subseteq Conns
      BY <1>a, <1>d, <1>e, <2>3 DEF Add
    <3>. QED
      BY <1>0, <2>3, <3>1 DEF TypeOK, Add, sockVars, queueVars, passVars
  <2>4. CASE Start(c)
    <3>1. recv' \in [Conns -> RecvState] /\ process' \in {"up", "corrupted"}
      BY <1>a, <2>4 DEF Start, RecvState
    <3>. QED
      BY <1>0, <2>4, <3>1 DEF TypeOK, Start, sockVars, queueVars, passVars
  <2>. QED
    BY <1>3, <2>1, <2>2, <2>2a, <2>3, <2>4 DEF Listen
<1>4. ASSUME NEW c \in Conns, NEW f \in Frames, ReadFrame(c, f) PROVE TypeOK'
  <2>0. f \in Frame
    OBVIOUS
  <2>1. request' \in [Conns -> PublishFrame \union {NoRequest}]
    <3>1. CASE f.kind = "publish"
      <4>1. f \in PublishFrame
        BY <2>0, <3>1 DEF Frame, PublishFrame
      <4>. QED
        BY <1>4, <1>b, <3>1, <4>1 DEF ReadFrame
    <3>2. CASE f.kind # "publish"
      BY <1>4, <1>b, <3>2 DEF ReadFrame
    <3>. QED
      BY <3>1, <3>2
  <2>2. subs' \in [Conns -> SUBSET Classes]
    <3>1. CASE f.kind = "setSubscriptions"
      <4>1. f \in [kind : {"setSubscriptions"}, classes : SUBSET Classes]
        BY <2>0, <3>1 DEF Frame, PublishFrame
      <4>. QED
        BY <1>4, <1>b, <3>1, <4>1 DEF ReadFrame
    <3>2. CASE f.kind # "setSubscriptions"
      BY <1>4, <1>b, <3>2 DEF ReadFrame
    <3>. QED
      BY <3>1, <3>2
  <2>3. since' \in [Conns -> Nat]
    BY <1>4, <1>d, <1>e DEF ReadFrame
  <2>4. frames' \in [Conns -> Nat]
    BY <1>4, <1>d DEF ReadFrame
  <2>5. recv' \in [Conns -> RecvState]
    BY <1>4, <1>a DEF ReadFrame, RecvState
  <2>6. process' \in {"up", "exited", "aborted", "killed", "corrupted"}
    BY <1>4, <1>a DEF ReadFrame
  <2>. QED
    BY <1>0, <1>4, <2>1, <2>2, <2>3, <2>4, <2>5, <2>6
       DEF TypeOK, ReadFrame, sockVars, queueVars, passVars
<1>5. ASSUME NEW c \in Conns, ReceiverStep(c) PROVE TypeOK'
  <2>1. CASE ReadEnd(c)
    <3>1. recv' \in [Conns -> RecvState]
      BY <2>1, <1>a DEF ReadEnd, RecvState
    <3>. QED
      BY <1>0, <2>1, <3>1 DEF TypeOK, ReadEnd, sockVars, queueVars, passVars
  <2>2. CASE Count(c)
    <3>1. recv' \in [Conns -> RecvState]
      BY <2>2, <1>a DEF Count, RecvState
    <3>. QED
      BY <1>0, <2>2, <3>1 DEF TypeOK, Count, sockVars, queueVars, passVars
  <2>3. CASE BeginBroadcast(c)
    <3>1. request[c] \in PublishFrame
      BY <2>3 DEF BeginBroadcast, IInv, ThreadInv
    <3>2. log' \in Seq(Entry)
      BY <1>d, <1>e, <2>3, <3>1 DEF BeginBroadcast, Entry, PublishFrame
    <3>3. recv' \in [Conns -> RecvState]
      BY <2>3, <1>a DEF BeginBroadcast, RecvState
    <3>4. request' \in [Conns -> PublishFrame \union {NoRequest}]
      BY <2>3, <1>b DEF BeginBroadcast
    <3>. QED
      BY <1>0, <2>3, <3>2, <3>3, <3>4
         DEF TypeOK, BeginBroadcast, sockVars, queueVars
  <2>4. CASE Enqueue(c)
    <3>1. target \in Conns
      BY <1>0, <2>4 DEF TypeOK, Enqueue, IInv, LockInv
    <3>2. queue' \in [Conns -> Seq(Nat)]
      BY <1>c, <1>e, <2>4, <3>1 DEF Enqueue
    <3>3. sem' \in [Conns -> Nat]
      BY <1>d, <2>4, <3>1 DEF Enqueue
    <3>4. recv' \in [Conns -> RecvState]
      BY <1>a, <2>4 DEF Enqueue, RecvState
    <3>. QED
      BY <1>0, <2>4, <3>2, <3>3, <3>4 DEF TypeOK, Enqueue, sockVars
  <2>5. CASE EndBroadcast(c)
    <3>1. recv' \in [Conns -> RecvState]
      BY <2>5, <1>a DEF EndBroadcast, RecvState
    <3>. QED
      BY <1>0, <2>5, <3>1 DEF TypeOK, EndBroadcast, sockVars, queueVars
  <2>6. CASE Cleanup(c)
    <3>1. clients' \subseteq Conns
      BY <1>a, <2>6 DEF Cleanup
    <3>2. recv' \in [Conns -> RecvState] /\ work' \in [Conns -> WorkState]
      BY <1>a, <2>6 DEF Cleanup, RecvState, WorkState
    <3>3. queue' \in [Conns -> Seq(Nat)]
      BY <1>c, <2>6 DEF Cleanup
    <3>4. sem' \in [Conns -> Nat] /\ event' \in [Conns -> Nat]
      BY <1>d, <2>6 DEF Cleanup
    <3>5. subs' \in [Conns -> SUBSET Classes]
      BY <1>b, <2>6 DEF Cleanup
    <3>. QED
      BY <1>0, <2>6, <3>1, <3>2, <3>3, <3>4, <3>5
         DEF TypeOK, Cleanup, sockVars, passVars
  <2>7. ASSUME NEW d \in Conns, Visit(c, d) PROVE TypeOK'
    <3>1. recv' \in [Conns -> RecvState]
      BY <2>7, <1>a DEF Visit, RecvState
    <3>. QED
      BY <1>0, <2>7, <3>1 DEF TypeOK, Visit, sockVars, queueVars
  <2>. QED
    BY <1>5, <2>1, <2>2, <2>3, <2>4, <2>5, <2>6, <2>7 DEF ReceiverStep
<1>6. ASSUME NEW c \in Conns, WorkerStep(c) PROVE TypeOK'
  <2>1. CASE WaitForMessage(c)
    <3>1. sem' \in [Conns -> Nat]
      BY <2>1, <1>d DEF WaitForMessage
    <3>2. work' \in [Conns -> WorkState]
      BY <2>1, <1>a DEF WaitForMessage, WorkState
    <3>. QED
      BY <1>0, <2>1, <3>1, <3>2 DEF TypeOK, WaitForMessage, sockVars, passVars
  <2>2. CASE TakeMessage(c)
    <3>1. queue[c] \in Seq(Nat) /\ queue[c] # <<>>
      BY <1>c, <1>d, <2>2
         DEF TakeMessage, IInv, ThreadInv, SemaphoreMatchesQueue
    <3>2. Head(queue[c]) \in Nat /\ Tail(queue[c]) \in Seq(Nat)
      BY <3>1, HeadTailProperties
    <3>3. event' \in [Conns -> Nat]
      BY <2>2, <1>d, <3>2 DEF TakeMessage
    <3>4. queue' \in [Conns -> Seq(Nat)]
      BY <2>2, <1>c, <3>2 DEF TakeMessage
    <3>5. work' \in [Conns -> WorkState]
      BY <2>2, <1>a DEF TakeMessage, WorkState
    <3>. QED
      BY <1>0, <2>2, <3>3, <3>4, <3>5 DEF TypeOK, TakeMessage, sockVars, passVars
  <2>3. CASE SendMessage(c)
    <3>1. event' \in [Conns -> Nat]
      BY <2>3, <1>d DEF SendMessage
    <3>2. work' \in [Conns -> WorkState]
      BY <2>3, <1>a DEF SendMessage, WorkState
    <3>3. sent' \in [Conns -> Seq(Nat)]
      <4>1. sent' = sent \/ sent' = [sent EXCEPT ![c] = Append(@, event[c])]
        BY <2>3 DEF SendMessage, sockVars
      <4>2. Append(sent[c], event[c]) \in Seq(Nat)
        BY <1>c, <1>d
      <4>. QED
        BY <1>c, <4>1, <4>2
    <3>4. unread' \in [Conns -> Nat]
      <4>1. \/ unread' = unread
            \/ unread' = [unread EXCEPT ![c] = unread[c] + 1]
        BY <2>3 DEF SendMessage, sockVars
      <4>2. unread \in [Conns -> Nat]
        BY <1>d
      <4>. QED
        BY <4>1, <4>2
    <3>5. /\ process' \in {"up", "exited", "aborted", "killed", "corrupted"}
          /\ peer' \in [Conns -> PeerState]
      BY <2>3, <1>a DEF SendMessage, sockVars, PeerState, Gone
    <3>. QED
      BY <1>0, <2>3, <3>1, <3>2, <3>3, <3>4, <3>5
         DEF TypeOK, SendMessage, queueVars, passVars
  <2>. QED
    BY <1>6, <2>1, <2>2, <2>3 DEF WorkerStep
<1>7. ASSUME NEW c \in Conns, Environment(c) PROVE TypeOK'
  <2>1. CASE ClientRead(c)
    <3>1. unread' \in [Conns -> Nat]
      BY <2>1, <1>d DEF ClientRead
    <3>. QED
      BY <1>0, <2>1, <3>1 DEF TypeOK, ClientRead, queueVars, passVars
  <2>2. ASSUME NEW from \in PeerState, NEW to \in PeerState, SetPeer(c, from, to)
        PROVE  TypeOK'
    <3>1. peer' \in [Conns -> PeerState]
      BY <2>2, <1>a DEF SetPeer
    <3>. QED
      BY <1>0, <2>2, <3>1 DEF TypeOK, SetPeer, queueVars, passVars
  <2>. QED
    BY <1>7, <2>1, <2>2 DEF Environment, ClientClose, ClientReset, PeerState, Gone
<1>. QED
  BY <1>1, <1>2, <1>3, <1>4, <1>5, <1>6, <1>7 DEF Next

(* The lock's holder and the loop variables of its broadcast.  Only steps  *)
(* of receivers and the registry's changes matter.                         *)
LEMMA LockStep == IInv /\ [Next]_vars => LockInv'
<1>. SUFFICES ASSUME IInv, [Next]_vars PROVE LockInv'
  OBVIOUS
<1>0. /\ LockInv /\ recv \in [Conns -> RecvState] /\ clients \subseteq Conns
      /\ log \in Seq(Entry)
      /\ lock \in Conns \union {NoConn} /\ target \in Conns \union {NoConn}
  BY DEF IInv, TypeOK
<1>a. ASSUME UNCHANGED passVars, recv' = recv, clients \subseteq clients'
      PROVE  LockInv'
  BY <1>0, <1>a DEF LockInv, passVars
<1>b. ASSUME NEW c \in Conns, NEW r \in RecvState, UNCHANGED passVars,
             recv[c] \notin {"visiting", "queueing"},
             r \notin {"visiting", "queueing"},
             recv' = [recv EXCEPT ![c] = r], clients' = clients
      PROVE  LockInv'
  BY <1>0, <1>b DEF LockInv, passVars
<1>1. CASE UNCHANGED vars
  BY <1>1, <1>a DEF vars
<1>2. CASE AcceptFails
  BY <1>2, <1>a DEF AcceptFails
<1>3. ASSUME NEW c \in Conns, Listen(c) PROVE LockInv'
  <2>1. CASE Accept(c) \/ AcceptNoReceiver(c) \/ AcceptNoWorker(c)
    <3>1. recv[c] = "none"
      BY <2>1 DEF Accept, AcceptNoReceiver, AcceptNoWorker, IInv, RegistryInv
    <3>. QED
      BY <1>b, <2>1, <3>1 DEF Accept, AcceptNoReceiver, AcceptNoWorker, RecvState
  <2>2. CASE Add(c)
    BY <1>a, <2>2 DEF Add
  <2>3. CASE Start(c)
    BY <1>a, <1>b, <2>3 DEF Start, RecvState
  <2>. QED
    BY <1>3, <2>1, <2>2, <2>3 DEF Listen
<1>4. ASSUME NEW c \in Conns, NEW f \in Frames, ReadFrame(c, f) PROVE LockInv'
  BY <1>4, <1>a, <1>b DEF ReadFrame, RecvState
<1>5. ASSUME NEW c \in Conns, ReceiverStep(c) PROVE LockInv'
  <2>1. CASE ReadEnd(c)
    BY <1>b, <2>1 DEF ReadEnd, RecvState
  <2>2. CASE Count(c)
    BY <1>b, <2>2 DEF Count, RecvState
  <2>3. CASE BeginBroadcast(c)
    <3>1. lock' = c /\ todo' = clients /\ clients' = clients /\ target' = NoConn
      BY <1>0, <2>3 DEF BeginBroadcast, LockInv
    <3>2. Len(log') > 0
      BY <1>0, <2>3 DEF BeginBroadcast
    <3>3. recv' = [recv EXCEPT ![c] = "visiting"]
      BY <2>3 DEF BeginBroadcast
    <3>4. \A d \in Conns : recv[d] \notin {"visiting", "queueing"}
      BY <1>0, <2>3 DEF BeginBroadcast, LockInv
    <3>. QED
      BY <1>0, <3>1, <3>2, <3>3, <3>4 DEF LockInv
  <2>4. CASE Enqueue(c)
    BY <1>0, <2>4 DEF Enqueue, LockInv
  <2>5. CASE EndBroadcast(c)
    BY <1>0, <2>5 DEF EndBroadcast, LockInv
  <2>6. CASE Cleanup(c)
    <3>1. todo = {} /\ target = NoConn /\ lock = NoConn
      BY <1>0, <2>6 DEF Cleanup, LockInv
    <3>2. \A d \in Conns : recv'[d] \notin {"visiting", "queueing"}
      BY <1>0, <2>6 DEF Cleanup, LockInv
    <3>. QED
      BY <1>0, <2>6, <3>1, <3>2 DEF Cleanup, passVars, LockInv
  <2>7. ASSUME NEW d \in Conns, Visit(c, d) PROVE LockInv'
    BY <1>0, <2>7 DEF Visit, LockInv
  <2>. QED
    BY <1>5, <2>1, <2>2, <2>3, <2>4, <2>5, <2>6, <2>7 DEF ReceiverStep
<1>6. ASSUME NEW c \in Conns, WorkerStep(c) PROVE LockInv'
  BY <1>6, <1>a DEF WorkerStep, WaitForMessage, TakeMessage, SendMessage
<1>7. ASSUME NEW c \in Conns, Environment(c) PROVE LockInv'
  BY <1>7, <1>a DEF Environment, ClientRead, ClientClose, ClientReset, SetPeer
<1>. QED
  BY <1>1, <1>2, <1>3, <1>4, <1>5, <1>6, <1>7 DEF Next

(* What is in the registry is alive, what is outside is not at work. *)
LEMMA RegistryStep == IInv /\ [Next]_vars => RegistryInv'
<1>. SUFFICES ASSUME IInv, [Next]_vars PROVE RegistryInv'
  OBVIOUS
<1>0. RegistryInv
  BY DEF IInv
<1>t. /\ recv \in [Conns -> RecvState] /\ work \in [Conns -> WorkState]
      /\ peer \in [Conns -> PeerState] /\ queue \in [Conns -> Seq(Nat)]
      /\ clients \subseteq Conns /\ newConn \in Conns \union {NoConn}
  BY DEF IInv, TypeOK
<1>a. ASSUME UNCHANGED <<listener, newConn, clients, peer, queue, work>>,
             NEW c \in clients, NEW r \in RecvState,
             recv[c] \notin {"WaitingToStart", "FailedToStart", "destroyed"},
             r \notin {"none", "WaitingToStart", "FailedToStart", "destroyed"},
             recv' = [recv EXCEPT ![c] = r]
      PROVE  RegistryInv'
  BY <1>0, <1>t, <1>a DEF RegistryInv, StartTouchesLive
<1>b. ASSUME UNCHANGED <<listener, newConn, clients, peer, queue, work, recv>>
      PROVE  RegistryInv'
  BY <1>0, <1>b DEF RegistryInv, StartTouchesLive
<1>c. ASSUME NEW c \in Conns, recv[c] \notin {"none", "WaitingToStart",
                                            "FailedToStart", "destroyed"}
      PROVE  c \in clients
  BY <1>0, <1>c DEF RegistryInv, StartTouchesLive
<1>1. CASE UNCHANGED vars
  BY <1>1, <1>b DEF vars, sockVars, queueVars
<1>2. CASE AcceptFails
  BY <1>2, <1>b DEF AcceptFails, sockVars, queueVars
<1>3. ASSUME NEW c \in Conns, Listen(c) PROVE RegistryInv'
  <2>1. CASE Accept(c)
    BY <1>0, <1>t, <2>1 DEF Accept, RegistryInv, StartTouchesLive, queueVars
  <2>2. CASE AcceptNoReceiver(c) \/ AcceptNoWorker(c)
    BY <1>0, <1>t, <2>2 DEF AcceptNoReceiver, AcceptNoWorker, RegistryInv,
                            StartTouchesLive, queueVars
  <2>3. CASE Add(c)
    BY <1>0, <1>t, <2>3 DEF Add, RegistryInv, StartTouchesLive, queueVars, sockVars
  <2>4. CASE Start(c)
    BY <1>0, <1>t, <2>4 DEF Start, RegistryInv, StartTouchesLive, queueVars, sockVars
  <2>. QED
    BY <1>3, <2>1, <2>2, <2>3, <2>4 DEF Listen
<1>4. ASSUME NEW c \in Conns, NEW f \in Frames, ReadFrame(c, f)
      PROVE  RegistryInv'
  <2>1. c \in clients
    BY <1>c, <1>4 DEF ReadFrame
  <2>2. \/ recv' = recv
        \/ recv' = [recv EXCEPT ![c] = "counting"]
        \/ recv' = [recv EXCEPT ![c] = "broadcasting"]
    BY <1>4 DEF ReadFrame
  <2>. QED
    BY <1>4, <1>a, <1>b, <2>1, <2>2 DEF ReadFrame, RecvState, queueVars, sockVars
<1>5. ASSUME NEW c \in Conns, ReceiverStep(c) PROVE RegistryInv'
  <2>0. c \in clients
    BY <1>5, <1>c DEF ReceiverStep, ReadEnd, Count, BeginBroadcast, Enqueue,
                      EndBroadcast, Cleanup, Visit
  <2>1. CASE ReadEnd(c) \/ Count(c) \/ BeginBroadcast(c) \/ EndBroadcast(c)
    BY <1>a, <2>0, <2>1 DEF ReadEnd, Count, BeginBroadcast, EndBroadcast,
                            RecvState, sockVars, queueVars
  <2>2. CASE Enqueue(c)
    <3>1. target \in clients
      BY <2>2 DEF Enqueue, IInv, LockInv
    <3>. QED
      BY <1>0, <1>t, <2>0, <2>2, <3>1
         DEF Enqueue, RegistryInv, StartTouchesLive, sockVars
  <2>3. CASE Cleanup(c)
    BY <1>0, <1>t, <2>0, <2>3 DEF Cleanup, RegistryInv, StartTouchesLive, sockVars
  <2>4. ASSUME NEW d \in Conns, Visit(c, d) PROVE RegistryInv'
    BY <1>a, <1>b, <2>0, <2>4 DEF Visit, RecvState, sockVars, queueVars
  <2>. QED
    BY <1>5, <2>1, <2>2, <2>3, <2>4 DEF ReceiverStep
<1>6. ASSUME NEW c \in Conns, WorkerStep(c) PROVE RegistryInv'
  <2>1. CASE WaitForMessage(c)
    <3>0. sem[c] \in Nat /\ sem[c] > 0 /\ work[c] = "waiting"
      BY <2>1 DEF WaitForMessage, IInv, TypeOK
    <3>1. c \in clients
      <4>1. Len(queue[c]) > 0
        BY <3>0 DEF IInv, ThreadInv, SemaphoreMatchesQueue
      <4>2. queue[c] # <<>>
        BY <4>1
      <4>. QED
        BY <1>0, <4>2 DEF RegistryInv, StartTouchesLive
    <3>. QED
      BY <1>0, <1>t, <2>1, <3>1 DEF WaitForMessage, RegistryInv, StartTouchesLive, sockVars
  <2>2. CASE TakeMessage(c)
    <3>1. c \in clients
      BY <1>0, <2>2 DEF TakeMessage, RegistryInv
    <3>2. \A d \in Conns : d # c => queue'[d] = queue[d] /\ work'[d] = work[d]
      BY <1>t, <2>2 DEF TakeMessage
    <3>3. work'[c] = "sending"
      BY <1>t, <2>2 DEF TakeMessage
    <3>4. UNCHANGED <<listener, newConn, clients, peer, recv>>
      BY <2>2 DEF TakeMessage, sockVars
    <3>. QED
      BY <1>0, <1>t, <3>1, <3>2, <3>3, <3>4 DEF RegistryInv, StartTouchesLive
  <2>3. CASE SendMessage(c)
    <3>1. c \in clients
      BY <1>0, <2>3 DEF SendMessage, RegistryInv
    <3>2. /\ work' = work \/ work' = [work EXCEPT ![c] = "waiting"]
          /\ UNCHANGED <<listener, newConn, clients, queue, recv>>
      BY <2>3 DEF SendMessage, sockVars, queueVars
    <3>3. \A d \in Conns : peer'[d] = "absent" <=> peer[d] = "absent"
      BY <1>t, <2>3 DEF SendMessage, sockVars
    <3>4. /\ \A d \in Conns \ clients : work'[d] = work[d]
          /\ \A d \in clients : work'[d] \in {"waiting", "taking", "sending"}
      BY <1>0, <1>t, <3>1, <3>2 DEF RegistryInv
    <3>. QED
      BY <1>0, <3>2, <3>3, <3>4 DEF RegistryInv, StartTouchesLive
  <2>. QED
    BY <1>6, <2>1, <2>2, <2>3 DEF WorkerStep
<1>7. ASSUME NEW c \in Conns, Environment(c) PROVE RegistryInv'
  BY <1>0, <1>t, <1>7 DEF Environment, ClientRead, ClientClose, ClientReset,
                          SetPeer, RegistryInv, StartTouchesLive,
                          queueVars
<1>. QED
  BY <1>1, <1>2, <1>3, <1>4, <1>5, <1>6, <1>7 DEF Next

(* A worker's event, its semaphore and its queue; a receiver's request. *)
LEMMA ThreadStep == IInv /\ [Next]_vars => ThreadInv'
<1>. SUFFICES ASSUME IInv, [Next]_vars PROVE ThreadInv'
  OBVIOUS
<1>0. ThreadInv
  BY DEF IInv
<1>t. /\ recv \in [Conns -> RecvState] /\ work \in [Conns -> WorkState]
      /\ request \in [Conns -> PublishFrame \union {NoRequest}]
  BY DEF IInv, TypeOK
<1>s. sem \in [Conns -> Nat] /\ event \in [Conns -> Nat]
  BY DEF IInv, TypeOK
<1>q. queue \in [Conns -> Seq(Nat)] /\ log \in Seq(Entry)
  BY DEF IInv, TypeOK
<1>r. \A c \in Conns :
        recv[c] \in {"counting", "broadcasting"} => request[c] \in PublishFrame
  BY <1>0 DEF ThreadInv
<1>w. \A c \in Conns :
        /\ work[c] = "sending" <=> event[c] # 0
        /\ sem[c] + (IF work[c] = "taking" THEN 1 ELSE 0) = Len(queue[c])
  BY <1>0 DEF ThreadInv, SemaphoreMatchesQueue
<1>a. ASSUME UNCHANGED <<work, event, sem, queue>>,
             \A c \in Conns :
               recv'[c] \in {"counting", "broadcasting"}
                 => request'[c] \in PublishFrame
      PROVE  ThreadInv'
  BY <1>w, <1>a DEF ThreadInv, SemaphoreMatchesQueue
<1>b. ASSUME \A c \in Conns :
               recv'[c] \in {"counting", "broadcasting"}
                 => request'[c] \in PublishFrame,
             NEW c \in Conns,
             \A d \in Conns \ {c} :
               /\ work'[d] = work[d] /\ event'[d] = event[d]
               /\ sem'[d] = sem[d] /\ queue'[d] = queue[d],
             work'[c] = "sending" <=> event'[c] # 0,
             sem'[c] + (IF work'[c] = "taking" THEN 1 ELSE 0) = Len(queue'[c])
      PROVE  ThreadInv'
  <2>1. ASSUME NEW d \in Conns
        PROVE  /\ work'[d] = "sending" <=> event'[d] # 0
               /\ sem'[d] + (IF work'[d] = "taking" THEN 1 ELSE 0)
                    = Len(queue'[d])
    BY <1>w, <1>b
  <2>. QED
    BY <1>b, <2>1 DEF ThreadInv, SemaphoreMatchesQueue
<1>1. CASE UNCHANGED vars
  BY <1>r, <1>1, <1>a DEF vars, queueVars
<1>2. CASE AcceptFails
  BY <1>r, <1>2, <1>a DEF AcceptFails, queueVars
<1>3. ASSUME NEW c \in Conns, Listen(c) PROVE ThreadInv'
  <2>1. CASE Accept(c)
    <3>1. work[c] = "none" /\ work'[c] = "waiting" /\ recv'[c] = "WaitingToStart"
      BY <1>t, <2>1 DEF Accept, IInv, RegistryInv
    <3>2. /\ \A d \in Conns \ {c} : work'[d] = work[d] /\ recv'[d] = recv[d]
          /\ UNCHANGED <<event, sem, queue, request>>
      BY <1>t, <2>1 DEF Accept, queueVars
    <3>. QED
      BY <1>b, <1>r, <1>w, <3>1, <3>2
  <2>1a. CASE AcceptNoReceiver(c) \/ AcceptNoWorker(c)
    BY <1>t, <1>r, <1>a, <2>1a DEF AcceptNoReceiver, AcceptNoWorker, queueVars
  <2>2. CASE Add(c)
    BY <1>r, <1>a, <2>2 DEF Add, queueVars
  <2>3. CASE Start(c)
    BY <1>t, <1>r, <1>a, <2>3 DEF Start, queueVars
  <2>. QED
    BY <1>3, <2>1, <2>1a, <2>2, <2>3 DEF Listen
<1>4. ASSUME NEW c \in Conns, NEW f \in Frames, ReadFrame(c, f) PROVE ThreadInv'
  <2>1. f.kind = "publish" => f \in PublishFrame
    BY DEF Frame, PublishFrame
  <2>. QED
    BY <1>4, <1>t, <1>r, <1>a, <2>1 DEF ReadFrame, queueVars
<1>5. ASSUME NEW c \in Conns, ReceiverStep(c) PROVE ThreadInv'
  <2>1. CASE ReadEnd(c) \/ Count(c) \/ BeginBroadcast(c) \/ EndBroadcast(c)
    BY <1>t, <1>r, <1>a, <2>1 DEF ReadEnd, Count, BeginBroadcast, EndBroadcast,
                                  queueVars
  <2>2. CASE Enqueue(c)
    <3>1. target \in Conns
      BY <2>2 DEF Enqueue, IInv, LockInv, TypeOK
    <3>2. Len(queue'[target]) = Len(queue[target]) + 1
      BY <1>q, <2>2, <3>1 DEF Enqueue
    <3>3. sem'[target] = sem[target] + 1 /\ sem[target] \in Nat
      BY <1>s, <2>2, <3>1 DEF Enqueue
    <3>4. \A d \in Conns \ {target} : sem'[d] = sem[d] /\ queue'[d] = queue[d]
      BY <1>s, <1>q, <2>2, <3>1 DEF Enqueue
    <3>5. UNCHANGED <<work, event, request>>
      BY <2>2 DEF Enqueue
    <3>6. \A d \in Conns : recv'[d] = recv[d] \/ recv'[d] = "visiting"
      BY <1>t, <2>2 DEF Enqueue
    <3>7. sem'[target] + (IF work'[target] = "taking" THEN 1 ELSE 0)
            = Len(queue'[target])
      BY <1>w, <3>1, <3>2, <3>3, <3>5
    <3>. QED
      BY <1>b, <1>r, <1>w, <3>1, <3>4, <3>5, <3>6, <3>7
  <2>3. CASE Cleanup(c)
    <3>1. /\ work'[c] = "destroyed" /\ event'[c] = 0 /\ sem'[c] = 0
          /\ queue'[c] = <<>>
          /\ \A d \in Conns \ {c} : /\ work'[d] = work[d] /\ event'[d] = event[d]
                                   /\ sem'[d] = sem[d] /\ queue'[d] = queue[d]
      BY <1>t, <1>s, <1>q, <2>3 DEF Cleanup
    <3>2. \A d \in Conns : recv'[d] \in {"counting", "broadcasting"}
                             => request'[d] \in PublishFrame
      BY <1>t, <1>r, <2>3 DEF Cleanup
    <3>. QED
      BY <1>b, <3>1, <3>2
  <2>4. ASSUME NEW d \in Conns, Visit(c, d) PROVE ThreadInv'
    BY <1>t, <1>r, <1>a, <2>4 DEF Visit, queueVars
  <2>. QED
    BY <1>5, <2>1, <2>2, <2>3, <2>4 DEF ReceiverStep
<1>6. ASSUME NEW c \in Conns, WorkerStep(c) PROVE ThreadInv'
  <2>0. UNCHANGED <<recv, request>>
    BY <1>6 DEF WorkerStep, WaitForMessage, TakeMessage, SendMessage
  <2>1. CASE WaitForMessage(c)
    <3>1. /\ work'[c] = "taking" /\ sem'[c] = sem[c] - 1 /\ queue' = queue
          /\ work[c] = "waiting" /\ event' = event /\ sem[c] \in Nat
      BY <1>t, <1>s, <2>1 DEF WaitForMessage
    <3>2. \A d \in Conns \ {c} : work'[d] = work[d] /\ sem'[d] = sem[d]
      BY <1>t, <1>s, <2>1 DEF WaitForMessage
    <3>. QED
      BY <1>b, <1>r, <1>w, <2>0, <3>1, <3>2
  <2>2. CASE TakeMessage(c)
    <3>1. /\ work[c] = "taking" /\ work'[c] = "sending" /\ sem' = sem
          /\ sem[c] \in Nat /\ queue[c] \in Seq(Nat)
      BY <1>t, <1>s, <1>q, <2>2 DEF TakeMessage
    <3>2. /\ queue[c] # <<>>
          /\ Len(queue[c]) = sem[c] + 1
      BY <1>w, <3>1
    <3>3. Len(queue'[c]) = Len(queue[c]) - 1
      BY <1>q, <2>2, <3>2, HeadTailProperties DEF TakeMessage
    <3>4. event'[c] # 0
      <4>1. event'[c] = queue[c][1] /\ 1 \in 1..Len(queue[c])
        BY <1>s, <2>2, <3>1, <3>2 DEF TakeMessage
      <4>2. event[c] < queue[c][1] /\ event[c] \in Nat
        BY <1>s, <4>1 DEF IInv, OrderInv, Ordered
      <4>. QED
        BY <4>1, <4>2
    <3>5. \A d \in Conns \ {c} : /\ work'[d] = work[d] /\ event'[d] = event[d]
                                 /\ queue'[d] = queue[d]
      BY <1>t, <1>s, <1>q, <2>2 DEF TakeMessage
    <3>. QED
      BY <1>b, <1>r, <2>0, <3>1, <3>2, <3>3, <3>4, <3>5
  <2>3. CASE SendMessage(c)
    <3>1. \/ UNCHANGED <<work, event>>
          \/ /\ work' = [work EXCEPT ![c] = "waiting"]
             /\ event' = [event EXCEPT ![c] = 0]
      BY <2>3 DEF SendMessage
    <3>2. UNCHANGED <<sem, queue>> /\ work[c] = "sending"
      BY <2>3 DEF SendMessage, queueVars
    <3>. QED
      BY <1>t, <1>s, <1>a, <1>b, <1>r, <1>w, <2>0, <3>1, <3>2
  <2>. QED
    BY <1>6, <2>1, <2>2, <2>3 DEF WorkerStep
<1>7. ASSUME NEW c \in Conns, Environment(c) PROVE ThreadInv'
  BY <1>r, <1>a, <1>7 DEF Environment, ClientRead, ClientClose, ClientReset,
                          SetPeer, queueVars
<1>. QED
  BY <1>1, <1>2, <1>3, <1>4, <1>5, <1>6, <1>7 DEF Next

(* Every stream stays in the order of the log. *)
LEMMA OrderStep == IInv /\ [Next]_vars => OrderInv'
<1>. SUFFICES ASSUME IInv, [Next]_vars PROVE OrderInv'
  OBVIOUS
<1>0. \A c \in Conns : Ordered(sent[c], event[c], queue[c], Reached(c))
  BY DEF IInv, OrderInv
<1>q. /\ queue \in [Conns -> Seq(Nat)] /\ sent \in [Conns -> Seq(Nat)]
      /\ log \in Seq(Entry)
  BY DEF IInv, TypeOK
<1>s. event \in [Conns -> Nat]
  BY DEF IInv, TypeOK
<1>n. Len(log) \in Nat /\ \A c \in Conns : Reached(c) \in Int
  BY <1>q DEF Reached
<1>a. ASSUME UNCHANGED <<sent, event, queue>>, Len(log') \in Nat,
             \A c \in Conns : Reached(c) <= Reached(c)'
      PROVE  OrderInv'
  <2>1. \A c \in Conns : Reached(c)' \in Int
    BY <1>a DEF Reached
  <2>. QED
    BY <1>0, <1>q, <1>s, <1>n, <1>a, <2>1, OrderedGrow DEF OrderInv
<1>b. ASSUME UNCHANGED <<sent, event, queue, todo, log>> PROVE OrderInv'
  BY <1>0, <1>b DEF OrderInv, Reached
<1>c. ASSUME UNCHANGED <<todo, log>>, NEW c \in Conns,
             \A d \in Conns \ {c} : /\ sent'[d] = sent[d] /\ event'[d] = event[d]
                                   /\ queue'[d] = queue[d],
             Ordered(sent'[c], event'[c], queue'[c], Reached(c))
      PROVE  OrderInv'
  BY <1>0, <1>c DEF OrderInv, Reached
<1>1. CASE UNCHANGED vars
  BY <1>1, <1>b DEF vars, queueVars, sockVars, passVars
<1>2. CASE AcceptFails
  BY <1>2, <1>b DEF AcceptFails, queueVars, sockVars, passVars
<1>3. ASSUME NEW c \in Conns, Listen(c) PROVE OrderInv'
  BY <1>3, <1>b DEF Listen, Accept, AcceptNoReceiver, AcceptNoWorker, Add, Start,
                    queueVars, sockVars, passVars
<1>4. ASSUME NEW c \in Conns, NEW f \in Frames, ReadFrame(c, f) PROVE OrderInv'
  BY <1>4, <1>b DEF ReadFrame, queueVars, sockVars, passVars
<1>5. ASSUME NEW c \in Conns, ReceiverStep(c) PROVE OrderInv'
  <2>1. CASE ReadEnd(c) \/ Count(c)
    BY <1>b, <2>1 DEF ReadEnd, Count, queueVars, sockVars, passVars
  <2>2. CASE BeginBroadcast(c)
    <3>1. todo = {}
      BY <2>2 DEF BeginBroadcast, IInv, LockInv
    <3>2. Len(log') = Len(log) + 1
      BY <1>q, <2>2 DEF BeginBroadcast
    <3>3. \A d \in Conns : Reached(d) <= Reached(d)'
      BY <1>n, <3>1, <3>2 DEF Reached
    <3>. QED
      BY <1>a, <1>n, <2>2, <3>2, <3>3 DEF BeginBroadcast, queueVars, sockVars
  <2>3. CASE Enqueue(c)
    <3>0. target \in Conns /\ target \in todo
      BY <2>3 DEF Enqueue, IInv, LockInv, TypeOK
    <3>. PICK d \in Conns : d = target
      BY <3>0
    <3>1. d \in todo /\ todo' = todo \ {d} /\ log' = log
      BY <2>3, <3>0 DEF Enqueue
    <3>2. Reached(d) = Len(log) - 1 /\ Reached(d)' = Len(log)
      BY <3>1 DEF Reached
    <3>3. \A e \in Conns \ {d} : Reached(e)' = Reached(e)
      BY <3>1 DEF Reached
    <3>4. /\ queue'[d] = Append(queue[d], Len(log))
          /\ \A e \in Conns \ {d} : queue'[e] = queue[e]
      BY <1>q, <2>3 DEF Enqueue
    <3>5. UNCHANGED <<sent, event>>
      BY <2>3 DEF Enqueue, sockVars
    <3>6. Ordered(sent[d], event[d], queue'[d], Len(log))
      <4>1. Len(log) - 1 \in Int /\ Len(log) - 1 < Len(log)
        BY <1>n
      <4>2. Ordered(sent[d], event[d], queue[d], Len(log) - 1)
        BY <1>0, <3>2
      <4>. QED
        BY <1>q, <1>s, <1>n, <3>4, <4>1, <4>2, OrderedEnqueue
    <3>7. \A e \in Conns : Ordered(sent'[e], event'[e], queue'[e], Reached(e)')
      BY <1>0, <3>2, <3>3, <3>4, <3>5, <3>6
    <3>. QED
      BY <3>7 DEF OrderInv
  <2>4. CASE EndBroadcast(c)
    BY <1>b, <2>4 DEF EndBroadcast, queueVars, sockVars
  <2>5. CASE Cleanup(c)
    <3>1. /\ UNCHANGED <<sent, todo, log>>
          /\ event'[c] = 0 /\ queue'[c] = <<>>
          /\ \A d \in Conns \ {c} : event'[d] = event[d] /\ queue'[d] = queue[d]
      BY <1>q, <1>s, <2>5 DEF Cleanup, sockVars, passVars
    <3>2. Ordered(sent[c], 0, <<>>, Reached(c))
      BY <1>0, <1>q, <1>s, <1>n, OrderedClear
    <3>. QED
      BY <1>c, <3>1, <3>2
  <2>6. ASSUME NEW d \in Conns, Visit(c, d) PROVE OrderInv'
    <3>1. /\ UNCHANGED <<sent, event, queue, log>>
          /\ todo' \subseteq todo
      BY <2>6 DEF Visit, queueVars, sockVars
    <3>2. \A e \in Conns : Reached(e) <= Reached(e)'
      BY <1>n, <3>1 DEF Reached
    <3>. QED
      BY <1>a, <1>n, <3>1, <3>2
  <2>. QED
    BY <1>5, <2>1, <2>2, <2>3, <2>4, <2>5, <2>6 DEF ReceiverStep
<1>6. ASSUME NEW c \in Conns, WorkerStep(c) PROVE OrderInv'
  <2>0. UNCHANGED <<todo, log>>
    BY <1>6 DEF WorkerStep, WaitForMessage, TakeMessage, SendMessage, passVars
  <2>1. CASE WaitForMessage(c)
    BY <1>b, <2>0, <2>1 DEF WaitForMessage, sockVars
  <2>2. CASE TakeMessage(c)
    <3>1. event[c] = 0 /\ queue[c] # <<>>
      <4>1. work[c] = "taking"
        BY <2>2 DEF TakeMessage
      <4>2. event[c] = 0
        BY <4>1 DEF IInv, ThreadInv
      <4>3. sem[c] + 1 = Len(queue[c]) /\ sem[c] \in Nat
        BY <4>1 DEF IInv, ThreadInv, SemaphoreMatchesQueue, TypeOK
      <4>. QED
        BY <4>2, <4>3
    <3>2. Ordered(sent[c], Head(queue[c]), Tail(queue[c]), Reached(c))
      BY <1>0, <1>q, <1>n, <3>1, OrderedTake
    <3>3. /\ event'[c] = Head(queue[c]) /\ queue'[c] = Tail(queue[c])
          /\ \A d \in Conns \ {c} : event'[d] = event[d] /\ queue'[d] = queue[d]
          /\ sent' = sent
      BY <1>q, <1>s, <2>2 DEF TakeMessage, sockVars
    <3>. QED
      BY <1>c, <2>0, <3>2, <3>3
  <2>3. CASE SendMessage(c)
    <3>1. event[c] # 0 /\ queue' = queue
      BY <2>3 DEF SendMessage, queueVars, IInv, ThreadInv
    <3>2. CASE UNCHANGED <<sent, event>>
      BY <1>b, <2>0, <3>1, <3>2
    <3>3. CASE sent' = sent /\ event' = [event EXCEPT ![c] = 0]
      <4>1. Ordered(sent[c], 0, queue[c], Reached(c))
        BY <1>0, <1>q, <1>s, <1>n, OrderedDrop
      <4>2. event'[c] = 0 /\ \A d \in Conns \ {c} : event'[d] = event[d]
        BY <1>s, <3>3
      <4>. QED
        BY <1>c, <2>0, <3>1, <3>3, <4>1, <4>2
    <3>4. CASE /\ sent' = [sent EXCEPT ![c] = Append(@, event[c])]
               /\ event' = [event EXCEPT ![c] = 0]
      <4>1. event[c] \in Nat \ {0}
        BY <1>s, <3>1
      <4>2. Ordered(Append(sent[c], event[c]), 0, queue[c], Reached(c))
        BY <1>0, <1>q, <1>n, <4>1, OrderedSend
      <4>3. /\ event'[c] = 0 /\ sent'[c] = Append(sent[c], event[c])
            /\ \A d \in Conns \ {c} : event'[d] = event[d] /\ sent'[d] = sent[d]
        BY <1>s, <1>q, <3>4
      <4>. QED
        BY <1>c, <2>0, <3>1, <4>2, <4>3
    <3>. QED
      BY <2>3, <3>2, <3>3, <3>4 DEF SendMessage, sockVars
  <2>. QED
    BY <1>6, <2>1, <2>2, <2>3 DEF WorkerStep
<1>7. ASSUME NEW c \in Conns, Environment(c) PROVE OrderInv'
  BY <1>7, <1>b DEF Environment, ClientRead, ClientClose, ClientReset, SetPeer,
                    queueVars, passVars
<1>. QED
  BY <1>1, <1>2, <1>3, <1>4, <1>5, <1>6, <1>7 DEF Next

(* A publisher's messages keep their order: its receiver broadcasts one    *)
(* frame before it reads the next.                                         *)
LEMMA PublisherStep == IInv /\ [Next]_vars => PublisherInv'
<1>. SUFFICES ASSUME IInv, [Next]_vars PROVE PublisherInv'
  OBVIOUS
<1>0. PublisherInv
  BY DEF IInv
<1>t. /\ recv \in [Conns -> RecvState] /\ frames \in [Conns -> Nat]
      /\ log \in Seq(Entry)
  BY DEF IInv, TypeOK
<1>l. /\ Len(log) \in Nat
      /\ \A i \in 1..Len(log) : log[i].from \in Conns /\ log[i].n \in Nat
  <2>1. \A i \in 1..Len(log) : log[i] \in Entry
    BY <1>t
  <2>. QED
    BY <1>t, <2>1 DEF Entry
<1>a. ASSUME UNCHANGED <<log, frames>>,
             \A c \in Conns : recv'[c] \in {"counting", "broadcasting"}
                              => recv[c] \in {"counting", "broadcasting"}
      PROVE  PublisherInv'
  BY <1>0, <1>a DEF PublisherInv, PublisherOrder
<1>1. CASE UNCHANGED vars
  BY <1>1, <1>a DEF vars, passVars
<1>2. CASE AcceptFails
  BY <1>2, <1>a DEF AcceptFails, passVars
<1>3. ASSUME NEW c \in Conns, Listen(c) PROVE PublisherInv'
  BY <1>3, <1>t, <1>a DEF Listen, Accept, AcceptNoReceiver, AcceptNoWorker, Add,
                          Start, passVars
<1>4. ASSUME NEW c \in Conns, NEW f \in Frames, ReadFrame(c, f)
      PROVE  PublisherInv'
  <2>1. /\ log' = log /\ recv[c] = "reading"
        /\ frames'[c] = frames[c] + 1
        /\ \A d \in Conns \ {c} : frames'[d] = frames[d] /\ recv'[d] = recv[d]
    BY <1>t, <1>4 DEF ReadFrame, passVars
  <2>2. PublisherOrder'
    BY <1>0, <2>1 DEF PublisherInv, PublisherOrder
  <2>3. \A d \in Conns : /\ frames[d] \in Nat /\ frames'[d] \in Nat
                          /\ frames[d] <= frames'[d]
    BY <1>t, <2>1
  <2>4. ASSUME NEW i \in 1..Len(log) PROVE log[i].n <= frames'[log[i].from]
    <3>1. log[i].n <= frames[log[i].from]
      BY <1>0 DEF PublisherInv
    <3>. QED
      BY <1>l, <2>3, <3>1
  <2>5. ASSUME NEW d \in Conns, recv'[d] \in {"counting", "broadcasting"},
               NEW i \in 1..Len(log), log[i].from = d
        PROVE  log[i].n < frames'[d]
    <3>1. CASE d = c
      <4>1. log[i].n <= frames[c]
        BY <1>0, <2>5, <3>1 DEF PublisherInv
      <4>. QED
        BY <1>l, <2>1, <2>3, <3>1, <4>1
    <3>2. CASE d # c
      BY <1>0, <2>1, <2>5, <3>2 DEF PublisherInv
    <3>. QED
      BY <3>1, <3>2
  <2>. QED
    BY <2>1, <2>2, <2>4, <2>5 DEF PublisherInv
<1>5. ASSUME NEW c \in Conns, ReceiverStep(c) PROVE PublisherInv'
  <2>1. CASE ReadEnd(c) \/ Count(c) \/ EndBroadcast(c) \/ Enqueue(c)
    BY <1>t, <1>a, <2>1 DEF ReadEnd, Count, EndBroadcast, Enqueue, passVars
  <2>2. CASE Cleanup(c)
    BY <1>t, <1>a, <2>2 DEF Cleanup, passVars
  <2>3. ASSUME NEW d \in Conns, Visit(c, d) PROVE PublisherInv'
    BY <1>t, <1>a, <2>3 DEF Visit, passVars
  <2>4. CASE BeginBroadcast(c)
    <3>. PICK e : /\ log' = Append(log, e)
                  /\ e.from = c /\ e.n = frames[c]
      BY <2>4 DEF BeginBroadcast
    <3>1. /\ frames' = frames /\ recv[c] = "broadcasting"
          /\ recv'[c] = "visiting"
          /\ \A d \in Conns \ {c} : recv'[d] = recv[d]
      BY <1>t, <2>4 DEF BeginBroadcast
    <3>2. /\ Len(log') = Len(log) + 1 /\ log'[Len(log')] = e
          /\ \A i \in 1..Len(log) : log'[i] = log[i]
      BY <1>t, AppendProperties
    <3>3. \A i \in 1..Len(log') : i \in 1..Len(log) \/ i = Len(log')
      BY <1>l, <3>2
    <3>4. \A i \in 1..Len(log) : log[i].from = c => log[i].n < frames[c]
      BY <1>0, <3>1 DEF PublisherInv
    <3>5. PublisherOrder'
      <4>. SUFFICES ASSUME NEW i \in 1..Len(log'), NEW j \in 1..Len(log'),
                           i < j, log'[i].from = log'[j].from
                    PROVE  log'[i].n < log'[j].n
        BY DEF PublisherOrder
      <4>1. i \in 1..Len(log)
        BY <1>l, <3>2
      <4>2. CASE j = Len(log')
        BY <3>2, <3>4, <4>1, <4>2
      <4>3. CASE j \in 1..Len(log)
        BY <1>0, <3>2, <4>1, <4>3 DEF PublisherInv, PublisherOrder
      <4>. QED
        BY <3>3, <4>2, <4>3
    <3>6. \A i \in 1..Len(log') : log'[i].n <= frames'[log'[i].from]
      BY <1>0, <1>t, <3>1, <3>2, <3>3 DEF PublisherInv
    <3>7. ASSUME NEW d \in Conns, recv'[d] \in {"counting", "broadcasting"},
                 NEW i \in 1..Len(log'), log'[i].from = d
          PROVE  log'[i].n < frames'[d]
      <4>1. d # c /\ recv[d] = recv'[d]
        BY <3>1, <3>7
      <4>2. i \in 1..Len(log)
        BY <3>2, <3>3, <3>7, <4>1
      <4>. QED
        BY <1>0, <3>1, <3>2, <3>7, <4>1, <4>2 DEF PublisherInv
    <3>. QED
      BY <3>5, <3>6, <3>7 DEF PublisherInv
  <2>. QED
    BY <1>5, <2>1, <2>2, <2>3, <2>4 DEF ReceiverStep
<1>6. ASSUME NEW c \in Conns, WorkerStep(c) PROVE PublisherInv'
  BY <1>6, <1>a DEF WorkerStep, WaitForMessage, TakeMessage, SendMessage, passVars
<1>7. ASSUME NEW c \in Conns, Environment(c) PROVE PublisherInv'
  BY <1>7, <1>a DEF Environment, ClientRead, ClientClose, ClientReset, SetPeer,
                    passVars
<1>. QED
  BY <1>1, <1>2, <1>3, <1>4, <1>5, <1>6, <1>7 DEF Next

(* ExactDelivery of one connection, with the stream in its three parts. *)
Pending(c) == Members(sent[c], event[c], queue[c])
Delivered(c) ==
  peer[c] = "open" =>
    \A r \in since[c] + 1 .. Len(log) :
      \/ r = Len(log) /\ c \in todo
      \/ r \in Pending(c) <=> log[r].class \in subs[c]

(* Every connected client is delivered what it is subscribed to. *)
LEMMA DeliveryStep == IInv /\ TypeOK' /\ [Next]_vars => DeliveryInv'
<1>. SUFFICES ASSUME IInv, TypeOK', [Next]_vars PROVE DeliveryInv'
  OBVIOUS
<1>t. /\ recv \in [Conns -> RecvState] /\ peer \in [Conns -> PeerState]
      /\ clients \subseteq Conns /\ clients' \subseteq Conns
      /\ subs \in [Conns -> SUBSET Classes]
  BY DEF IInv, TypeOK
<1>q. /\ queue \in [Conns -> Seq(Nat)] /\ sent \in [Conns -> Seq(Nat)]
      /\ event \in [Conns -> Nat]
      /\ queue' \in [Conns -> Seq(Nat)] /\ sent' \in [Conns -> Seq(Nat)]
      /\ event' \in [Conns -> Nat]
  BY DEF IInv, TypeOK
<1>s. log \in Seq(Entry) /\ since \in [Conns -> Nat]
  BY DEF IInv, TypeOK
<1>l. log \in Seq(Entry) /\ Len(log) \in Nat /\ since \in [Conns -> Nat]
  BY <1>s
<1>m. \A c \in Conns : InStream(c) = Pending(c)
  BY <1>q, MembersJoined DEF Pending, InStream, Stream, Event, Joined
<1>n. \A c \in Conns : InStream(c)' = Pending(c)'
  BY <1>q, MembersJoined DEF Pending, InStream, Stream, Event, Joined
<1>d. \A c \in clients : Delivered(c)
  BY <1>t, <1>m DEF IInv, DeliveryInv, ExactDelivery, Delivered
<1>c. \A c \in Conns : recv[c] = "cleanup" => peer[c] \in Gone
  BY DEF IInv, DeliveryInv
<1>g. target # NoConn /\ since[target] < Len(log)
        => log[Len(log)].class \in subs[target]
  BY DEF IInv, DeliveryInv
<1>p. \A c \in Conns : peer[c] = "absent" => c \notin clients
  BY <1>t DEF IInv, RegistryInv
<1>x. ASSUME \A c \in clients' : Delivered(c)' PROVE ExactDelivery'
  BY <1>t, <1>n, <1>x DEF ExactDelivery, Delivered
<1>k. ASSUME NEW c \in clients, log' = log, c \in todo' <=> c \in todo,
             since'[c] = since[c], subs'[c] = subs[c],
             Pending(c)' = Pending(c),
             peer'[c] = "open" => peer[c] = "open"
      PROVE  Delivered(c)'
  BY <1>d, <1>k DEF Delivered
<1>u. ASSUME UNCHANGED <<log, todo, target, since, subs, sent, event, queue>>,
             \A c \in clients' : c \in clients,
             \A c \in clients' : peer'[c] = "open" => peer[c] = "open",
             \A c \in Conns : recv'[c] = "cleanup"
                              => peer'[c] \in Gone
      PROVE  DeliveryInv'
  <2>1. \A c \in Conns : Pending(c)' = Pending(c)
    BY <1>u DEF Pending
  <2>2. \A c \in clients' : Delivered(c)'
    BY <1>t, <1>u, <1>k, <2>1
  <2>. QED
    BY <1>u, <1>x, <1>g, <2>2 DEF DeliveryInv
<1>1. CASE UNCHANGED vars
  BY <1>1, <1>c, <1>u DEF vars, passVars, sockVars, queueVars
<1>2. CASE AcceptFails
  BY <1>2, <1>c, <1>u DEF AcceptFails, passVars, sockVars, queueVars
<1>3. ASSUME NEW c \in Conns, Listen(c) PROVE DeliveryInv'
  <2>1. CASE Accept(c) \/ AcceptNoReceiver(c) \/ AcceptNoWorker(c)
    <3>1. c \notin clients /\ clients' = clients
      BY <1>p, <2>1 DEF Accept, AcceptNoReceiver, AcceptNoWorker
    <3>2. \A d \in Conns \ {c} : peer'[d] = peer[d] /\ recv'[d] = recv[d]
      BY <1>t, <2>1 DEF Accept, AcceptNoReceiver, AcceptNoWorker
    <3>3. recv'[c] # "cleanup"
      BY <1>t, <2>1 DEF Accept, AcceptNoReceiver, AcceptNoWorker
    <3>4. UNCHANGED <<log, todo, target, since, subs, sent, event, queue>>
      BY <2>1 DEF Accept, AcceptNoReceiver, AcceptNoWorker, passVars, queueVars
    <3>. QED
      BY <1>t, <1>c, <1>u, <3>1, <3>2, <3>3, <3>4
  <2>2. CASE Add(c)
    <3>1. /\ UNCHANGED <<log, todo, target, subs, sent, event, queue, peer, recv>>
          /\ clients' = clients \union {c} /\ target = NoConn
      BY <2>2 DEF Add, passVars, queueVars, sockVars, IInv, LockInv
    <3>2. /\ since'[c] = Len(log)
          /\ \A d \in Conns \ {c} : since'[d] = since[d]
      BY <1>l, <2>2 DEF Add
    <3>3. \A d \in Conns : Pending(d)' = Pending(d)
      BY <3>1 DEF Pending
    <3>4. \A d \in clients \ {c} : Delivered(d)'
      BY <1>t, <1>k, <3>1, <3>2, <3>3
    <3>5. Delivered(c)'
      BY <1>l, <3>1, <3>2 DEF Delivered
    <3>6. \A d \in clients' : Delivered(d)'
      BY <3>1, <3>4, <3>5
    <3>. QED
      BY <1>c, <1>x, <3>1, <3>6 DEF DeliveryInv
  <2>3. CASE Start(c)
    <3>1. \A d \in Conns : recv'[d] = recv[d] \/ recv'[d] = "reading"
      BY <1>t, <2>3 DEF Start
    <3>. QED
      BY <1>c, <1>u, <2>3, <3>1 DEF Start, passVars, queueVars, sockVars
  <2>. QED
    BY <1>3, <2>1, <2>2, <2>3 DEF Listen
<1>4. ASSUME NEW c \in Conns, NEW f \in Frames, ReadFrame(c, f)
      PROVE  DeliveryInv'
  <2>1. /\ UNCHANGED <<log, todo, target, sent, event, queue, peer, clients>>
        /\ \A d \in Conns : recv'[d] \in {recv[d], "counting", "broadcasting"}
    BY <1>t, <1>4 DEF ReadFrame, passVars, queueVars, sockVars
  <2>2. CASE UNCHANGED <<subs, since>>
    BY <1>c, <1>u, <2>1, <2>2
  <2>3. CASE subs' = [subs EXCEPT ![c] = f.classes]
             /\ since' = [since EXCEPT ![c] = Len(log)]
    <3>1. /\ since'[c] = Len(log)
          /\ \A d \in Conns \ {c} : since'[d] = since[d] /\ subs'[d] = subs[d]
      BY <1>l, <1>t, <2>3
    <3>2. \A d \in Conns : Pending(d)' = Pending(d)
      BY <2>1 DEF Pending
    <3>3. \A d \in clients \ {c} : Delivered(d)'
      BY <1>t, <1>k, <2>1, <3>1, <3>2
    <3>4. Delivered(c)'
      BY <1>l, <2>1, <3>1 DEF Delivered
    <3>5. \A d \in clients' : Delivered(d)'
      BY <2>1, <3>3, <3>4
    <3>6. target' # NoConn /\ since'[target'] < Len(log')
            => log'[Len(log')].class \in subs'[target']
      <4>1. target \in Conns \union {NoConn}
        BY DEF IInv, TypeOK
      <4>. QED
        BY <1>g, <1>l, <2>1, <3>1, <4>1
    <3>. QED
      BY <1>c, <1>x, <2>1, <3>5, <3>6 DEF DeliveryInv
  <2>. QED
    BY <1>4, <2>2, <2>3 DEF ReadFrame
<1>5. ASSUME NEW c \in Conns, ReceiverStep(c) PROVE DeliveryInv'
  <2>1. CASE ReadEnd(c)
    <3>1. /\ UNCHANGED <<log, todo, target, since, subs, sent, event, queue,
                         peer, clients>>
          /\ peer[c] \in Gone
          /\ \A d \in Conns \ {c} : recv'[d] = recv[d]
      BY <1>t, <2>1 DEF ReadEnd, passVars, queueVars, sockVars
    <3>. QED
      BY <1>c, <1>u, <3>1
  <2>2. CASE Count(c) \/ EndBroadcast(c)
    <3>1. /\ UNCHANGED <<log, todo, target, since, subs, sent, event, queue,
                         peer, clients>>
          /\ \A d \in Conns : recv'[d] = recv[d] \/ recv'[d] # "cleanup"
      <4>1. CASE Count(c)
        BY <1>t, <4>1 DEF Count, passVars, queueVars, sockVars
      <4>2. CASE EndBroadcast(c)
        <5>1. target = NoConn
          BY <4>2 DEF EndBroadcast, IInv, LockInv
        <5>. QED
          BY <1>t, <4>2 DEF EndBroadcast, queueVars, sockVars
      <4>. QED
        BY <2>2, <4>1, <4>2
    <3>. QED
      BY <1>c, <1>u, <3>1
  <2>3. CASE BeginBroadcast(c)
    <3>1. /\ todo = {} /\ target' = NoConn /\ todo' = clients
          /\ UNCHANGED <<since, subs, sent, event, queue, peer, clients>>
      BY <2>3 DEF BeginBroadcast, queueVars, sockVars, IInv, LockInv
    <3>2. /\ Len(log') = Len(log) + 1
          /\ \A i \in 1..Len(log) : log'[i] = log[i]
      BY <1>l, <2>3, AppendProperties DEF BeginBroadcast
    <3>3. \A d \in Conns : recv'[d] = recv[d] \/ recv'[d] = "visiting"
      BY <1>t, <2>3 DEF BeginBroadcast
    <3>4. ASSUME NEW d \in clients PROVE Delivered(d)'
      <4>. SUFFICES ASSUME peer[d] = "open",
                           NEW r \in since[d] + 1 .. Len(log'), r # Len(log')
                    PROVE  r \in Pending(d)' <=> log'[r].class \in subs[d]
        BY <3>1 DEF Delivered
      <4>1. r \in since[d] + 1 .. Len(log) /\ r \in 1..Len(log)
        BY <1>t, <1>l, <3>2
      <4>2. r \in Pending(d) <=> log[r].class \in subs[d]
        BY <1>d, <3>1, <4>1 DEF Delivered
      <4>3. Pending(d)' = Pending(d)
        BY <3>1 DEF Pending
      <4>. QED
        BY <3>2, <4>1, <4>2, <4>3
    <3>. QED
      BY <1>c, <1>x, <3>1, <3>3, <3>4 DEF DeliveryInv
  <2>4. ASSUME NEW d \in Conns, Visit(c, d) PROVE DeliveryInv'
    <3>1. /\ UNCHANGED <<log, since, subs, sent, event, queue, peer, clients>>
          /\ d \in todo /\ d \in clients
      BY <2>4 DEF Visit, queueVars, sockVars, IInv, LockInv
    <3>2. \A e \in Conns : recv'[e] = recv[e] \/ recv'[e] = "queueing"
      BY <1>t, <2>4 DEF Visit
    <3>3. \A e \in Conns : Pending(e)' = Pending(e)
      BY <3>1 DEF Pending
    <3>4. CASE log[Len(log)].class \in subs[d]
      <4>1. todo' = todo /\ target' = d
        BY <2>4, <3>4 DEF Visit
      <4>2. \A e \in clients' : Delivered(e)'
        BY <1>t, <1>k, <3>1, <3>3, <4>1
      <4>. QED
        BY <1>c, <1>x, <3>1, <3>2, <3>4, <4>1, <4>2 DEF DeliveryInv
    <3>5. CASE log[Len(log)].class \notin subs[d]
      <4>1. todo' = todo \ {d} /\ target' = target
        BY <2>4, <3>5 DEF Visit
      <4>2. \A e \in clients \ {d} : Delivered(e)'
        BY <1>t, <1>k, <3>1, <3>3, <4>1
      <4>3. Len(log) \notin Pending(d)
        <5>1. Ordered(sent[d], event[d], queue[d], Len(log) - 1)
          BY <3>1 DEF IInv, OrderInv, Reached
        <5>2. \A x \in Pending(d) : x <= Len(log) - 1
          BY <1>q, <1>l, <5>1, MembersBound DEF Pending
        <5>. QED
          BY <1>l, <5>2
      <4>4. Delivered(d)'
        <5>. SUFFICES ASSUME peer[d] = "open",
                             NEW r \in since[d] + 1 .. Len(log)
                      PROVE  r \in Pending(d) <=> log[r].class \in subs[d]
          BY <3>1, <3>3 DEF Delivered
        <5>1. CASE r = Len(log)
          BY <3>5, <4>3, <5>1
        <5>2. CASE r # Len(log)
          BY <1>d, <3>1, <5>2 DEF Delivered
        <5>. QED
          BY <5>1, <5>2
      <4>5. \A e \in clients' : Delivered(e)'
        BY <3>1, <4>2, <4>4
      <4>. QED
        BY <1>c, <1>g, <1>x, <3>1, <3>2, <4>1, <4>5 DEF DeliveryInv
    <3>. QED
      BY <3>4, <3>5
  <2>5. CASE Enqueue(c)
    <3>0. target \in clients /\ target # NoConn
      BY <1>t, <2>5 DEF Enqueue, IInv, LockInv
    <3>. PICK d \in clients : d = target
      BY <3>0
    <3>1. /\ UNCHANGED <<log, since, subs, sent, event, peer, clients>>
          /\ todo' = todo \ {d} /\ target' = NoConn
      BY <2>5 DEF Enqueue, sockVars
    <3>2. /\ queue'[d] = Append(queue[d], Len(log))
          /\ \A e \in Conns \ {d} : queue'[e] = queue[e]
      BY <1>q, <1>t, <2>5 DEF Enqueue
    <3>3. \A e \in Conns : recv'[e] = recv[e] \/ recv'[e] = "visiting"
      BY <1>t, <2>5 DEF Enqueue
    <3>4. \A e \in clients \ {d} : Delivered(e)'
      <4>1. \A e \in clients \ {d} : Pending(e)' = Pending(e)
        BY <1>t, <3>1, <3>2 DEF Pending
      <4>. QED
        BY <1>t, <1>k, <3>1, <4>1
    <3>5. Pending(d)' = Pending(d) \union {Len(log)}
      BY <1>t, <1>q, <1>l, <3>1, <3>2, MembersEnqueue DEF Pending
    <3>6. Delivered(d)'
      <4>. SUFFICES ASSUME peer[d] = "open",
                           NEW r \in since[d] + 1 .. Len(log)
                    PROVE  r \in Pending(d)' <=> log[r].class \in subs[d]
        BY <3>1 DEF Delivered
      <4>1. CASE r = Len(log)
        <5>1. since[d] < Len(log)
          BY <1>t, <1>l, <4>1
        <5>. QED
          BY <1>g, <3>0, <3>5, <4>1, <5>1
      <4>2. CASE r # Len(log)
        BY <1>d, <3>5, <4>2 DEF Delivered
      <4>. QED
        BY <4>1, <4>2
    <3>7. \A e \in clients' : Delivered(e)'
      BY <3>1, <3>4, <3>6
    <3>. QED
      BY <1>c, <1>x, <3>1, <3>3, <3>7 DEF DeliveryInv
  <2>6. CASE Cleanup(c)
    <3>1. UNCHANGED <<log, todo, target, since, sent, peer>> /\ target = NoConn
      BY <2>6 DEF Cleanup, passVars, sockVars, IInv, LockInv
    <3>2. \A d \in clients' : /\ d \in clients /\ queue'[d] = queue[d]
                              /\ event'[d] = event[d] /\ subs'[d] = subs[d]
      BY <1>t, <1>q, <2>6 DEF Cleanup
    <3>3. \A d \in Conns : recv'[d] = recv[d] \/ recv'[d] = "destroyed"
      BY <1>t, <2>6 DEF Cleanup
    <3>4. \A d \in clients' : Pending(d)' = Pending(d)
      BY <3>1, <3>2 DEF Pending
    <3>5. \A d \in clients' : Delivered(d)'
      BY <1>k, <3>1, <3>2, <3>4
    <3>. QED
      BY <1>c, <1>x, <3>1, <3>3, <3>5 DEF DeliveryInv
  <2>. QED
    BY <1>5, <2>1, <2>2, <2>3, <2>4, <2>5, <2>6 DEF ReceiverStep
<1>6. ASSUME NEW c \in Conns, WorkerStep(c) PROVE DeliveryInv'
  <2>0. /\ UNCHANGED <<log, todo, target, since, subs, clients, recv>>
        /\ \A d \in Conns : /\ peer'[d] = "open" => peer[d] = "open"
                            /\ peer[d] \in Gone => peer'[d] \in Gone
    BY <1>t, <1>6 DEF WorkerStep, WaitForMessage, TakeMessage, SendMessage, passVars,
                      sockVars, Gone
  <2>a. ASSUME \A d \in clients : Delivered(d)' PROVE DeliveryInv'
    BY <1>c, <1>g, <1>x, <2>0, <2>a DEF DeliveryInv
  <2>1. CASE WaitForMessage(c)
    BY <1>c, <1>u, <2>0, <2>1 DEF WaitForMessage, sockVars
  <2>2. CASE TakeMessage(c)
    <3>1. event[c] = 0 /\ queue[c] # <<>>
      <4>1. work[c] = "taking"
        BY <2>2 DEF TakeMessage
      <4>2. event[c] = 0
        BY <4>1 DEF IInv, ThreadInv
      <4>3. sem[c] + 1 = Len(queue[c]) /\ sem[c] \in Nat
        BY <4>1 DEF IInv, ThreadInv, SemaphoreMatchesQueue, TypeOK
      <4>. QED
        BY <4>2, <4>3
    <3>2. /\ event'[c] = Head(queue[c]) /\ queue'[c] = Tail(queue[c])
          /\ \A d \in Conns \ {c} : event'[d] = event[d] /\ queue'[d] = queue[d]
          /\ sent' = sent
      BY <1>q, <2>2 DEF TakeMessage, sockVars
    <3>3. Pending(c)' = Pending(c)
      <4>1. Ordered(sent[c], 0, queue[c], Reached(c)) /\ Reached(c) \in Int
        BY <1>l, <3>1 DEF IInv, OrderInv, Reached
      <4>. QED
        BY <1>q, <3>1, <3>2, <4>1, OrderedTake DEF Pending
    <3>4. \A d \in Conns : Pending(d)' = Pending(d)
      BY <3>2, <3>3 DEF Pending
    <3>5. \A d \in clients : Delivered(d)'
      BY <1>t, <1>k, <2>0, <3>4
    <3>. QED
      BY <2>a, <3>5
  <2>3. CASE SendMessage(c)
    <3>1. event[c] \in Nat \ {0} /\ queue' = queue
      BY <1>q, <2>3 DEF SendMessage, queueVars, IInv, ThreadInv
    <3>2. CASE UNCHANGED <<sent, event>>
      BY <1>t, <1>c, <1>u, <2>0, <3>1, <3>2
    <3>3. CASE /\ sent' = sent /\ event' = [event EXCEPT ![c] = 0]
               /\ recv[c] = "cleanup" \/ peer[c] \in Gone
      <4>1. peer[c] # "open"
        BY <1>c, <3>3 DEF Gone
      <4>2. \A d \in Conns \ {c} : Pending(d)' = Pending(d)
        BY <1>q, <3>1, <3>3 DEF Pending
      <4>3. \A d \in clients \ {c} : Delivered(d)'
        BY <1>t, <1>k, <2>0, <4>2
      <4>4. Delivered(c)'
        BY <2>0, <4>1 DEF Delivered
      <4>. QED
        BY <2>a, <4>3, <4>4
    <3>4. CASE /\ sent' = [sent EXCEPT ![c] = Append(@, event[c])]
               /\ event' = [event EXCEPT ![c] = 0]
      <4>1. /\ event'[c] = 0 /\ sent'[c] = Append(sent[c], event[c])
            /\ \A d \in Conns \ {c} : event'[d] = event[d] /\ sent'[d] = sent[d]
        BY <1>q, <3>4
      <4>2. Pending(c)' = Pending(c)
        <5>1. Ordered(sent[c], event[c], queue[c], Reached(c))
              /\ Reached(c) \in Int
          BY <1>l DEF IInv, OrderInv, Reached
        <5>. QED
          BY <1>q, <3>1, <4>1, <5>1, OrderedSend DEF Pending
      <4>3. \A d \in Conns : Pending(d)' = Pending(d)
        BY <3>1, <4>1, <4>2 DEF Pending
      <4>4. \A d \in clients : Delivered(d)'
        BY <1>t, <1>k, <2>0, <4>3
      <4>. QED
        BY <2>a, <4>4
    <3>. QED
      BY <2>3, <3>2, <3>3, <3>4 DEF SendMessage, sockVars, Gone
  <2>. QED
    BY <1>6, <2>1, <2>2, <2>3 DEF WorkerStep
<1>7. ASSUME NEW c \in Conns, Environment(c) PROVE DeliveryInv'
  <2>1. /\ UNCHANGED <<log, todo, target, since, subs, sent, event, queue,
                       clients, recv>>
        /\ \A d \in Conns : \/ peer'[d] = peer[d]
                            \/ peer'[d] \in Gone
    BY <1>t, <1>7 DEF Environment, ClientRead, ClientClose, ClientReset, SetPeer,
                      passVars, queueVars, Gone
  <2>. QED
    BY <1>t, <1>c, <1>u, <2>1 DEF Gone
<1>. QED
  BY <1>1, <1>2, <1>3, <1>4, <1>5, <1>6, <1>7 DEF Next

(***************************************************************************)
(* The theorems                                                            *)
(***************************************************************************)

(* In every behaviour of the relay, whatever the threads' interleaving, a  *)
(* state satisfies every part of the inductive invariant.                  *)
THEOREM Invariance == Spec => []IInv
<1>1. Init => IInv
  BY InitIInv
<1>2. IInv /\ [Next]_vars => IInv'
  <2>1. IInv /\ [Next]_vars => TypeOK'
    BY TypeStep
  <2>2. IInv /\ [Next]_vars => LockInv' /\ RegistryInv' /\ ThreadInv'
    BY LockStep, RegistryStep, ThreadStep
  <2>3. IInv /\ [Next]_vars => OrderInv' /\ PublisherInv' /\ DeliveryInv'
    BY <2>1, OrderStep, PublisherStep, DeliveryStep
  <2>. QED
    BY <2>1, <2>2, <2>3 DEF IInv
<1>. QED
  BY <1>1, <1>2, PTL DEF Spec

(* Every variable of the relay keeps its type. *)
THEOREM TypeCorrect == Spec => []TypeOK
<1>1. IInv => TypeOK
  BY DEF IInv
<1>. QED
  BY <1>1, Invariance, PTL

(* No broadcast uses a connection another receiver has destroyed, although *)
(* receivers destroy connections at any time.                              *)
THEOREM BroadcastSafe == Spec => []BroadcastTouchesLive
<1>1. IInv => BroadcastTouchesLive
  BY DEF IInv, LockInv, RegistryInv, BroadcastTouchesLive
<1>. QED
  BY <1>1, Invariance, PTL

(* The listener starts a receiver that is still there and has not started  *)
(* yet, although it has released the registry's lock.                      *)
THEOREM StartSafe == Spec => []StartTouchesLive
<1>1. IInv => StartTouchesLive
  BY DEF IInv, RegistryInv
<1>. QED
  BY <1>1, Invariance, PTL

(* A worker woken by the semaphore finds a message in the list. *)
THEOREM SemaphoreSafe == Spec => []SemaphoreMatchesQueue
<1>1. IInv => SemaphoreMatchesQueue
  BY DEF IInv, ThreadInv
<1>. QED
  BY <1>1, Invariance, PTL

(* All clients see the messages they get in one order, each at most once.  *)
THEOREM TotalOrderHolds == Spec => []TotalOrder
<1>1. IInv => TotalOrder
  <2>. SUFFICES ASSUME IInv, NEW c \in Conns PROVE Increasing(Stream(c))
    BY DEF TotalOrder, Increasing
  <2>1. /\ queue \in [Conns -> Seq(Nat)] /\ sent \in [Conns -> Seq(Nat)]
        /\ event \in [Conns -> Nat] /\ log \in Seq(Entry)
    BY DEF IInv, TypeOK
  <2>2. Ordered(sent[c], event[c], queue[c], Reached(c)) /\ Reached(c) \in Int
    <3>1. Len(log) \in Nat
      BY <2>1
    <3>. QED
      BY <3>1 DEF IInv, OrderInv, Reached
  <2>3. Increasing(Joined(sent[c], event[c], queue[c]))
    BY <2>1, <2>2, OrderedJoined
  <2>. QED
    BY <2>3, StreamJoined
<1>. QED
  BY <1>1, Invariance, PTL

(* The messages of one publisher are broadcast in the order it sent them.  *)
THEOREM PublisherOrderHolds == Spec => []PublisherOrder
<1>1. IInv => PublisherOrder
  BY DEF IInv, PublisherInv
<1>. QED
  BY <1>1, Invariance, PTL

(* A connected client gets what it subscribed to, no less and no more.     *)
THEOREM ExactDeliveryHolds == Spec => []ExactDelivery
<1>1. IInv => ExactDelivery
  BY DEF IInv, DeliveryInv
<1>. QED
  BY <1>1, Invariance, PTL
=============================================================================
