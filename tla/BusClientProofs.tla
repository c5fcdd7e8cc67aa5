--------------------------- MODULE BusClientProofs ---------------------------
(***************************************************************************)
(* Theorems of BusClient, for any classes and any number of calls, lost    *)
(* connections and messages: its types, that the relay knows the           *)
(* subscriptions and finds whole frames where no call overlapped their     *)
(* re-sending, and that messages are handed over whole and in order.       *)
(***************************************************************************)
EXTENDS BusClient, SequenceTheorems, WellFoundedInduction, TLAPS

USE BusClientAssumption

-----------------------------------------------------------------------------
(* A nonempty set of natural numbers has a least one, and one that is      *)
(* bounded a greatest.                                                     *)
LEMMA LeastNumber ==
  ASSUME NEW T \in SUBSET Nat, T # {}
  PROVE  \E n \in T : \A m \in T : n <= m
<1>1. PICK n \in T : \A m \in T : ~ (<<m, n>> \in OpToRel(<, Nat))
  BY NatLessThanWellFounded, WFMin
<1>2. \A m \in T : ~ (m < n)
  BY <1>1 DEF OpToRel
<1> QED
  BY <1>2

LEMMA GreatestNumber ==
  ASSUME NEW N \in Nat, NEW T \in SUBSET (0..N), T # {}
  PROVE  \E n \in T : \A m \in T : m <= n
<1> DEFINE U == {k \in 0..N : N - k \in T}
<1>1. U \in SUBSET Nat /\ U # {}
  <2>1. PICK m \in T : TRUE
    OBVIOUS
  <2>2. m \in 0..N /\ N - m \in 0..N /\ N - (N - m) = m
    BY <2>1
  <2>3. N - m \in U
    BY <2>2
  <2> QED
    BY <2>3
<1>2. PICK u \in U : \A v \in U : u <= v
  <2> HIDE DEF U
  <2> QED
    BY <1>1, LeastNumber
<1>3. N - u \in T
  OBVIOUS
<1>4. ASSUME NEW m \in T PROVE m <= N - u
  <2>1. m \in 0..N /\ N - m \in 0..N /\ N - (N - m) = m
    OBVIOUS
  <2>2. N - m \in U
    BY <2>1
  <2>3. u <= N - m /\ u \in 0..N
    BY <1>2, <2>2
  <2> QED
    BY <2>1, <2>3
<1> QED
  BY <1>3, <1>4

-----------------------------------------------------------------------------
(* What is written: whole frames, one after the other, of which the last   *)
(* update is what the relay knows.                                         *)
UpPart == [of : Frame, part : {1, 2}]

Whole(u) ==
  \E k \in Nat :
    /\ Len(u) = 2 * k
    /\ \A i \in 1..k : u[2 * i - 1].part = 1 /\ u[2 * i] = Part(u[2 * i - 1].of, 2)

HasLast(u) ==
  Updates(u) # {} => \E m \in Updates(u) : \A j \in Updates(u) : j <= m

LEMMA UpdatesLast ==
  ASSUME NEW u \in Seq(UpPart)
  PROVE  HasLast(u)
<1>1. Len(u) \in Nat /\ Updates(u) \in SUBSET (0..Len(u))
  BY DEF Updates
<1> QED
  BY <1>1, GreatestNumber DEF HasLast

LEMMA PartsType ==
  ASSUME NEW f \in Frame
  PROVE  /\ Part(f, 1) \in UpPart /\ Part(f, 2) \in UpPart
         /\ Parts(f) \in Seq(UpPart) /\ Len(Parts(f)) = 2
         /\ Parts(f)[1] = Part(f, 1) /\ Parts(f)[2] = Part(f, 2)
BY DEF UpPart, Part, Parts

(* A frame written behind whole frames.                                    *)
LEMMA WholeAppend ==
  ASSUME NEW u \in Seq(UpPart), Whole(u), NEW f \in Frame
  PROVE  /\ u \o Parts(f) \in Seq(UpPart)
         /\ Whole(u \o Parts(f))
<1> DEFINE w == u \o Parts(f)
<1>1. w \in Seq(UpPart)
  BY PartsType
<1>2. PICK k \in Nat :
        /\ Len(u) = 2 * k
        /\ \A i \in 1..k : u[2 * i - 1].part = 1 /\ u[2 * i] = Part(u[2 * i - 1].of, 2)
  BY DEF Whole
<1>3. /\ Len(w) = 2 * (k + 1) /\ k + 1 \in Nat
      /\ \A i \in 1..Len(u) : w[i] = u[i]
      /\ w[Len(u) + 1] = Part(f, 1) /\ w[Len(u) + 2] = Part(f, 2)
  <2>1. /\ Len(w) = Len(u) + 2 /\ Len(u) \in Nat
        /\ \A i \in 1..Len(u) : w[i] = u[i]
        /\ w[Len(u) + 1] = Part(f, 1) /\ w[Len(u) + 2] = Part(f, 2)
    BY PartsType, ConcatProperties
  <2> QED
    BY <1>2, <2>1
<1> HIDE DEF w
<1>4. ASSUME NEW i \in 1..k + 1
      PROVE  w[2 * i - 1].part = 1 /\ w[2 * i] = Part(w[2 * i - 1].of, 2)
  <2>1. CASE i = k + 1
    <3>1. 2 * i - 1 = Len(u) + 1 /\ 2 * i = Len(u) + 2
      BY <1>2, <2>1
    <3> QED
      BY <1>3, <3>1 DEF Part
  <2>2. CASE i \in 1..k
    <3>1. 2 * i - 1 \in 1..Len(u) /\ 2 * i \in 1..Len(u)
      BY <1>2, <2>2
    <3> QED
      BY <1>2, <1>3, <2>2, <3>1
  <2> QED
    BY <1>2, <2>1, <2>2
<1>5. Whole(w)
  BY <1>3, <1>4 DEF Whole
<1> QED
  BY <1>1, <1>5 DEF w

(* ... is what the relay knows if it is an update, and else changes nothing. *)
LEMMA ViewAppend ==
  ASSUME NEW u \in Seq(UpPart), Whole(u), NEW f \in Frame
  PROVE  View(u \o Parts(f)) =
           IF f.kind = "setSubscriptions" THEN f.classes ELSE View(u)
<1> DEFINE w == u \o Parts(f)
<1>1. /\ Len(w) = Len(u) + 2 /\ Len(u) \in Nat
      /\ \A i \in 1..Len(u) : w[i] = u[i]
      /\ w[Len(u) + 1] = Part(f, 1) /\ w[Len(u) + 2] = Part(f, 2)
  BY PartsType, ConcatProperties
<1>2. Len(u) # 0 => u[Len(u)].part = 2
  <2>1. PICK k \in Nat :
          /\ Len(u) = 2 * k
          /\ \A i \in 1..k : u[2 * i - 1].part = 1 /\ u[2 * i] = Part(u[2 * i - 1].of, 2)
    BY DEF Whole
  <2>2. Len(u) # 0 => k \in 1..k /\ u[2 * k] = Part(u[2 * k - 1].of, 2)
    BY <2>1
  <2> QED
    BY <2>1, <2>2 DEF Part
<1> HIDE DEF w
<1>3. CASE f.kind = "setSubscriptions"
  <2>1. Len(u) + 1 \in Updates(w)
    BY <1>1, <1>3 DEF Updates, Part
  <2>2. \A j \in Updates(w) : j <= Len(u) + 1 /\ j \in Nat
    BY <1>1 DEF Updates
  <2>3. (CHOOSE i \in Updates(w) : \A j \in Updates(w) : j <= i) = Len(u) + 1
    BY <1>1, <2>1, <2>2
  <2>4. View(w) = w[Len(u) + 1].of.classes
    BY <2>1, <2>3 DEF View
  <2> QED
    BY <1>1, <1>3, <2>4 DEF Part, w
<1>4. CASE f.kind # "setSubscriptions"
  <2>1. ASSUME NEW i \in Updates(w) PROVE i \in Updates(u)
    <3>1. /\ i \in 1..Len(u) + 1 /\ w[i].of.kind = "setSubscriptions"
          /\ w[i].part = 1 /\ w[i + 1] = Part(w[i].of, 2)
      BY <1>1, <2>1 DEF Updates
    <3>2. i # Len(u) + 1
      BY <1>1, <1>4, <3>1 DEF Part
    <3>3. i # Len(u)
      BY <1>1, <1>2, <3>1
    <3>4. i \in 1..Len(u) - 1 /\ i \in 1..Len(u) /\ i + 1 \in 1..Len(u)
      BY <1>1, <3>1, <3>2, <3>3
    <3> QED
      BY <1>1, <3>1, <3>4 DEF Updates
  <2>2. ASSUME NEW i \in Updates(u) PROVE i \in Updates(w)
    <3>1. /\ i \in 1..Len(u) - 1 /\ i \in 1..Len(u) /\ i + 1 \in 1..Len(u)
          /\ i \in 1..Len(w) - 1
      BY <1>1 DEF Updates
    <3> QED
      BY <1>1, <3>1 DEF Updates
  <2>3. Updates(w) = Updates(u)
    BY <2>1, <2>2
  <2>4. CASE Updates(u) = {}
    BY <1>4, <2>3, <2>4 DEF View, w
  <2>5. CASE Updates(u) # {}
    <3> DEFINE last == CHOOSE i \in Updates(u) : \A j \in Updates(u) : j <= i
    <3>1. last \in Updates(u)
      BY <2>5, UpdatesLast DEF HasLast
    <3>2. View(u) = u[last].of.classes
      BY <2>5 DEF View
    <3>3. View(w) = w[last].of.classes
      BY <2>3, <2>5 DEF View
    <3>4. last \in 1..Len(u)
      <4> HIDE DEF last
      <4> QED
        BY <1>1, <3>1 DEF Updates
    <3> QED
      BY <1>1, <1>4, <3>2, <3>3, <3>4 DEF w
  <2> QED
    BY <2>4, <2>5
<1> QED
  BY <1>3, <1>4

-----------------------------------------------------------------------------
(* The invariant, in parts: types, ...                                     *)
DownPart == [of : Nat, part : {1, 2}]

SeqInv ==
  /\ up \in Seq(UpPart) /\ down \in Seq(DownPart) /\ buffer \in Seq(DownPart)
  /\ handed \in Seq(Seq(DownPart))

(* ... what each thread has in hand at each of its steps, ...              *)
Sending ==
  IF call.op = "broadcast" THEN [kind |-> "publish"]
  ELSE IF call.op = "setSubscriptions" THEN Update(call.classes)
       ELSE Update(subscriptions)

ControlInv ==
  /\ step = "idle" <=> call = NoCall
  /\ step # "send" => out["caller"] = NoFrame /\ ~half["caller"]
  /\ step = "modify" => call.op # "broadcast"
  /\ step = "send" => out["caller"] = Sending
  /\ recv # "sending" => out["receiver"] = NoFrame /\ ~half["receiver"]
  /\ recv = "sending" => out["receiver"].kind = "setSubscriptions"
  /\ recv = "connecting" => fd = "closed"
  /\ fd = "closed" => peer = "broken"

(* ... what was written to a connection whose re-sending was not           *)
(* overlapped, ...                                                         *)
Begun(t) == IF half[t] THEN <<Part(out[t], 1)>> ELSE <<>>

Known(u) ==
  /\ step = "idle" => View(u) = subscriptions
  /\ step = "modify" => View(u) = IF call.op = "setSubscriptions" THEN call.classes
                                                                  ELSE subscriptions
  /\ step = "send" /\ call.op = "broadcast" => View(u) = subscriptions

Wired ==
  /\ Resending => step = "idle"
  /\ recv = "resend" => up = <<>>
  /\ recv = "sending" => /\ out["receiver"] = Update(subscriptions)
                         /\ up = Begun("receiver")
  /\ recv \in {"restart", "receiving"} =>
       \E u \in Seq(UpPart) : up = u \o Begun("caller") /\ Whole(u) /\ Known(u)

WireInv == peer = "open" /\ ~overlap => Wired

(* ... and what is on its way to the parser, and was handed over by it.    *)
Framed(s) ==
  \A k \in Nat :
    /\ 2 * k + 1 \in 1..Len(s) => s[2 * k + 1].part = 1
    /\ 2 * k + 2 \in 1..Len(s) => s[2 * k + 2] = Part(s[2 * k + 1].of, 2)

Rising(s) ==
  \A j, k \in Nat :
    j < k /\ 2 * k + 1 \in 1..Len(s) => s[2 * j + 1].of < s[2 * k + 1].of

Coming == buffer \o down

Delivered(h, c, n) ==
  \A i \in 1..Len(h) :
    /\ h[i] = Parts(h[i][1].of) /\ h[i][1].of \in 1..n
    /\ \A j \in 1..Len(h) : i < j => h[i][1].of < h[j][1].of
    /\ \A k \in 1..Len(c) : h[i][1].of < c[k].of

StreamInv ==
  ~torn =>
    /\ Framed(Coming) /\ Rising(Coming)
    /\ peer = "open" => \E n \in Nat : Len(Coming) = 2 * n
    /\ recv = "connecting" => Coming = <<>>
    /\ Delivered(handed, Coming, sends)

Types == TypeOK /\ SeqInv

Inv == Types /\ ControlInv /\ WireInv /\ StreamInv

-----------------------------------------------------------------------------
(* The number of frames the parser finds: as many as lead the buffer.      *)
Leads(b, k) == \A i \in 0..k-1 : b[FrameSize * i + 1].part = 1

LEMMA CompleteIs ==
  ASSUME NEW S, NEW b \in Seq(S)
  PROVE  /\ Complete(b) \in 0..Len(b) \div 2 /\ Leads(b, Complete(b))
         /\ \A j \in 0..Len(b) \div 2 : Leads(b, j) => j <= Complete(b)
<1> DEFINE N == Len(b) \div 2
           T == {k \in 0..N : Leads(b, k)}
<1>1. N \in Nat
  <2>1. Len(b) \in Nat
    OBVIOUS
  <2> QED
    BY <2>1
<1> HIDE DEF N
<1>2. 0 \in T
  BY <1>1 DEF Leads
<1>3. \E k \in T : \A j \in T : j <= k
  <2> HIDE DEF T
  <2>1. T \in SUBSET (0..N) /\ T # {}
    BY <1>2 DEF T
  <2> QED
    BY <1>1, <2>1, GreatestNumber
<1>4. Complete(b) = CHOOSE k \in 0..N : Leads(b, k) /\ \A j \in 0..N : Leads(b, j) => j <= k
  BY DEF Complete, Leads, N, FrameSize
<1>5. \E k \in 0..N : Leads(b, k) /\ \A j \in 0..N : Leads(b, j) => j <= k
  BY <1>3
<1>6. /\ Complete(b) \in 0..N /\ Leads(b, Complete(b))
      /\ \A j \in 0..N : Leads(b, j) => j <= Complete(b)
  BY <1>4, <1>5
<1> QED
  BY <1>6 DEF N

(* The frame i is the parts 2 * i - 1 and 2 * i.                            *)
LEMMA FrameAtIs ==
  ASSUME NEW S, NEW b \in Seq(S), NEW i \in Nat \ {0}, 2 * i <= Len(b)
  PROVE  FrameAt(b, i) = <<b[2 * i - 1], b[2 * i]>>
<1>1. PICK m \in Int, n \in Int : m = 2 * i - 1 /\ n = 2 * i
  OBVIOUS
<1>2. /\ m = 2 * (i - 1) + 1 /\ m \in 1..Len(b) /\ n \in 1..Len(b)
      /\ n = m + 1
  BY <1>1
<1>3. \A j \in m..n : b[j] \in S
  BY <1>2
<1>4. /\ SubSeq(b, m, n) \in Seq(S)
      /\ Len(SubSeq(b, m, n)) = IF m <= n THEN n - m + 1 ELSE 0
      /\ \A j \in 1..n - m + 1 : SubSeq(b, m, n)[j] = b[m + j - 1]
  BY <1>3, SubSeqProperties
<1>5. /\ Len(SubSeq(b, m, n)) = 2
      /\ SubSeq(b, m, n)[1] = b[m] /\ SubSeq(b, m, n)[2] = b[n]
  BY <1>2, <1>4
<1>6. /\ <<b[m], b[n]>> \in Seq(S) /\ Len(<<b[m], b[n]>>) = 2
      /\ <<b[m], b[n]>>[1] = b[m] /\ <<b[m], b[n]>>[2] = b[n]
  BY <1>2
<1>7. SubSeq(b, m, n) = <<b[m], b[n]>>
  <2> DEFINE p == SubSeq(b, m, n)
             q == <<b[m], b[n]>>
  <2>1. /\ p \in Seq(S) /\ q \in Seq(S) /\ Len(p) = 2 /\ Len(q) = 2
        /\ p[1] = q[1] /\ p[2] = q[2]
    BY <1>4, <1>5, <1>6
  <2> HIDE DEF p, q
  <2>2. p = q
    BY <2>1, SeqEqual
  <2> QED
    BY <2>2 DEF p, q
<1> QED
  BY <1>1, <1>2, <1>7 DEF FrameAt, FrameSize

(* A part of a sequence that starts behind its first n elements.           *)
LEMMA Behind ==
  ASSUME NEW S, NEW s \in Seq(S), NEW n \in 0..Len(s)
  PROVE  /\ SubSeq(s, n + 1, Len(s)) \in Seq(S)
         /\ Len(SubSeq(s, n + 1, Len(s))) = Len(s) - n
         /\ \A i \in 1..Len(s) - n : SubSeq(s, n + 1, Len(s))[i] = s[n + i]
<1>1. PICK m \in Int, l \in Int : m = n + 1 /\ l = Len(s)
  OBVIOUS
<1>2. \A i \in m..l : s[i] \in S
  BY <1>1
<1>3. /\ SubSeq(s, m, l) \in Seq(S)
      /\ Len(SubSeq(s, m, l)) = IF m <= l THEN l - m + 1 ELSE 0
      /\ \A i \in 1..l - m + 1 : SubSeq(s, m, l)[i] = s[m + i - 1]
  BY <1>2, SubSeqProperties
<1>4. Len(SubSeq(s, m, l)) = Len(s) - n
  BY <1>1, <1>3
<1>5. ASSUME NEW i \in 1..Len(s) - n PROVE SubSeq(s, m, l)[i] = s[n + i]
  <2>1. i \in 1..l - m + 1 /\ m + i - 1 = n + i
    BY <1>1
  <2> QED
    BY <1>3, <2>1
<1> QED
  BY <1>1, <1>3, <1>4, <1>5

(* Its first n elements.                                                   *)
LEMMA Before ==
  ASSUME NEW S, NEW s \in Seq(S), NEW n \in 0..Len(s)
  PROVE  /\ SubSeq(s, 1, n) \in Seq(S) /\ Len(SubSeq(s, 1, n)) = n
         /\ \A i \in 1..n : SubSeq(s, 1, n)[i] = s[i]
<1>1. \A i \in 1..n : s[i] \in S
  OBVIOUS
<1>2. /\ SubSeq(s, 1, n) \in Seq(S)
      /\ Len(SubSeq(s, 1, n)) = IF 1 <= n THEN n - 1 + 1 ELSE 0
      /\ \A i \in 1..n - 1 + 1 : SubSeq(s, 1, n)[i] = s[1 + i - 1]
  BY <1>1, SubSeqProperties
<1> QED
  BY <1>2

(* What processPacket() hands over, and what remains.                      *)
HandedOver(b, k) == [i \in 1..k |-> FrameAt(b, i)]
Rest(b, k) == SubSeq(b, FrameSize * k + 1, Len(b))

LEMMA RestIs ==
  ASSUME NEW S, NEW b \in Seq(S), NEW k \in Nat, 2 * k <= Len(b)
  PROVE  /\ Rest(b, k) \in Seq(S) /\ Len(Rest(b, k)) = Len(b) - 2 * k
         /\ \A i \in 1..Len(b) - 2 * k : Rest(b, k)[i] = b[2 * k + i]
<1>1. PICK n \in 0..Len(b) : n = 2 * k
  OBVIOUS
<1>2. /\ SubSeq(b, 2 * k + 1, Len(b)) \in Seq(S)
      /\ Len(SubSeq(b, 2 * k + 1, Len(b))) = Len(b) - 2 * k
      /\ \A i \in 1..Len(b) - 2 * k : SubSeq(b, 2 * k + 1, Len(b))[i] = b[2 * k + i]
  BY <1>1, Behind
<1> QED
  BY <1>2 DEF Rest, FrameSize

LEMMA HandedOverIs ==
  ASSUME NEW S, NEW b \in Seq(S), NEW k \in Nat, 2 * k <= Len(b)
  PROVE  /\ HandedOver(b, k) \in Seq(Seq(S)) /\ Len(HandedOver(b, k)) = k
         /\ \A i \in 1..k : HandedOver(b, k)[i] = <<b[2 * i - 1], b[2 * i]>>
<1>1. ASSUME NEW i \in 1..k
      PROVE  /\ FrameAt(b, i) = <<b[2 * i - 1], b[2 * i]>>
             /\ FrameAt(b, i) \in Seq(S)
  <2>1. 2 * i - 1 \in 1..Len(b) /\ 2 * i \in 1..Len(b) /\ i \in Nat \ {0} /\ 2 * i <= Len(b)
    OBVIOUS
  <2>2. b[2 * i - 1] \in S /\ b[2 * i] \in S
    BY <2>1
  <2>3. FrameAt(b, i) = <<b[2 * i - 1], b[2 * i]>>
    BY <2>1, FrameAtIs
  <2> QED
    BY <2>2, <2>3
<1>2. \A i \in 1..k : FrameAt(b, i) \in Seq(S)
  BY <1>1
<1>3. [i \in 1..k |-> FrameAt(b, i)] \in Seq(Seq(S))
  BY <1>2, IsASeq
<1>4. Len([i \in 1..k |-> FrameAt(b, i)]) = k
  BY <1>3, LenProperties
<1> QED
  BY <1>1, <1>3, <1>4 DEF HandedOver

(* The two parts of a concatenation.                                       *)
LEMMA Joined ==
  ASSUME NEW S, NEW s \in Seq(S), NEW t \in Seq(S)
  PROVE  /\ s \o t \in Seq(S) /\ Len(s \o t) = Len(s) + Len(t)
         /\ Len(s) \in Nat /\ Len(t) \in Nat
         /\ \A i \in 1..Len(s) : (s \o t)[i] = s[i]
         /\ \A i \in 1..Len(t) : (s \o t)[Len(s) + i] = t[i]
BY ConcatProperties

Joins(c, s, t) ==
  /\ Len(c) = Len(s) + Len(t) /\ Len(s) \in Nat /\ Len(t) \in Nat
  /\ \A i \in 1..Len(s) : c[i] = s[i]
  /\ \A i \in 1..Len(t) : c[Len(s) + i] = t[i]

LEMMA JoinsConcat ==
  ASSUME NEW S, NEW s \in Seq(S), NEW t \in Seq(S)
  PROVE  \E c \in Seq(S) : c = s \o t /\ Joins(c, s, t)
<1>1. s \o t \in Seq(S)
  BY Joined
<1>2. Joins(s \o t, s, t)
  BY Joined DEF Joins
<1> QED
  BY <1>1, <1>2, Zenon

LEMMA SplitAt ==
  ASSUME NEW S, NEW s \in Seq(S), NEW n \in 0..Len(s)
  PROVE  s = SubSeq(s, 1, n) \o SubSeq(s, n + 1, Len(s))
<1>1. SubSeq(s, 1, n) \o SubSeq(s, n + 1, Len(s)) = SubSeq(s, 1, Len(s))
  <2>1. PICK m \in 1..Len(s) + 1, l \in n..Len(s) : m = 1 /\ l = Len(s)
    OBVIOUS
  <2>2. n \in m - 1..Len(s)
    BY <2>1
  <2> QED
    BY <2>1, <2>2, ConcatAdjacentSubSeq
<1> QED
  BY <1>1, SubSeqFull

LEMMA Associative ==
  \A s, t, u \in Seq(DownPart) : s \o (t \o u) = (s \o t) \o u
BY ConcatAssociative

(* What a step of the parser does: the parts p were coming, and are handed *)
(* over as k frames.                                                       *)
HandsOver(p, k, h, g) ==
  /\ Len(g) = Len(h) + k
  /\ \A i \in 1..Len(h) : g[i] = h[i]
  /\ \A i \in 1..k : g[Len(h) + i] = <<p[2 * i - 1], p[2 * i]>>

Moved(p, k) ==
  Len(p) = 2 * k /\ Coming = p \o Coming' /\ HandsOver(p, k, handed, handed')

LEMMA ReceiveMoves ==
  ASSUME SeqInv, NEW n \in 1..Len(down), Receive(n)
  PROVE  /\ buffer' \in Seq(DownPart) /\ down' \in Seq(DownPart)
         /\ handed' \in Seq(Seq(DownPart))
         /\ \E p \in Seq(DownPart), k \in Nat : Moved(p, k)
<1>1. /\ down \in Seq(DownPart) /\ buffer \in Seq(DownPart)
      /\ handed \in Seq(Seq(DownPart)) /\ n \in 0..Len(down)
  BY DEF SeqInv
<1> DEFINE r == SubSeq(down, 1, n)
           d == SubSeq(down, n + 1, Len(down))
           b == buffer \o r
           k == Complete(b)
<1>2. down' = d /\ handed' = handed \o HandedOver(b, k) /\ buffer' = Rest(b, k)
  BY DEF Receive, HandedOver, Rest
<1>3. r \in Seq(DownPart) /\ d \in Seq(DownPart) /\ down = r \o d
  <2>1. r \in Seq(DownPart)
    BY <1>1, Before
  <2>2. d \in Seq(DownPart)
    BY <1>1, Behind
  <2>3. down = r \o d
    BY <1>1, SplitAt
  <2> QED
    BY <2>1, <2>2, <2>3
<1> HIDE DEF r, d
<1>4. b \in Seq(DownPart) /\ Coming = b \o d
  <2>1. b \in Seq(DownPart)
    BY <1>1, <1>3, ConcatProperties
  <2>2. buffer \o (r \o d) = (buffer \o r) \o d
    BY <1>1, <1>3, Associative
  <2> QED
    BY <1>3, <2>1, <2>2 DEF Coming
<1> HIDE DEF b
<1>5. k \in Nat /\ 2 * k <= Len(b)
  <2>1. Complete(b) \in 0..Len(b) \div 2 /\ Len(b) \in Nat
    BY <1>4, CompleteIs
  <2> QED
    BY <2>1
<1> HIDE DEF k
<1>6. PICK m \in 0..Len(b) : m = 2 * k
  BY <1>4, <1>5
<1> DEFINE p == SubSeq(b, 1, m)
           q == Rest(b, k)
           h == HandedOver(b, k)
<1>7. /\ p \in Seq(DownPart) /\ Len(p) = m /\ \A i \in 1..m : p[i] = b[i]
  BY <1>4, Before
<1>8. q \in Seq(DownPart) /\ b = p \o q
  <2>1. q = SubSeq(b, m + 1, Len(b))
    BY <1>6 DEF Rest, FrameSize
  <2>2. SubSeq(b, m + 1, Len(b)) \in Seq(DownPart)
    BY <1>4, Behind
  <2>3. b = p \o SubSeq(b, m + 1, Len(b))
    BY <1>4, SplitAt
  <2> QED
    BY <2>1, <2>2, <2>3
<1>9. /\ h \in Seq(Seq(DownPart)) /\ Len(h) = k
      /\ \A i \in 1..k : h[i] = <<b[2 * i - 1], b[2 * i]>>
  BY <1>4, <1>5, HandedOverIs
<1> HIDE DEF p, q, h
<1>10. Coming' = q \o d
  BY <1>2 DEF Coming, q
<1>11. Coming = p \o Coming'
  <2>1. (p \o q) \o d = p \o (q \o d)
    BY <1>3, <1>7, <1>8, Associative
  <2> QED
    BY <1>4, <1>8, <1>10, <2>1
<1>12. handed' = handed \o h
  BY <1>2 DEF h
<1>13. /\ handed' \in Seq(Seq(DownPart)) /\ Len(handed') = Len(handed) + k
       /\ \A i \in 1..Len(handed) : handed'[i] = handed[i]
       /\ \A i \in 1..k : handed'[Len(handed) + i] = h[i]
  <2>1. /\ handed \o h \in Seq(Seq(DownPart)) /\ Len(handed \o h) = Len(handed) + Len(h)
        /\ \A i \in 1..Len(handed) : (handed \o h)[i] = handed[i]
        /\ \A i \in 1..Len(h) : (handed \o h)[Len(handed) + i] = h[i]
    <3>1. PICK T : T = Seq(DownPart)
      OBVIOUS
    <3>2. PICK x \in Seq(T), y \in Seq(T) : x = handed /\ y = h
      BY <1>1, <1>9, <3>1
    <3>3. /\ x \o y \in Seq(T) /\ Len(x \o y) = Len(x) + Len(y)
          /\ \A i \in 1..Len(x) : (x \o y)[i] = x[i]
          /\ \A i \in 1..Len(y) : (x \o y)[Len(x) + i] = y[i]
      BY Joined
    <3> QED
      BY <3>1, <3>2, <3>3
  <2> QED
    BY <1>9, <1>12, <2>1
<1>14. ASSUME NEW i \in 1..k
       PROVE  handed'[Len(handed) + i] = <<p[2 * i - 1], p[2 * i]>>
  <2>1. 2 * i - 1 \in 1..m /\ 2 * i \in 1..m
    BY <1>5, <1>6
  <2> QED
    BY <1>7, <1>9, <1>13, <2>1
<1>15. Moved(p, k)
  BY <1>6, <1>7, <1>11, <1>13, <1>14 DEF Moved, HandsOver
<1>16. buffer' = q /\ down' = d
  BY <1>2 DEF q
<1> QED
  BY <1>3, <1>5, <1>7, <1>8, <1>13, <1>15, <1>16

-----------------------------------------------------------------------------
(* The types, step by step.                                                *)
LEMMA UpTypes ==
  ASSUME NEW u \in Seq(UpPart), NEW i \in 1..Len(u)
  PROVE  u[i].of \in Frame /\ u[i].part \in {1, 2}
<1>1. u[i] \in UpPart
  OBVIOUS
<1> QED
  BY <1>1 DEF UpPart

LEMMA InitTypes == Init => Types
<1> SUFFICES ASSUME Init PROVE Types
  OBVIOUS
<1>1. up = <<>> /\ down = <<>> /\ buffer = <<>> /\ handed = <<>>
  BY DEF Init
<1>2. SeqInv
  BY <1>1 DEF SeqInv
<1>3. /\ out \in [Threads -> Frame \union {NoFrame}]
      /\ half \in [Threads -> BOOLEAN]
  BY DEF Init
<1>4. /\ \A i \in 1..Len(up) : up[i].of \in Frame /\ up[i].part \in {1, 2}
      /\ \A i \in 1..Len(buffer) : buffer[i].of \in 1..sends
      /\ \A i \in 1..Len(down) : down[i].of \in 1..sends
  BY <1>1
<1>5. /\ process = "up" /\ subscriptions = {} /\ step = "idle" /\ call = NoCall
      /\ fd \in {"open", "closed"} /\ peer \in {"open", "broken"}
      /\ recv = "receiving" /\ sends = 0 /\ calls = 0 /\ breaks = 0
  BY DEF Init
<1>6. overlap \in BOOLEAN /\ torn \in BOOLEAN
  BY DEF Init
<1>7. sends \in 0..MaxMessages /\ calls \in 0..MaxCalls /\ breaks \in 0..MaxBreaks
  BY <1>5
<1>8. TypeOK
  BY <1>3, <1>4, <1>5, <1>6, <1>7 DEF TypeOK
<1> QED
  BY <1>2, <1>8 DEF Types

LEMMA WriteTypes ==
  ASSUME Types, NEW t \in Threads, NEW finished \in BOOLEAN, Write(t, finished)
  PROVE  /\ process' \in {"up", "killed", "aborted", "corrupted"}
         /\ up' \in Seq(UpPart)
         /\ out' \in [Threads -> Frame \union {NoFrame}]
         /\ half' \in [Threads -> BOOLEAN]
<1>1. /\ out[t] \in Frame /\ up \in Seq(UpPart)
      /\ out \in [Threads -> Frame \union {NoFrame}]
      /\ half \in [Threads -> BOOLEAN]
      /\ process \in {"up", "killed", "aborted", "corrupted"}
  BY DEF Types, TypeOK, SeqInv, Write
<1>2. Left(t) \in Seq(UpPart) /\ Part(out[t], 1) \in UpPart
  BY <1>1, PartsType DEF Left
<1>3. up' \in Seq(UpPart)
  <2>1. \/ up' = up \o Left(t) \/ up' = Append(up, Part(out[t], 1)) \/ up' = up
    BY DEF Write
  <2>2. up \o Left(t) \in Seq(UpPart) /\ Append(up, Part(out[t], 1)) \in Seq(UpPart)
    BY <1>1, <1>2
  <2> QED
    BY <1>1, <2>1, <2>2
<1>4. out' \in [Threads -> Frame \union {NoFrame}]
  BY <1>1 DEF Write, Done
<1>5. half' \in [Threads -> BOOLEAN]
  BY <1>1 DEF Write, Done
<1>6. process' \in {"up", "killed", "aborted", "corrupted"}
  BY <1>1 DEF Write
<1> QED
  BY <1>3, <1>4, <1>5, <1>6

LEMMA UpdateType ==
  ASSUME NEW S \in SUBSET Classes
  PROVE  Update(S) \in Frame /\ Update(S).kind = "setSubscriptions" /\ Update(S).classes = S
BY DEF Update, Frame

LEMMA AfterType ==
  ASSUME Types, NEW c \in Call \union {NoCall}
  PROVE  After(c) \in SUBSET Classes
<1>1. subscriptions \in SUBSET Classes
  BY DEF Types, TypeOK
<1>2. CASE c.op = "setSubscriptions"
  BY <1>2 DEF After, Call, NoCall
<1>3. CASE c.op = "subscribe"
  <2>1. c.class \in Classes
    BY <1>3 DEF Call, NoCall
  <2> QED
    BY <1>1, <1>3, <2>1 DEF After
<1>4. CASE c.op \notin {"subscribe", "setSubscriptions"}
  BY <1>1, <1>4 DEF After
<1> QED
  BY <1>2, <1>3, <1>4

(* The program's thread. *)
LEMMA CallerTypes ==
  ASSUME Types, CallerStep \/ \E c \in Call : Begin(c)
  PROVE  Types'
<1>1. UNCHANGED <<recv, wireVars, parseVars>>
  BY DEF CallerStep, Begin, Modify, CallerSend
<1>2. /\ calls' \in 0..MaxCalls /\ step' \in {"idle", "modify", "send"}
      /\ call' \in Call \union {NoCall} /\ overlap' \in BOOLEAN
      /\ subscriptions' \subseteq Classes
      /\ process' \in {"up", "killed", "aborted", "corrupted"}
      /\ up' \in Seq(UpPart)
      /\ out' \in [Threads -> Frame \union {NoFrame}]
      /\ half' \in [Threads -> BOOLEAN]
  <2>0. /\ calls \in 0..MaxCalls /\ step \in {"idle", "modify", "send"}
        /\ call \in Call \union {NoCall} /\ overlap \in BOOLEAN
        /\ subscriptions \subseteq Classes
        /\ process \in {"up", "killed", "aborted", "corrupted"}
        /\ up \in Seq(UpPart)
        /\ out \in [Threads -> Frame \union {NoFrame}]
        /\ half \in [Threads -> BOOLEAN] /\ "caller" \in Threads
    BY DEF Types, TypeOK, SeqInv, Threads
  <2>1. ASSUME NEW c \in Call, Begin(c) PROVE <1>2!:
    <3>1. UNCHANGED <<process, subscriptions, half, up>>
      BY <2>1 DEF Begin
    <3>2. calls' \in 0..MaxCalls
      BY <2>0, <2>1 DEF Begin
    <3>3. /\ step' \in {"idle", "modify", "send"} /\ call' \in Call \union {NoCall}
      BY <2>0, <2>1 DEF Begin
    <3>4. overlap' \in BOOLEAN
      BY <2>0, <2>1 DEF Begin
    <3>5. out' \in [Threads -> Frame \union {NoFrame}]
      <4>1. [kind |-> "publish"] \in Frame
        BY DEF Frame
      <4>2. c.op \notin {"subscribe", "unsubscribe", "broadcast"} => Update(c.classes) \in Frame
        BY UpdateType DEF Call
      <4> QED
        BY <2>0, <2>1, <4>1, <4>2 DEF Begin
    <3> QED
      BY <2>0, <3>1, <3>2, <3>3, <3>4, <3>5
  <2>2. CASE Modify
    <3>1. After(call) \in SUBSET Classes
      BY <2>0, AfterType
    <3>2. Update(After(call)) \in Frame
      BY <3>1, UpdateType
    <3>3. UNCHANGED <<process, half, up, calls, overlap>>
      BY <2>2 DEF Modify
    <3>4. /\ step' \in {"idle", "modify", "send"} /\ call' \in Call \union {NoCall}
          /\ subscriptions' \subseteq Classes
      BY <2>0, <2>2, <3>1 DEF Modify
    <3>5. out' \in [Threads -> Frame \union {NoFrame}]
      BY <2>0, <2>2, <3>2 DEF Modify
    <3> QED
      BY <2>0, <3>3, <3>4, <3>5
  <2>3. ASSUME NEW finished \in BOOLEAN, CallerSend(finished) PROVE <1>2!:
    <3>1. Write("caller", finished)
      BY <2>3 DEF CallerSend
    <3>2. UNCHANGED <<subscriptions, calls, overlap>>
      BY <2>3 DEF CallerSend
    <3>3. /\ step' \in {"idle", "modify", "send"} /\ call' \in Call \union {NoCall}
      BY <2>0, <2>3 DEF CallerSend
    <3> QED
      BY <2>0, <3>1, <3>2, <3>3, WriteTypes
  <2> QED
    BY <2>1, <2>2, <2>3 DEF CallerStep
<1>3. SeqInv'
  BY <1>1, <1>2 DEF Types, SeqInv, wireVars, parseVars
<1>4. \A i \in 1..Len(up') : up'[i].of \in Frame /\ up'[i].part \in {1, 2}
  BY <1>2, UpTypes
<1>5. TypeOK'
  BY <1>1, <1>2, <1>4 DEF Types, TypeOK, wireVars, parseVars
<1> QED
  BY <1>3, <1>5 DEF Types
(* The messages that parts belong to. *)
From(s, P) == \A i \in 1..Len(s) : s[i].of \in P

LEMMA FromJoined ==
  ASSUME NEW S, NEW s \in Seq(S), NEW t \in Seq(S), NEW P
  PROVE  From(s \o t, P) <=> From(s, P) /\ From(t, P)
<1>1. PICK c \in Seq(S) : c = s \o t
  BY Joined
<1>2. /\ Len(c) = Len(s) + Len(t) /\ Len(s) \in Nat /\ Len(t) \in Nat
      /\ \A i \in 1..Len(s) : c[i] = s[i]
      /\ \A i \in 1..Len(t) : c[Len(s) + i] = t[i]
  BY <1>1, Joined
<1>3. ASSUME From(c, P) PROVE From(s, P) /\ From(t, P)
  <2>1. ASSUME NEW i \in 1..Len(s) PROVE s[i].of \in P
    <3>1. i \in 1..Len(c)
      BY <1>2
    <3> QED
      BY <1>2, <1>3, <3>1 DEF From
  <2>2. ASSUME NEW i \in 1..Len(t) PROVE t[i].of \in P
    <3>1. Len(s) + i \in 1..Len(c)
      BY <1>2
    <3> QED
      BY <1>2, <1>3, <3>1 DEF From
  <2> QED
    BY <2>1, <2>2 DEF From
<1>4. ASSUME From(s, P), From(t, P), NEW i \in 1..Len(c) PROVE c[i].of \in P
  <2>1. CASE i \in 1..Len(s)
    BY <1>2, <1>4, <2>1 DEF From
  <2>2. CASE i \notin 1..Len(s)
    <3>1. i - Len(s) \in 1..Len(t) /\ Len(s) + (i - Len(s)) = i
      BY <1>2, <2>2
    <3> QED
      BY <1>2, <1>4, <3>1 DEF From
  <2> QED
    BY <2>1, <2>2
<1> QED
  BY <1>1, <1>3, <1>4 DEF From

LEMMA ReceiveTypes ==
  ASSUME Types, NEW n \in 1..Len(down), Receive(n)
  PROVE  Types'
<1>1. PICK p \in Seq(DownPart), k \in Nat : Moved(p, k)
  BY ReceiveMoves DEF Types
<1>2. /\ buffer' \in Seq(DownPart) /\ down' \in Seq(DownPart)
      /\ handed' \in Seq(Seq(DownPart))
  BY ReceiveMoves DEF Types
<1>3. UNCHANGED <<subscriptions, fd, peer, recv, out, half, up, sends, breaks,
                  overlap, torn, step, call, calls>>
  BY DEF Receive, appVars
<1>4. process' \in {"up", "aborted"}
  BY DEF Receive
<1>5. SeqInv'
  BY <1>2, <1>3 DEF Types, SeqInv
<1>6. From(Coming, 1..sends)
  BY FromJoined DEF Types, TypeOK, SeqInv, From, Coming
<1>7. From(buffer', 1..sends) /\ From(down', 1..sends)
  <2>1. PICK x \in Seq(DownPart), y \in Seq(DownPart) : x = buffer' /\ y = down'
    BY <1>2
  <2>2. x \o y \in Seq(DownPart) /\ Coming = p \o (x \o y)
    BY <1>1, <2>1, Joined DEF Moved, Coming
  <2>3. From(x \o y, 1..sends)
    BY <1>6, <2>2, FromJoined
  <2>4. From(x, 1..sends) /\ From(y, 1..sends)
    BY <2>3, FromJoined
  <2> QED
    BY <2>1, <2>4
<1>8. TypeOK'
  BY <1>3, <1>4, <1>7 DEF Types, TypeOK, From
<1> QED
  BY <1>5, <1>8 DEF Types

(* The other steps of the receiver. *)
LEMMA ReceiverTypes ==
  ASSUME Types, ReceiverStep
  PROVE  Types'
<1>1. ASSUME NEW n \in 1..Len(down), Receive(n) PROVE Types'
  BY <1>1, ReceiveTypes
<1>2. CASE ReceiveEnd
  <2>1. UNCHANGED <<process, subscriptions, peer, out, half, up, down, buffer,
                    handed, sends, breaks, overlap, step, call, calls>>
    BY <1>2 DEF ReceiveEnd, appVars
  <2>2. fd' = "closed" /\ recv' = "connecting" /\ torn' \in BOOLEAN
    BY <1>2 DEF ReceiveEnd, Types, TypeOK
  <2> QED
    BY <2>1, <2>2 DEF Types, TypeOK, SeqInv
<1>3. CASE Connect
  <2>1. UNCHANGED <<process, subscriptions, out, half, sends, breaks, buffer,
                    handed, torn, step, call, calls>>
    BY <1>3 DEF Connect, appVars, parseVars
  <2>2. /\ fd' = "open" /\ peer' = "open" /\ recv' = "resend" /\ overlap' \in BOOLEAN
        /\ up' = <<>> /\ down' = <<>>
    BY <1>3 DEF Connect, Busy
  <2>3. SeqInv'
    BY <2>1, <2>2 DEF Types, SeqInv
  <2>4. /\ \A i \in 1..Len(up') : up'[i].of \in Frame /\ up'[i].part \in {1, 2}
        /\ \A i \in 1..Len(down') : down'[i].of \in 1..sends
    BY <2>2
  <2>5. TypeOK'
    BY <2>1, <2>2, <2>4 DEF Types, TypeOK
  <2> QED
    BY <2>3, <2>5 DEF Types
<1>4. CASE OnReconnect
  <2>1. UNCHANGED <<subscriptions, half, up, overlap, step, call, calls, fd, peer,
                    down, sends, breaks, buffer, handed, torn>>
    BY <1>4 DEF OnReconnect, appVars, wireVars, parseVars
  <2>2. PICK S \in {Resent, IF step = "modify" THEN After(call) ELSE Resent} :
          out' = [out EXCEPT !["receiver"] = Update(S)]
    BY <1>4 DEF OnReconnect
  <2>3. S \in SUBSET Classes
    BY AfterType DEF Resent, Types, TypeOK
  <2>4. Update(S) \in Frame
    BY <2>3, UpdateType
  <2>5. out' \in [Threads -> Frame \union {NoFrame}]
    BY <2>2, <2>4 DEF Types, TypeOK
  <2>6. recv' = "sending" /\ process' \in {"up", "corrupted"}
    BY <1>4 DEF OnReconnect
  <2> QED
    BY <2>1, <2>5, <2>6 DEF Types, TypeOK, SeqInv
<1>5. CASE Restart
  <2>1. UNCHANGED <<subscriptions, out, half, up, overlap, step, call, calls, fd, peer,
                    down, sends, breaks, buffer, handed, torn>>
    BY <1>5 DEF Restart, appVars, wireVars, parseVars
  <2>2. recv' = "receiving" /\ process' \in {"up", "aborted"}
    BY <1>5 DEF Restart
  <2> QED
    BY <2>1, <2>2 DEF Types, TypeOK, SeqInv
<1>6. ASSUME NEW finished \in BOOLEAN, ReceiverSend(finished) PROVE Types'
  <2>1. UNCHANGED <<subscriptions, overlap, step, call, calls, fd, peer,
                    down, sends, breaks, buffer, handed, torn>>
    BY <1>6 DEF ReceiverSend, appVars, wireVars, parseVars
  <2>2. recv' \in {"restart", "sending"} /\ Write("receiver", finished)
    BY <1>6 DEF ReceiverSend
  <2>3. /\ process' \in {"up", "killed", "aborted", "corrupted"}
        /\ up' \in Seq(UpPart)
        /\ out' \in [Threads -> Frame \union {NoFrame}]
        /\ half' \in [Threads -> BOOLEAN]
    BY <2>2, WriteTypes DEF Threads
  <2>4. \A i \in 1..Len(up') : up'[i].of \in Frame /\ up'[i].part \in {1, 2}
    BY <2>3, UpTypes
  <2>5. SeqInv'
    BY <2>1, <2>3 DEF Types, SeqInv
  <2>6. TypeOK'
    BY <2>1, <2>2, <2>3, <2>4 DEF Types, TypeOK
  <2> QED
    BY <2>5, <2>6 DEF Types
<1> QED
  BY <1>1, <1>2, <1>3, <1>4, <1>5, <1>6 DEF ReceiverStep

(* The relay and the network. *)
LEMMA PeerTypes ==
  ASSUME Types, RelaySend \/ \E k \in 0..Len(down) : Break(k)
  PROVE  Types'
<1>1. CASE RelaySend
  <2>1. UNCHANGED <<process, subscriptions, fd, peer, recv, out, half, up, breaks,
                    overlap, step, call, calls, buffer, handed, torn>>
    BY <1>1 DEF RelaySend, appVars, parseVars
  <2>2. sends' = sends + 1 /\ sends \in Nat /\ sends' \in 0..MaxMessages
    BY <1>1 DEF RelaySend, Types, TypeOK
  <2>3. PICK e \in Nat : e = sends'
    BY <2>2
  <2>4. /\ Parts(e) \in Seq(DownPart) /\ Len(Parts(e)) = 2
        /\ Parts(e)[1].of = e /\ Parts(e)[2].of = e
    BY DEF Parts, Part, DownPart
  <2>5. down' = down \o Parts(e) /\ down \in Seq(DownPart)
    BY <1>1, <2>3 DEF RelaySend, Types, SeqInv
  <2>6. down' \in Seq(DownPart)
    BY <2>4, <2>5, Joined
  <2>7. From(down, 1..sends') /\ From(buffer, 1..sends') /\ From(Parts(e), 1..sends')
    BY <2>2, <2>3, <2>4 DEF From, Types, TypeOK
  <2>8. From(down', 1..sends')
    BY <2>4, <2>5, <2>7, FromJoined
  <2>9. SeqInv'
    BY <2>1, <2>6 DEF Types, SeqInv
  <2>10. TypeOK'
    BY <2>1, <2>2, <2>7, <2>8 DEF Types, TypeOK, From
  <2> QED
    BY <2>9, <2>10 DEF Types
<1>2. ASSUME NEW k \in 0..Len(down), Break(k) PROVE Types'
  <2>1. UNCHANGED <<process, subscriptions, fd, recv, out, half, up, sends,
                    overlap, step, call, calls, buffer, handed, torn>>
    BY <1>2 DEF Break, appVars, parseVars
  <2>2. peer' = "broken" /\ breaks' \in 0..MaxBreaks /\ down' = SubSeq(down, 1, k)
    BY <1>2 DEF Break, Types, TypeOK
  <2>3. /\ down' \in Seq(DownPart) /\ Len(down') = k
        /\ \A i \in 1..k : down'[i] = down[i]
    BY <2>2, Before DEF Types, SeqInv
  <2>4. ASSUME NEW i \in 1..Len(down') PROVE down'[i].of \in 1..sends
    BY <2>3 DEF Types, TypeOK
  <2>5. SeqInv'
    BY <2>1, <2>3 DEF Types, SeqInv
  <2>6. TypeOK'
    BY <2>1, <2>2, <2>4 DEF Types, TypeOK
  <2> QED
    BY <2>5, <2>6 DEF Types
<1> QED
  BY <1>1, <1>2

LEMMA NextTypes == Types /\ [Next]_vars => Types'
<1> SUFFICES ASSUME Types, [Next]_vars PROVE Types'
  OBVIOUS
<1>1. CASE Next
  BY <1>1, CallerTypes, ReceiverTypes, PeerTypes DEF Next
<1>2. CASE UNCHANGED vars
  BY <1>2 DEF vars, Types, TypeOK, SeqInv
<1> QED
  BY <1>1, <1>2

(* Every variable keeps its type, whatever the program calls and however   *)
(* often the connection is lost.                                           *)
THEOREM TypeCorrect == Spec => []TypeOK
<1>1. Types => TypeOK
  BY DEF Types
<1> QED
  BY <1>1, InitTypes, NextTypes, PTL DEF Spec

-----------------------------------------------------------------------------
(* What Write() leaves of a frame. *)
LEMMA WriteFrame ==
  ASSUME Types, NEW t \in Threads, NEW finished \in BOOLEAN, Write(t, finished)
  PROVE  /\ out[t] \in Frame
         /\ finished => /\ out' = [out EXCEPT ![t] = NoFrame]
                        /\ half' = [half EXCEPT ![t] = FALSE]
                        /\ fd = "open" /\ peer = "open" => up' = up \o Left(t)
         /\ ~finished => /\ out' = out /\ half' = [half EXCEPT ![t] = TRUE] /\ ~half[t]
                         /\ up' = Append(up, Part(out[t], 1))
<1>1. out[t] \in Frame
  BY DEF Types, TypeOK, Write
<1>2. CASE finished
  BY <1>1, <1>2 DEF Write, Done
<1>3. CASE ~finished
  BY <1>1, <1>3 DEF Write
<1> QED
  BY <1>2, <1>3

LEMMA InitControl == Init => ControlInv
BY DEF Init, ControlInv, NoCall, Threads

LEMMA CallerControl ==
  ASSUME Types, ControlInv, CallerStep \/ \E c \in Call : Begin(c)
  PROVE  ControlInv'
<1>0. /\ out \in [Threads -> Frame \union {NoFrame}] /\ half \in [Threads -> BOOLEAN]
      /\ step \in {"idle", "modify", "send"} /\ call \in Call \union {NoCall}
      /\ "caller" \in Threads /\ "receiver" \in Threads
  BY DEF Types, TypeOK, Threads
<1>1. UNCHANGED <<recv, fd, peer>>
  BY DEF CallerStep, Begin, Modify, CallerSend, wireVars
<1>2. out'["receiver"] = out["receiver"] /\ half'["receiver"] = half["receiver"]
  <2>1. ASSUME NEW finished \in BOOLEAN, CallerSend(finished) PROVE <1>2!:
    BY <1>0, <2>1, WriteFrame DEF CallerSend
  <2> QED
    BY <1>0, <2>1 DEF CallerStep, Begin, Modify
<1>3. \A c \in Call : c # NoCall /\ c.op \in {"subscribe", "unsubscribe", "setSubscriptions", "broadcast"}
  BY DEF Call, NoCall
<1>4. /\ step' = "idle" <=> call' = NoCall
      /\ step' # "send" => out'["caller"] = NoFrame /\ ~half'["caller"]
      /\ step' = "modify" => call'.op # "broadcast"
      /\ step' = "send" => out'["caller"] = Sending'
  <2>1. ASSUME NEW c \in Call, Begin(c) PROVE <1>4!:
    <3>0. /\ step = "idle" /\ UNCHANGED <<half, subscriptions>> /\ call = NoCall
          /\ out["caller"] = NoFrame /\ ~half["caller"]
      BY <2>1 DEF Begin, ControlInv
    <3>1. CASE UNCHANGED <<step, call, out, overlap>>
      BY <3>0, <3>1
    <3>2. CASE c.op \in {"subscribe", "unsubscribe"} /\ call' = c /\ step' = "modify" /\ UNCHANGED out
      BY <1>3, <3>0, <3>2
    <3>3. CASE /\ c.op = "broadcast" /\ call' = c /\ step' = "send"
               /\ out' = [out EXCEPT !["caller"] = [kind |-> "publish"]]
      BY <1>0, <1>3, <3>0, <3>3 DEF Sending
    <3>4. CASE /\ c.op = "setSubscriptions" /\ call' = c /\ step' = "send"
               /\ out' = [out EXCEPT !["caller"] = Update(c.classes)]
      BY <1>0, <1>3, <3>0, <3>4 DEF Sending, Update
    <3> QED
      BY <1>3, <2>1, <3>1, <3>2, <3>3, <3>4 DEF Begin
  <2>2. CASE Modify
    <3>0. /\ step = "modify" /\ UNCHANGED half /\ call # NoCall /\ call \in Call
          /\ out["caller"] = NoFrame /\ ~half["caller"] /\ call.op # "broadcast"
          /\ subscriptions' = After(call)
      BY <1>0, <2>2 DEF Modify, ControlInv
    <3>1. CASE call.op = "setSubscriptions"
      BY <2>2, <3>0, <3>1 DEF Modify
    <3>2. CASE call.op # "setSubscriptions"
      <4>1. /\ step' = "send" /\ call' = call
            /\ out' = [out EXCEPT !["caller"] = Update(After(call))]
        BY <2>2, <3>2 DEF Modify
      <4>2. out'["caller"] = Update(subscriptions')
        BY <1>0, <3>0, <4>1
      <4>3. Sending' = Update(subscriptions')
        BY <3>0, <3>2, <4>1 DEF Sending, Update
      <4> QED
        BY <3>0, <4>1, <4>2, <4>3
    <3> QED
      BY <3>1, <3>2
  <2>3. ASSUME NEW finished \in BOOLEAN, CallerSend(finished) PROVE <1>4!:
    <3>0. /\ step = "send" /\ UNCHANGED subscriptions /\ call # NoCall /\ call \in Call
          /\ out["caller"] = Sending /\ Write("caller", finished)
      BY <1>0, <2>3 DEF CallerSend, ControlInv
    <3>1. CASE finished
      <4>1. /\ out'["caller"] = NoFrame /\ half'["caller"] = FALSE
        BY <1>0, <3>0, <3>1, WriteFrame
      <4>2. \/ call.op = "setSubscriptions" /\ step' = "modify" /\ call' = call
            \/ step' = "idle" /\ call' = NoCall
        BY <2>3, <3>1 DEF CallerSend
      <4> QED
        BY <3>0, <4>1, <4>2
    <3>2. CASE ~finished
      <4>1. out' = out /\ step' = "send" /\ call' = call
        BY <1>0, <2>3, <3>0, <3>2, WriteFrame DEF CallerSend
      <4>2. Sending' = Sending
        BY <3>0, <4>1 DEF Sending, Update
      <4> QED
        BY <3>0, <4>1, <4>2
    <3> QED
      BY <3>1, <3>2
  <2> QED
    BY <2>1, <2>2, <2>3 DEF CallerStep
<1> QED
  BY <1>1, <1>2, <1>4 DEF ControlInv

LEMMA ReceiverControl ==
  ASSUME Types, ControlInv, ReceiverStep
  PROVE  ControlInv'
<1>0. /\ out \in [Threads -> Frame \union {NoFrame}] /\ half \in [Threads -> BOOLEAN]
      /\ "caller" \in Threads /\ "receiver" \in Threads
  BY DEF Types, TypeOK, Threads
<1>1. UNCHANGED <<step, call, subscriptions>>
  BY DEF ReceiverStep, Receive, ReceiveEnd, Connect, OnReconnect, Restart,
         ReceiverSend, appVars
<1>2. out'["caller"] = out["caller"] /\ half'["caller"] = half["caller"]
  <2>1. ASSUME NEW finished \in BOOLEAN, ReceiverSend(finished) PROVE <1>2!:
    BY <1>0, <2>1, WriteFrame DEF ReceiverSend
  <2>2. CASE OnReconnect
    BY <1>0, <2>2 DEF OnReconnect
  <2> QED
    BY <1>0, <2>1, <2>2 DEF ReceiverStep, Receive, ReceiveEnd, Connect, Restart
<1>3. Sending' = Sending
  BY <1>1 DEF Sending, Update
<1>4. /\ recv' # "sending" => out'["receiver"] = NoFrame /\ ~half'["receiver"]
      /\ recv' = "sending" => out'["receiver"].kind = "setSubscriptions"
      /\ recv' = "connecting" => fd' = "closed"
      /\ fd' = "closed" => peer' = "broken"
  <2>1. ASSUME NEW n \in 1..Len(down), Receive(n) PROVE <1>4!:
    BY <2>1 DEF Receive, ControlInv
  <2>2. CASE ReceiveEnd
    BY <2>2 DEF ReceiveEnd, ControlInv
  <2>3. CASE Connect
    BY <2>3 DEF Connect, ControlInv
  <2>4. CASE OnReconnect
    <3>1. out'["receiver"].kind = "setSubscriptions"
      BY <1>0, <2>4 DEF OnReconnect, Update
    <3>2. recv' = "sending" /\ UNCHANGED <<fd, peer>>
      BY <2>4 DEF OnReconnect, wireVars
    <3> QED
      BY <3>1, <3>2 DEF ControlInv
  <2>5. CASE Restart
    <3>1. UNCHANGED <<out, half, fd, peer>> /\ recv = "restart" /\ recv' = "receiving"
      BY <2>5 DEF Restart, wireVars
    <3> QED
      BY <3>1 DEF ControlInv
  <2>6. ASSUME NEW finished \in BOOLEAN, ReceiverSend(finished) PROVE <1>4!:
    <3>1. /\ recv = "sending" /\ Write("receiver", finished) /\ UNCHANGED <<fd, peer>>
          /\ recv' = IF finished THEN "restart" ELSE "sending"
      BY <2>6 DEF ReceiverSend, wireVars
    <3>2. CASE finished
      <4>1. out'["receiver"] = NoFrame /\ half'["receiver"] = FALSE
        BY <1>0, <3>1, <3>2, WriteFrame
      <4> QED
        BY <3>1, <3>2, <4>1 DEF ControlInv
    <3>3. CASE ~finished
      <4>1. out' = out
        BY <1>0, <3>1, <3>3, WriteFrame
      <4> QED
        BY <3>1, <3>3, <4>1 DEF ControlInv
    <3> QED
      BY <3>2, <3>3
  <2> QED
    BY <2>1, <2>2, <2>3, <2>4, <2>5, <2>6 DEF ReceiverStep
<1>5. /\ step' = "idle" <=> call' = NoCall
      /\ step' # "send" => out'["caller"] = NoFrame /\ ~half'["caller"]
      /\ step' = "modify" => call'.op # "broadcast"
      /\ step' = "send" => out'["caller"] = Sending'
  BY <1>1, <1>2, <1>3 DEF ControlInv
<1> QED
  BY <1>4, <1>5 DEF ControlInv

LEMMA PeerControl ==
  ASSUME ControlInv, RelaySend \/ \E k \in 0..Len(down) : Break(k)
  PROVE  ControlInv'
<1>1. UNCHANGED <<subscriptions, fd, recv, out, half, step, call>>
  BY DEF RelaySend, Break, appVars
<1>2. peer' = peer \/ peer' = "broken"
  BY DEF RelaySend, Break
<1> QED
  BY <1>1, <1>2 DEF ControlInv, Sending, Update

-----------------------------------------------------------------------------
(* What the relay finds, step by step. *)
LEMMA InitWire == Init => WireInv
<1> SUFFICES ASSUME Init PROVE WireInv
  OBVIOUS
<1>1. /\ up = <<>> /\ step = "idle" /\ recv = "receiving" /\ subscriptions = {}
      /\ ~half["caller"]
  BY DEF Init, Threads
<1>2. Whole(up) /\ up \in Seq(UpPart)
  <2>1. Len(up) = 2 * 0 /\ 0 \in Nat
    BY <1>1
  <2> QED
    BY <1>1, <2>1 DEF Whole
<1>3. View(up) = {}
  <2>1. Updates(up) = {}
    BY <1>1 DEF Updates
  <2> QED
    BY <2>1 DEF View
<1>4. up = up \o Begun("caller")
  BY <1>1 DEF Begun
<1>5. Known(up)
  BY <1>1, <1>3 DEF Known
<1> QED
  BY <1>1, <1>2, <1>4, <1>5 DEF WireInv, Wired, Resending

LEMMA Pair ==
  ASSUME NEW S, NEW a \in S, NEW b \in S
  PROVE  <<a>> \o <<b>> = <<a, b>>
<1>0. <<a>> \in Seq(S) /\ <<b>> \in Seq(S) /\ <<a, b>> \in Seq(S)
  OBVIOUS
<1>1. PICK x \in Seq(S), y \in Seq(S) : x = <<a>> /\ y = <<b>>
  BY <1>0, Zenon
<1>2. PICK z \in Seq(S), w \in Seq(S) : z = x \o y /\ w = <<a, b>>
  <2>1. x \o y \in Seq(S)
    BY Joined
  <2> QED
    BY <1>0, <2>1, Zenon
<1>3. /\ Len(x) = 1 /\ Len(y) = 1 /\ x[1] = a /\ y[1] = b
      /\ Len(w) = 2 /\ w[1] = a /\ w[2] = b
  BY <1>1, <1>2
<1>4. /\ Len(z) = Len(x) + Len(y)
      /\ \A i \in 1..Len(x) : z[i] = x[i]
      /\ \A i \in 1..Len(y) : z[Len(x) + i] = y[i]
  BY <1>2, Joined
<1>5. Len(z) = 2 /\ z[1] = a /\ z[2] = b
  BY <1>3, <1>4
<1>6. z = w
  BY <1>3, <1>5, SeqEqual
<1> QED
  BY <1>1, <1>2, <1>6

(* A frame behind whole frames is finished. *)
LEMMA WriteWhole ==
  ASSUME Types, NEW t \in Threads, Write(t, TRUE), fd = "open", peer = "open",
         NEW u \in Seq(UpPart), Whole(u), up = u \o Begun(t)
  PROVE  up' = u \o Parts(out[t])
<1>1. /\ out[t] \in Frame /\ up' = up \o Left(t) /\ half[t] \in BOOLEAN
  BY WriteFrame DEF Types, TypeOK
<1>2. PICK f \in Frame : f = out[t]
  BY <1>1
<1>3. CASE half[t]
  <2>1. /\ Begun(t) = <<Part(f, 1)>> /\ Left(t) = <<Part(f, 2)>>
    BY <1>2, <1>3 DEF Begun, Left
  <2>2. /\ <<Part(f, 1)>> \in Seq(UpPart) /\ <<Part(f, 2)>> \in Seq(UpPart)
    BY PartsType
  <2>3. <<Part(f, 1)>> \o <<Part(f, 2)>> = Parts(f)
    BY PartsType, Pair DEF Parts
  <2>4. (u \o <<Part(f, 1)>>) \o <<Part(f, 2)>> = u \o (<<Part(f, 1)>> \o <<Part(f, 2)>>)
    BY <2>2, ConcatAssociative
  <2> QED
    BY <1>1, <1>2, <2>1, <2>3, <2>4
<1>4. CASE ~half[t]
  <2>1. Begun(t) = <<>> /\ Left(t) = Parts(f)
    BY <1>2, <1>4 DEF Begun, Left
  <2>2. u \o <<>> = u
    BY ConcatEmptySeq
  <2> QED
    BY <1>1, <1>2, <2>1, <2>2
<1> QED
  BY <1>1, <1>3, <1>4

(* ... or begun. *)
LEMMA WriteBegun ==
  ASSUME Types, NEW t \in Threads, Write(t, FALSE), NEW u \in Seq(UpPart), up = u \o Begun(t)
  PROVE  up' = u \o Begun(t)'
<1>1. /\ out[t] \in Frame /\ up' = Append(up, Part(out[t], 1)) /\ ~half[t]
      /\ out' = out /\ half'[t] = TRUE
  BY WriteFrame DEF Types, TypeOK
<1>2. PICK f \in Frame : f = out[t]
  BY <1>1
<1>3. up = u
  BY <1>1, ConcatEmptySeq DEF Begun
<1>4. Append(u, Part(f, 1)) = u \o <<Part(f, 1)>>
  BY PartsType, AppendIsConcat
<1>5. Begun(t)' = <<Part(f, 1)>>
  BY <1>1, <1>2 DEF Begun, Part
<1> QED
  BY <1>1, <1>2, <1>3, <1>4, <1>5

(* The relay's view depends on nothing but the parts. *)
LEMMA ViewConstant == ASSUME NEW CONSTANT u PROVE View(u)' = View(u)
BY DEF View, Updates, Part

LEMMA CallerWire ==
  ASSUME Types, ControlInv, WireInv, CallerStep \/ \E c \in Call : Begin(c)
  PROVE  WireInv'
<1> SUFFICES ASSUME peer' = "open", ~overlap' PROVE Wired'
  BY DEF WireInv
<1>0. /\ peer = "open" /\ fd = "open" /\ recv' = recv /\ recv # "connecting"
      /\ recv \in {"receiving", "connecting", "resend", "sending", "restart"}
      /\ Resending' = Resending /\ step \in {"idle", "modify", "send"}
      /\ half["caller"] \in BOOLEAN /\ "caller" \in Threads
      /\ call \in Call \union {NoCall}
  BY DEF CallerStep, Begin, Modify, CallerSend, wireVars, ControlInv, Types, TypeOK,
         Resending, Threads
<1>1. ASSUME NEW c \in Call, Begin(c) PROVE Wired'
  <2>0. /\ step = "idle" /\ UNCHANGED <<half, subscriptions, up>> /\ call = NoCall
        /\ ~half["caller"]
    BY <1>1 DEF Begin, ControlInv
  <2>1. CASE UNCHANGED <<step, call, out, overlap>>
    <3>1. /\ Begun("caller")' = Begun("caller") /\ Begun("receiver")' = Begun("receiver")
          /\ \A u : Known(u)' = Known(u)
      BY <2>0, <2>1, ViewConstant DEF Begun, Known
    <3> QED
      BY <1>0, <2>0, <2>1, <3>1 DEF WireInv, Wired, Update
  <2>2. CASE ~ UNCHANGED <<step, call, out, overlap>>
    <3>1. /\ ~Resending /\ ~overlap /\ call' = c
          /\ \/ c.op \in {"subscribe", "unsubscribe"} /\ step' = "modify"
             \/ c.op \notin {"subscribe", "unsubscribe"} /\ step' = "send"
      BY <1>1, <2>2 DEF Begin
    <3>2. recv = "receiving"
      BY <1>0, <3>1 DEF Resending
    <3>3. PICK u \in Seq(UpPart) : up = u \o Begun("caller") /\ Whole(u) /\ Known(u)
      BY <1>0, <3>1, <3>2 DEF WireInv, Wired
    <3>4. Begun("caller") = <<>> /\ Begun("caller")' = <<>>
      BY <2>0 DEF Begun
    <3>5. View(u) = subscriptions
      BY <2>0, <3>3 DEF Known
    <3>6. Known(u)'
      BY <2>0, <3>1, <3>5, ViewConstant DEF Known
    <3> QED
      BY <1>0, <2>0, <3>2, <3>3, <3>4, <3>6 DEF Wired, Resending
  <2> QED
    BY <2>1, <2>2
<1>2. CASE Modify
  <2>0. /\ step = "modify" /\ UNCHANGED <<half, up>> /\ ~overlap /\ call \in Call
        /\ ~half["caller"] /\ subscriptions' = After(call)
    BY <1>0, <1>2 DEF Modify, ControlInv
  <2>1. recv = "receiving"
    BY <1>0, <2>0 DEF WireInv, Wired, Resending
  <2>2. PICK u \in Seq(UpPart) : up = u \o Begun("caller") /\ Whole(u) /\ Known(u)
    BY <1>0, <2>0, <2>1 DEF WireInv, Wired
  <2>3. Begun("caller") = <<>> /\ Begun("caller")' = <<>>
    BY <2>0 DEF Begun
  <2>4. Known(u)'
    <3>1. CASE call.op = "setSubscriptions"
      <4>1. View(u) = call.classes /\ subscriptions' = call.classes /\ step' = "idle"
        BY <1>2, <2>0, <2>2, <3>1 DEF Known, After, Modify
      <4> QED
        BY <4>1, ViewConstant DEF Known
    <3>2. CASE call.op # "setSubscriptions"
      <4>1. step' = "send" /\ call' = call /\ call.op # "broadcast"
        BY <1>2, <2>0, <3>2 DEF Modify, ControlInv
      <4> QED
        BY <4>1 DEF Known
    <3> QED
      BY <3>1, <3>2
  <2> QED
    BY <1>0, <2>0, <2>1, <2>2, <2>3, <2>4 DEF Wired, Resending
<1>3. ASSUME NEW finished \in BOOLEAN, CallerSend(finished) PROVE Wired'
  <2>0. /\ step = "send" /\ UNCHANGED subscriptions /\ ~overlap
        /\ Write("caller", finished) /\ out["caller"] = Sending /\ out["caller"] \in Frame
    BY <1>0, <1>3, WriteFrame DEF CallerSend, ControlInv
  <2>1. recv = "receiving"
    BY <1>0, <2>0 DEF WireInv, Wired, Resending
  <2>2. PICK u \in Seq(UpPart) : up = u \o Begun("caller") /\ Whole(u) /\ Known(u)
    BY <1>0, <2>0, <2>1 DEF WireInv, Wired
  <2>3. CASE finished
    <3>1. PICK f \in Frame : f = out["caller"]
      BY <2>0
    <3>2. PICK w \in Seq(UpPart) : w = u \o Parts(f)
      BY PartsType, Joined
    <3>3. up' = w
      BY <1>0, <2>0, <2>2, <2>3, <3>1, <3>2, WriteWhole
    <3>4. Whole(w) /\ View(w) = IF f.kind = "setSubscriptions" THEN f.classes ELSE View(u)
      BY <2>2, <3>2, WholeAppend, ViewAppend
    <3>5. half'["caller"] = FALSE
      BY <1>0, <2>0, <2>3, WriteFrame DEF Types, TypeOK
    <3>6. Begun("caller")' = <<>> /\ w \o <<>> = w
      BY <3>5, ConcatEmptySeq DEF Begun
    <3>7. Known(w)'
      <4>1. CASE call.op = "broadcast"
        <5>1. View(w) = subscriptions /\ step' = "idle"
          BY <1>3, <2>0, <2>2, <2>3, <3>1, <3>4, <4>1 DEF Sending, Known, CallerSend
        <5> QED
          BY <2>0, <5>1, ViewConstant DEF Known
      <4>2. CASE call.op = "setSubscriptions"
        <5>1. View(w) = call.classes /\ step' = "modify" /\ call' = call
          BY <1>3, <2>0, <2>3, <3>1, <3>4, <4>2 DEF Sending, Update, CallerSend
        <5> QED
          BY <4>2, <5>1, ViewConstant DEF Known
      <4>3. CASE call.op \notin {"broadcast", "setSubscriptions"}
        <5>1. View(w) = subscriptions /\ step' = "idle"
          BY <1>3, <2>0, <2>3, <3>1, <3>4, <4>3 DEF Sending, Update, CallerSend
        <5> QED
          BY <2>0, <5>1, ViewConstant DEF Known
      <4> QED
        BY <4>1, <4>2, <4>3
    <3>8. up' = w \o Begun("caller")'
      BY <3>3, <3>6
    <3> QED
      BY <1>0, <2>1, <3>4, <3>7, <3>8 DEF Wired, Resending
  <2>4. CASE ~finished
    <3>1. up' = u \o Begun("caller")'
      BY <1>0, <2>0, <2>2, <2>4, WriteBegun
    <3>2. step' = "send" /\ call' = call
      BY <1>3, <2>4 DEF CallerSend
    <3>3. Known(u)'
      BY <2>0, <2>2, <3>2, ViewConstant DEF Known
    <3> QED
      BY <1>0, <2>1, <2>2, <3>1, <3>3 DEF Wired, Resending
  <2> QED
    BY <2>3, <2>4
<1> QED
  BY <1>1, <1>2, <1>3 DEF CallerStep

LEMMA WiredUnchanged ==
  ASSUME UNCHANGED <<step, call, subscriptions, up, out, half>>
  PROVE  /\ Begun("caller")' = Begun("caller") /\ Begun("receiver")' = Begun("receiver")
         /\ \A u : Known(u)' = Known(u)
BY ViewConstant DEF Begun, Known, Part

LEMMA WholeEmpty == <<>> \in Seq(UpPart) /\ Whole(<<>>)
<1>1. Len(<<>>) = 2 * 0 /\ 0 \in Nat
  OBVIOUS
<1> QED
  BY <1>1 DEF Whole

LEMMA ReceiverWire ==
  ASSUME Types, ControlInv, WireInv, ReceiverStep
  PROVE  WireInv'
<1> SUFFICES ASSUME peer' = "open", ~overlap' PROVE Wired'
  BY DEF WireInv
<1>0. /\ "caller" \in Threads /\ "receiver" \in Threads
      /\ half \in [Threads -> BOOLEAN] /\ out \in [Threads -> Frame \union {NoFrame}]
      /\ fd \in {"open", "closed"}
  BY DEF Threads, Types, TypeOK
<1>1. ASSUME NEW n \in 1..Len(down), Receive(n) PROVE Wired'
  <2>1. UNCHANGED <<step, call, subscriptions, up, out, half, recv, peer, overlap>>
    BY <1>1 DEF Receive, appVars
  <2>2. Wired
    BY <2>1 DEF WireInv
  <2>3. recv' = "receiving" /\ recv = "receiving"
    BY <1>1 DEF Receive
  <2>4. PICK u \in Seq(UpPart) : up = u \o Begun("caller") /\ Whole(u) /\ Known(u)
    BY <2>2, <2>3 DEF Wired
  <2>5. up' = u \o Begun("caller")' /\ Known(u)'
    BY <2>1, <2>4, WiredUnchanged
  <2> QED
    BY <2>3, <2>4, <2>5 DEF Wired, Resending
<1>2. CASE ReceiveEnd
  BY <1>2 DEF ReceiveEnd
<1>3. CASE Connect
  <2>1. step' = "idle" /\ up' = <<>> /\ recv' = "resend"
    BY <1>3 DEF Connect, Busy, appVars
  <2> QED
    BY <2>1 DEF Wired
<1>4. CASE OnReconnect
  <2>1. /\ UNCHANGED <<step, call, subscriptions, up, half, peer, overlap>>
        /\ recv = "resend" /\ recv' = "sending"
    BY <1>4 DEF OnReconnect, appVars, wireVars
  <2>2. step = "idle" /\ up = <<>>
    BY <2>1 DEF WireInv, Wired, Resending
  <2>3. out'["receiver"] = Update(subscriptions)
    BY <1>0, <1>4, <2>2 DEF OnReconnect, Resent
  <2>4. Begun("receiver")' = <<>>
    BY <2>1 DEF Begun, ControlInv
  <2>5. Update(subscriptions)' = Update(subscriptions)
    BY <2>1 DEF Update
  <2> QED
    BY <2>1, <2>2, <2>3, <2>4, <2>5 DEF Wired
<1>5. CASE Restart
  <2>1. /\ UNCHANGED <<step, call, subscriptions, up, out, half, peer, overlap>>
        /\ recv = "restart" /\ recv' = "receiving"
    BY <1>5 DEF Restart, appVars, wireVars
  <2>2. PICK u \in Seq(UpPart) : up = u \o Begun("caller") /\ Whole(u) /\ Known(u)
    BY <2>1 DEF WireInv, Wired
  <2>3. up' = u \o Begun("caller")' /\ Known(u)'
    BY <2>1, <2>2, WiredUnchanged
  <2> QED
    BY <2>1, <2>2, <2>3 DEF Wired, Resending
<1>6. ASSUME NEW finished \in BOOLEAN, ReceiverSend(finished) PROVE Wired'
  <2>1. /\ UNCHANGED <<step, call, subscriptions, peer, fd, overlap>>
        /\ recv = "sending" /\ Write("receiver", finished)
        /\ recv' = IF finished THEN "restart" ELSE "sending"
    BY <1>6 DEF ReceiverSend, appVars, wireVars
  <2>2. /\ step = "idle" /\ out["receiver"] = Update(subscriptions)
        /\ up = Begun("receiver")
    BY <2>1 DEF WireInv, Wired, Resending
  <2>3. fd = "open"
    BY <1>0, <2>1 DEF ControlInv
  <2>4. PICK u \in Seq(UpPart) : u = <<>> /\ Whole(u)
    BY WholeEmpty
  <2>5. up = u \o Begun("receiver")
    <3>1. up \in Seq(UpPart)
      BY DEF Types, SeqInv
    <3>2. <<>> \o up = up
      BY <3>1, ConcatEmptySeq
    <3> QED
      BY <2>2, <2>4, <3>2
  <2>6. CASE finished
    <3>1. PICK f \in Frame : f = Update(subscriptions)
      BY UpdateType DEF Types, TypeOK
    <3>2. PICK w \in Seq(UpPart) : w = u \o Parts(f)
      BY PartsType, Joined
    <3>3. up' = w
      BY <1>0, <2>1, <2>2, <2>3, <2>4, <2>5, <2>6, <3>1, <3>2, WriteWhole
    <3>4. Whole(w) /\ View(w) = subscriptions
      BY <2>4, <3>1, <3>2, WholeAppend, ViewAppend DEF Update
    <3>5. half'["caller"] = FALSE
      <4>1. half' = [half EXCEPT !["receiver"] = FALSE]
        BY <1>0, <2>1, <2>6, WriteFrame
      <4> QED
        BY <1>0, <2>2, <4>1 DEF ControlInv
    <3>6. Begun("caller")' = <<>> /\ w \o <<>> = w
      BY <3>5, ConcatEmptySeq DEF Begun
    <3>7. Known(w)' /\ up' = w \o Begun("caller")' /\ step' = "idle"
      BY <2>1, <2>2, <3>3, <3>4, <3>6, ViewConstant DEF Known
    <3> QED
      BY <2>1, <2>6, <3>4, <3>7 DEF Wired
  <2>7. CASE ~finished
    <3>1. up' = u \o Begun("receiver")' /\ out' = out
      BY <1>0, <2>1, <2>5, <2>7, WriteBegun, WriteFrame
    <3>2. up' = Begun("receiver")'
      BY <2>4, <3>1 DEF Begun
    <3>3. Update(subscriptions)' = Update(subscriptions)
      BY <2>1 DEF Update
    <3> QED
      BY <2>1, <2>2, <2>7, <3>1, <3>2, <3>3 DEF Wired
  <2> QED
    BY <2>6, <2>7
<1> QED
  BY <1>1, <1>2, <1>3, <1>4, <1>5, <1>6 DEF ReceiverStep

LEMMA PeerWire ==
  ASSUME WireInv, RelaySend \/ \E k \in 0..Len(down) : Break(k)
  PROVE  WireInv'
<1>1. UNCHANGED <<step, call, subscriptions, up, out, half, recv, overlap>>
  BY DEF RelaySend, Break, appVars
<1>2. peer' = "open" => peer = "open"
  BY DEF RelaySend, Break
<1>3. Wired => Wired'
  <2> SUFFICES ASSUME Wired PROVE Wired'
    OBVIOUS
  <2>1. Update(subscriptions)' = Update(subscriptions)
    BY <1>1 DEF Update
  <2>2. ASSUME recv' \in {"restart", "receiving"}
        PROVE  \E u \in Seq(UpPart) :
                 up' = u \o Begun("caller")' /\ Whole(u) /\ Known(u)'
    <3>1. PICK u \in Seq(UpPart) : up = u \o Begun("caller") /\ Whole(u) /\ Known(u)
      BY <1>1, <2>2 DEF Wired
    <3> QED
      BY <1>1, <3>1, WiredUnchanged
  <2> QED
    BY <1>1, <2>1, <2>2, WiredUnchanged DEF Wired, Resending
<1> QED
  BY <1>1, <1>2, <1>3 DEF WireInv

-----------------------------------------------------------------------------
(* What is coming, when its first frames are taken, ...                    *)
LEMMA FramedRest ==
  ASSUME NEW p \in Seq(DownPart), NEW q \in Seq(DownPart), NEW n \in Nat, Len(p) = 2 * n,
         Framed(p \o q), Rising(p \o q)
  PROVE  /\ Framed(q) /\ Rising(q)
         /\ \A i \in 1..n : <<p[2 * i - 1], p[2 * i]>> = Parts(p[2 * i - 1].of)
         /\ \A i, j \in 1..n : i < j => p[2 * i - 1].of < p[2 * j - 1].of
         /\ \A i \in 1..n : \A k \in 1..Len(q) : p[2 * i - 1].of < q[k].of
<1>1. PICK c \in Seq(DownPart) : c = p \o q
  BY Joined
<1>2. /\ Len(c) = 2 * n + Len(q) /\ Len(q) \in Nat
      /\ \A i \in 1..2 * n : c[i] = p[i]
      /\ \A i \in 1..Len(q) : c[2 * n + i] = q[i]
  <2>1. /\ Len(p \o q) = Len(p) + Len(q) /\ Len(q) \in Nat
        /\ \A i \in 1..Len(p) : (p \o q)[i] = p[i]
        /\ \A i \in 1..Len(q) : (p \o q)[Len(p) + i] = q[i]
    BY Joined
  <2> QED
    BY <1>1, <2>1
<1>3. Framed(c) /\ Rising(c)
  BY <1>1
<1>4. ASSUME NEW k \in Nat, 2 * k + 1 \in 1..Len(q)
      PROVE  /\ q[2 * k + 1].part = 1 /\ q[2 * k + 1] = c[2 * (n + k) + 1]
             /\ n + k \in Nat /\ 2 * (n + k) + 1 \in 1..Len(c)
  <2>1. /\ n + k \in Nat /\ 2 * (n + k) + 1 \in 1..Len(c)
        /\ 2 * n + (2 * k + 1) = 2 * (n + k) + 1
    BY <1>2, <1>4
  <2>2. q[2 * k + 1] = c[2 * (n + k) + 1]
    BY <1>2, <1>4, <2>1
  <2>3. c[2 * (n + k) + 1].part = 1
    BY <1>3, <2>1 DEF Framed
  <2> QED
    BY <2>1, <2>2, <2>3
<1>5. ASSUME NEW k \in Nat, 2 * k + 2 \in 1..Len(q)
      PROVE  2 * k + 1 \in 1..Len(q) /\ q[2 * k + 2] = Part(q[2 * k + 1].of, 2)
  <2>1. /\ n + k \in Nat /\ 2 * (n + k) + 2 \in 1..Len(c) /\ 2 * k + 1 \in 1..Len(q)
        /\ 2 * n + (2 * k + 2) = 2 * (n + k) + 2
    BY <1>2, <1>5
  <2>2. q[2 * k + 2] = c[2 * (n + k) + 2]
    BY <1>2, <1>5, <2>1
  <2>3. c[2 * (n + k) + 2] = Part(c[2 * (n + k) + 1].of, 2)
    BY <1>3, <2>1 DEF Framed
  <2> QED
    BY <1>4, <2>1, <2>2, <2>3
<1>6. Framed(q)
  BY <1>4, <1>5 DEF Framed
<1>7. Rising(q)
  <2>1. ASSUME NEW j \in Nat, NEW k \in Nat, j < k, 2 * k + 1 \in 1..Len(q)
        PROVE  q[2 * j + 1].of < q[2 * k + 1].of
    <3>1. 2 * j + 1 \in 1..Len(q) /\ n + j < n + k
      <4>1. Len(q) \in Nat
        BY <1>2
      <4> QED
        BY <2>1, <4>1
    <3>2. PICK x \in Nat, y \in Nat : x = n + j /\ y = n + k
      OBVIOUS
    <3>3. c[2 * x + 1].of < c[2 * y + 1].of
      BY <1>3, <1>4, <2>1, <3>1, <3>2 DEF Rising
    <3> QED
      BY <1>4, <2>1, <3>1, <3>2, <3>3
  <2> QED
    BY <2>1 DEF Rising
<1>8. ASSUME NEW i \in 1..n
      PROVE  /\ i - 1 \in Nat /\ p[2 * i - 1] = c[2 * (i - 1) + 1]
             /\ 2 * (i - 1) + 1 \in 1..Len(c)
             /\ <<p[2 * i - 1], p[2 * i]>> = Parts(p[2 * i - 1].of)
  <2>1. PICK m \in Nat : m = i - 1
    OBVIOUS
  <2>2. /\ 2 * i - 1 = 2 * m + 1 /\ 2 * i = 2 * m + 2
        /\ 2 * m + 1 \in 1..2 * n /\ 2 * m + 2 \in 1..2 * n
        /\ 2 * m + 1 \in 1..Len(c) /\ 2 * m + 2 \in 1..Len(c)
    BY <1>2, <2>1
  <2>3. c[2 * m + 1].part = 1 /\ c[2 * m + 2] = Part(c[2 * m + 1].of, 2)
    BY <1>3, <2>2 DEF Framed
  <2>4. c[2 * m + 1] \in DownPart
    BY <2>2
  <2>5. c[2 * m + 1] = Part(c[2 * m + 1].of, 1)
    BY <2>3, <2>4 DEF DownPart, Part
  <2>6. p[2 * i - 1] = c[2 * m + 1] /\ p[2 * i] = c[2 * m + 2]
    BY <1>2, <2>2
  <2> QED
    BY <2>1, <2>2, <2>3, <2>5, <2>6 DEF Parts
<1>9. ASSUME NEW i \in 1..n, NEW j \in 1..n, i < j
      PROVE  p[2 * i - 1].of < p[2 * j - 1].of
  <2>1. PICK x \in Nat, y \in Nat : x = i - 1 /\ y = j - 1 /\ x < y
    BY <1>9
  <2>2. c[2 * x + 1].of < c[2 * y + 1].of
    BY <1>3, <1>8, <2>1 DEF Rising
  <2> QED
    BY <1>8, <2>1, <2>2
<1>10. ASSUME NEW i \in 1..n, NEW k \in 1..Len(q) PROVE p[2 * i - 1].of < q[k].of
  <2>1. PICK m \in Nat : k = 2 * m + 1 \/ k = 2 * m + 2
    <3>1. PICK m \in Nat : m = (k - 1) \div 2
      OBVIOUS
    <3>2. k = 2 * m + 1 \/ k = 2 * m + 2
      BY <3>1
    <3> QED
      BY <3>2
  <2>2. 2 * m + 1 \in 1..Len(q) /\ q[k].of = q[2 * m + 1].of
    <3>1. CASE k = 2 * m + 1
      BY <3>1
    <3>2. CASE k = 2 * m + 2
      <4>1. 2 * m + 2 \in 1..Len(q)
        BY <3>2
      <4>2. 2 * m + 1 \in 1..Len(q) /\ q[2 * m + 2] = Part(q[2 * m + 1].of, 2)
        BY <1>5, <4>1
      <4> QED
        BY <3>2, <4>2 DEF Part
    <3> QED
      BY <2>1, <3>1, <3>2
  <2>3. PICK x \in Nat, y \in Nat : x = i - 1 /\ y = n + m /\ x < y
    OBVIOUS
  <2>4. c[2 * x + 1].of < c[2 * y + 1].of
    BY <1>3, <1>4, <2>2, <2>3 DEF Rising
  <2> QED
    BY <1>4, <1>8, <2>2, <2>3, <2>4
<1> QED
  BY <1>6, <1>7, <1>8, <1>9, <1>10

(* ... when its end is lost, ... *)
LEMMA FramedStart ==
  ASSUME NEW p \in Seq(DownPart), NEW q \in Seq(DownPart), Framed(p \o q), Rising(p \o q)
  PROVE  Framed(p) /\ Rising(p)
<1>1. PICK c \in Seq(DownPart) : c = p \o q
  BY Joined
<1>2. /\ Len(c) = Len(p) + Len(q) /\ Len(p) \in Nat /\ Len(q) \in Nat
      /\ \A i \in 1..Len(p) : c[i] = p[i]
  BY <1>1, Joined
<1>3. Framed(c) /\ Rising(c)
  BY <1>1
<1>4. Framed(p)
  <2>1. ASSUME NEW k \in Nat, 2 * k + 1 \in 1..Len(p) PROVE p[2 * k + 1].part = 1
    <3>1. 2 * k + 1 \in 1..Len(c)
      BY <1>2, <2>1
    <3> QED
      BY <1>2, <1>3, <2>1, <3>1 DEF Framed
  <2>2. ASSUME NEW k \in Nat, 2 * k + 2 \in 1..Len(p)
        PROVE  p[2 * k + 2] = Part(p[2 * k + 1].of, 2)
    <3>1. 2 * k + 2 \in 1..Len(c) /\ 2 * k + 1 \in 1..Len(p)
      BY <1>2, <2>2
    <3>2. c[2 * k + 2] = Part(c[2 * k + 1].of, 2)
      BY <1>3, <3>1 DEF Framed
    <3> QED
      BY <1>2, <2>2, <3>1, <3>2
  <2> QED
    BY <2>1, <2>2 DEF Framed
<1>5. Rising(p)
  <2>1. ASSUME NEW j \in Nat, NEW k \in Nat, j < k, 2 * k + 1 \in 1..Len(p)
        PROVE  p[2 * j + 1].of < p[2 * k + 1].of
    <3>1. 2 * k + 1 \in 1..Len(c) /\ 2 * j + 1 \in 1..Len(p)
      BY <1>2, <2>1
    <3>2. c[2 * j + 1].of < c[2 * k + 1].of
      BY <1>3, <2>1, <3>1 DEF Rising
    <3> QED
      BY <1>2, <2>1, <3>1, <3>2
  <2> QED
    BY <2>1 DEF Rising
<1> QED
  BY <1>4, <1>5

LEMMA AppendTwo ==
  ASSUME NEW S, NEW s \in Seq(S), NEW r \in Seq(S), Len(r) = 2
  PROVE  /\ s \o r \in Seq(S) /\ Len(s \o r) = Len(s) + 2
         /\ \A i \in 1..Len(s) : (s \o r)[i] = s[i]
         /\ (s \o r)[Len(s) + 1] = r[1] /\ (s \o r)[Len(s) + 2] = r[2]
<1>1. /\ s \o r \in Seq(S) /\ Len(s \o r) = Len(s) + Len(r)
      /\ \A i \in 1..Len(s) : (s \o r)[i] = s[i]
      /\ \A i \in 1..Len(r) : (s \o r)[Len(s) + i] = r[i]
  BY Joined
<1> QED
  BY <1>1

(* ... and when a later frame follows. *)
LEMMA FramedAppend ==
  ASSUME NEW s \in Seq(DownPart), Framed(s), Rising(s), NEW n \in Nat, Len(s) = 2 * n,
         NEW e \in Nat, \A i \in 1..Len(s) : s[i].of < e
  PROVE  Framed(s \o Parts(e)) /\ Rising(s \o Parts(e)) /\ Len(s \o Parts(e)) = 2 * (n + 1)
<1>1. /\ Parts(e) \in Seq(DownPart) /\ Len(Parts(e)) = 2
      /\ Parts(e)[1] = Part(e, 1) /\ Parts(e)[2] = Part(e, 2)
  BY DEF Parts, Part, DownPart
<1>2. PICK c \in Seq(DownPart) : c = s \o Parts(e)
  BY <1>1, Joined
<1>3. /\ Len(c) = 2 * n + 2
      /\ \A i \in 1..2 * n : c[i] = s[i]
      /\ c[2 * n + 1] = Part(e, 1) /\ c[2 * n + 2] = Part(e, 2)
  <2>1. /\ Len(c) = Len(s) + 2 /\ \A i \in 1..Len(s) : c[i] = s[i]
        /\ c[Len(s) + 1] = Part(e, 1) /\ c[Len(s) + 2] = Part(e, 2)
    BY <1>1, <1>2, AppendTwo
  <2> QED
    BY <2>1
<1>4. ASSUME NEW k \in Nat, 2 * k + 1 \in 1..Len(c) PROVE c[2 * k + 1].part = 1
  <2>1. CASE k = n
    BY <1>3, <2>1 DEF Part
  <2>2. CASE k # n
    <3>1. 2 * k + 1 \in 1..2 * n
      BY <1>3, <1>4, <2>2
    <3> QED
      BY <1>3, <3>1 DEF Framed
  <2> QED
    BY <2>1, <2>2
<1>5. ASSUME NEW k \in Nat, 2 * k + 2 \in 1..Len(c)
      PROVE  c[2 * k + 2] = Part(c[2 * k + 1].of, 2)
  <2>1. CASE k = n
    BY <1>3, <2>1 DEF Part
  <2>2. CASE k # n
    <3>1. 2 * k + 1 \in 1..2 * n /\ 2 * k + 2 \in 1..2 * n
      BY <1>3, <1>5, <2>2
    <3>2. s[2 * k + 2] = Part(s[2 * k + 1].of, 2)
      BY <3>1 DEF Framed
    <3> QED
      BY <1>3, <3>1, <3>2
  <2> QED
    BY <2>1, <2>2
<1>6. ASSUME NEW j \in Nat, NEW k \in Nat, j < k, 2 * k + 1 \in 1..Len(c)
      PROVE  c[2 * j + 1].of < c[2 * k + 1].of
  <2>1. 2 * j + 1 \in 1..2 * n /\ k <= n
    BY <1>3, <1>6
  <2>2. CASE k = n
    BY <1>3, <2>1, <2>2 DEF Part
  <2>3. CASE k # n
    <3>1. 2 * k + 1 \in 1..2 * n
      BY <2>1, <2>3
    <3>2. s[2 * j + 1].of < s[2 * k + 1].of
      BY <1>6, <3>1 DEF Rising
    <3> QED
      BY <1>3, <2>1, <3>1, <3>2
  <2> QED
    BY <2>2, <2>3
<1>7. Framed(c) /\ Rising(c)
  BY <1>4, <1>5, <1>6 DEF Framed, Rising
<1>8. Len(c) = 2 * (n + 1)
  BY <1>3
<1> QED
  BY <1>2, <1>7, <1>8

(* The frames handed over are delivered in order, before all that comes.   *)
LEMMA DeliveredMore ==
  ASSUME NEW p \in Seq(DownPart), NEW q \in Seq(DownPart), NEW n \in Nat, Len(p) = 2 * n,
         NEW N \in Nat, Framed(p \o q), Rising(p \o q), From(p \o q, 1..N),
         NEW S, NEW h \in Seq(S), NEW g \in Seq(S), Delivered(h, p \o q, N),
         HandsOver(p, n, h, g)
  PROVE  Delivered(g, q, N)
<1> DEFINE m(i) == g[i][1].of
           Good(i) == /\ g[i] = Parts(m(i)) /\ m(i) \in 1..N
                      /\ \A j \in 1..Len(g) : i < j => m(i) < m(j)
                      /\ \A k \in 1..Len(q) : m(i) < q[k].of
<1>a. Len(h) \in Nat /\ Len(q) \in Nat
  OBVIOUS
<1>b. /\ Len(g) = Len(h) + n /\ \A i \in 1..Len(h) : g[i] = h[i]
      /\ \A i \in 1..n : g[Len(h) + i] = <<p[2 * i - 1], p[2 * i]>>
  BY Zenon DEF HandsOver
<1>d. Len(g) = Len(h) + n /\ Len(p) \in Nat
  BY <1>b
<1>c. PICK c \in Seq(DownPart) : c = p \o q /\ Joins(c, p, q)
  BY JoinsConcat
<1>1. /\ c = p \o q /\ Len(c) = Len(p) + Len(q)
      /\ \A i \in 1..Len(p) : c[i] = p[i]
      /\ \A i \in 1..Len(q) : c[Len(p) + i] = q[i]
  BY <1>c, Zenon DEF Joins
<1>2. \A i \in 1..Len(c) : c[i].of \in 1..N
  BY <1>1 DEF From
<1>3. /\ \A i \in 1..n : <<p[2 * i - 1], p[2 * i]>> = Parts(p[2 * i - 1].of)
      /\ \A i, j \in 1..n : i < j => p[2 * i - 1].of < p[2 * j - 1].of
      /\ \A i \in 1..n : \A k \in 1..Len(q) : p[2 * i - 1].of < q[k].of
  BY FramedRest
<1>4. ASSUME NEW i \in 1..n
      PROVE  /\ 2 * i - 1 \in 1..Len(p) /\ 2 * i - 1 \in 1..Len(c)
             /\ m(Len(h) + i) = p[2 * i - 1].of /\ p[2 * i - 1].of \in 1..N
             /\ g[Len(h) + i] = Parts(p[2 * i - 1].of)
  <2>1. 2 * i - 1 \in 1..Len(p) /\ 2 * i - 1 \in 1..Len(c)
    BY <1>a, <1>b, <1>1
  <2>2. g[Len(h) + i] = <<p[2 * i - 1], p[2 * i]>>
    BY <1>a, <1>b
  <2>3. p[2 * i - 1].of \in 1..N
    BY <1>1, <1>2, <2>1
  <2> QED
    BY <1>3, <2>1, <2>2, <2>3
<1>5. ASSUME NEW i \in 1..Len(h)
      PROVE  /\ g[i] = Parts(m(i)) /\ m(i) \in 1..N
             /\ \A j \in 1..Len(h) : i < j => m(i) < m(j)
             /\ \A k \in 1..Len(c) : m(i) < c[k].of
  BY <1>a, <1>b, <1>1 DEF Delivered
<1>6. \A i \in 1..Len(g) : i \in 1..Len(h) \/ \E j \in 1..n : i = Len(h) + j
  <2> TAKE i \in 1..Len(g)
  <2>1. i \notin 1..Len(h) => i - Len(h) \in 1..n /\ i = Len(h) + (i - Len(h))
    BY <1>a, <1>d
  <2> QED
    BY <2>1
<1> HIDE DEF m
<1>7. ASSUME NEW i \in 1..Len(g) PROVE Good(i)
  <2>1. CASE i \in 1..Len(h)
    <3>1. ASSUME NEW j \in 1..Len(g), i < j PROVE m(i) < m(j)
      <4>1. CASE j \in 1..Len(h)
        BY <1>5, <2>1, <3>1, <4>1
      <4>2. ASSUME NEW l \in 1..n, j = Len(h) + l PROVE m(i) < m(j)
        <5>1. m(j) = c[2 * l - 1].of /\ 2 * l - 1 \in 1..Len(c)
          BY <1>1, <1>4, <4>2
        <5> QED
          BY <1>5, <2>1, <5>1
      <4> QED
        BY <1>6, <4>1, <4>2
    <3>2. ASSUME NEW k \in 1..Len(q) PROVE m(i) < q[k].of
      <4>1. Len(p) + k \in 1..Len(c) /\ q[k] = c[Len(p) + k]
        BY <1>a, <1>d, <1>1
      <4> QED
        BY <1>5, <2>1, <4>1
    <3> QED
      BY <1>5, <2>1, <3>1, <3>2
  <2>2. ASSUME NEW l \in 1..n, i = Len(h) + l PROVE Good(i)
    <3>1. ASSUME NEW j \in 1..Len(g), i < j PROVE m(i) < m(j)
      <4>1. j \notin 1..Len(h)
        BY <1>a, <1>b, <2>2, <3>1
      <4>2. PICK k \in 1..n : j = Len(h) + k
        BY <1>6, <4>1
      <4>3. l < k
        BY <1>a, <1>b, <2>2, <3>1, <4>2
      <4> QED
        BY <1>3, <1>4, <2>2, <4>2, <4>3
    <3>2. g[i] = Parts(m(i)) /\ m(i) \in 1..N
      BY <1>4, <2>2
    <3>3. \A k \in 1..Len(q) : m(i) < q[k].of
      BY <1>3, <1>4, <2>2
    <3> QED
      BY <3>1, <3>2, <3>3
  <2> QED
    BY <1>6, <2>1, <2>2
<1> QED
  BY <1>7 DEF Delivered, m, Good

LEMMA StreamPrime ==
  /\ Framed(Coming)' <=> Framed(Coming')
  /\ Rising(Coming)' <=> Rising(Coming')
  /\ Delivered(handed, Coming, sends)' <=> Delivered(handed', Coming', sends')
BY DEF Framed, Rising, Delivered, Parts, Part

LEMMA StreamKept ==
  ASSUME StreamInv, UNCHANGED <<buffer, down, handed, sends, torn>>,
         peer' = "open" => peer = "open", recv' = "connecting" => recv = "connecting"
  PROVE  StreamInv'
<1>1. Coming' = Coming
  BY DEF Coming
<1> QED
  BY <1>1, StreamPrime DEF StreamInv

LEMMA InitStream == Init => StreamInv
<1> SUFFICES ASSUME Init PROVE StreamInv
  OBVIOUS
<1>1. buffer = <<>> /\ down = <<>> /\ handed = <<>> /\ recv = "receiving"
  BY DEF Init
<1>2. PICK c \in Seq(DownPart) : c = <<>> /\ Coming = c
  <2>1. <<>> \o <<>> = <<>> /\ <<>> \in Seq(DownPart)
    OBVIOUS
  <2>2. Coming = <<>> /\ <<>> \in Seq(DownPart)
    BY <1>1, <2>1 DEF Coming
  <2> QED
    BY <2>2, Zenon
<1>3. Len(c) = 0 /\ Len(handed) = 0 /\ 0 \in Nat /\ 0 = 2 * 0
  BY <1>1, <1>2
<1>4. Framed(c) /\ Rising(c)
  BY <1>3 DEF Framed, Rising
<1>5. Delivered(handed, c, sends)
  BY <1>3 DEF Delivered
<1> QED
  BY <1>1, <1>2, <1>3, <1>4, <1>5 DEF StreamInv

LEMMA ReceiveStream ==
  ASSUME Types, StreamInv, NEW n \in 1..Len(down), Receive(n)
  PROVE  StreamInv'
<1> SUFFICES ASSUME ~torn' PROVE StreamInv'
  BY DEF StreamInv
<1>1. UNCHANGED <<sends, peer, torn, recv>> /\ recv = "receiving"
  BY DEF Receive
<1>2. PICK p \in Seq(DownPart), k \in Nat : Moved(p, k)
  BY ReceiveMoves DEF Types
<1>3. PICK q \in Seq(DownPart) : q = Coming'
  <2>1. buffer' \in Seq(DownPart) /\ down' \in Seq(DownPart)
    BY ReceiveMoves DEF Types
  <2>2. buffer' \o down' \in Seq(DownPart)
    BY <2>1, ConcatProperties
  <2> QED
    BY <2>2 DEF Coming
<1>4. /\ Len(p) = 2 * k /\ Coming = p \o q /\ HandsOver(p, k, handed, handed')
  BY <1>2, <1>3 DEF Moved
<1>5. /\ Framed(p \o q) /\ Rising(p \o q) /\ Delivered(handed, p \o q, sends)
      /\ peer = "open" => \E l \in Nat : Len(p \o q) = 2 * l
  BY <1>1, <1>4 DEF StreamInv
<1>6. From(p \o q, 1..sends) /\ sends \in Nat
  <2>1. From(Coming, 1..sends)
    BY FromJoined DEF Types, TypeOK, SeqInv, From, Coming
  <2> QED
    BY <1>4, <2>1 DEF Types, TypeOK
<1>7. Framed(q) /\ Rising(q)
  BY <1>4, <1>5, FramedRest
<1>8. Delivered(handed', q, sends)
  <2>1. PICK g \in Seq(Seq(DownPart)) : g = handed'
    BY ReceiveMoves DEF Types
  <2>2. handed \in Seq(Seq(DownPart))
    BY DEF Types, SeqInv
  <2> QED
    BY <1>4, <1>5, <1>6, <2>1, <2>2, DeliveredMore
<1>9. ASSUME peer = "open" PROVE \E l \in Nat : Len(q) = 2 * l
  <2>1. PICK l \in Nat : Len(p \o q) = 2 * l
    BY <1>5, <1>9
  <2>2. PICK c \in Seq(DownPart) : c = p \o q /\ Joins(c, p, q)
    BY JoinsConcat
  <2>3. Len(q) \in Nat /\ 2 * l = 2 * k + Len(q)
    BY <1>4, <2>1, <2>2 DEF Joins
  <2>4. l - k \in Nat /\ Len(q) = 2 * (l - k)
    BY <2>3
  <2> QED
    BY <2>4
<1> QED
  BY <1>1, <1>3, <1>7, <1>8, <1>9, StreamPrime DEF StreamInv

LEMMA ReceiverStream ==
  ASSUME Types, StreamInv, ReceiverStep
  PROVE  StreamInv'
<1>1. ASSUME NEW n \in 1..Len(down), Receive(n) PROVE StreamInv'
  BY <1>1, ReceiveStream
<1>2. CASE ReceiveEnd
  <2> SUFFICES ASSUME ~torn' PROVE StreamInv'
    BY DEF StreamInv
  <2>1. /\ UNCHANGED <<peer, down, buffer, handed, sends>> /\ peer = "broken"
        /\ ~torn /\ buffer = <<>> /\ down = <<>>
    BY <1>2 DEF ReceiveEnd, Types, TypeOK
  <2>2. Coming = <<>> /\ Coming' = Coming
    <3>1. <<>> \o <<>> = <<>>
      OBVIOUS
    <3> QED
      BY <2>1, <3>1 DEF Coming
  <2> QED
    BY <2>1, <2>2, StreamPrime DEF StreamInv
<1>3. CASE Connect
  <2> SUFFICES ASSUME ~torn' PROVE StreamInv'
    BY DEF StreamInv
  <2>1. /\ UNCHANGED <<buffer, handed, sends, torn>> /\ down' = <<>> /\ recv' = "resend"
        /\ recv = "connecting"
    BY <1>3 DEF Connect, parseVars
  <2>2. buffer \in Seq(DownPart) /\ down \in Seq(DownPart) /\ buffer \o down = <<>>
    BY <2>1 DEF StreamInv, Types, SeqInv, Coming
  <2>3. buffer = <<>>
    BY <2>2, ConcatEqualIffEmpty
  <2>4. Coming = <<>> /\ Coming' = <<>>
    <3>1. <<>> \o <<>> = <<>>
      OBVIOUS
    <3> QED
      BY <2>1, <2>2, <2>3, <3>1 DEF Coming
  <2>5. Len(Coming') = 2 * 0 /\ 0 \in Nat
    BY <2>4
  <2> QED
    BY <2>1, <2>4, <2>5, StreamPrime DEF StreamInv
<1>4. CASE OnReconnect
  <2>1. UNCHANGED <<buffer, down, handed, sends, torn, peer>> /\ recv' = "sending"
    BY <1>4 DEF OnReconnect, wireVars, parseVars
  <2> QED
    BY <2>1, StreamKept
<1>5. CASE Restart
  <2>1. UNCHANGED <<buffer, down, handed, sends, torn, peer>> /\ recv' = "receiving"
    BY <1>5 DEF Restart, wireVars, parseVars
  <2> QED
    BY <2>1, StreamKept
<1>6. ASSUME NEW finished \in BOOLEAN, ReceiverSend(finished) PROVE StreamInv'
  <2>1. /\ UNCHANGED <<buffer, down, handed, sends, torn, peer>>
        /\ recv' \in {"restart", "sending"}
    BY <1>6 DEF ReceiverSend, wireVars, parseVars
  <2> QED
    BY <2>1, StreamKept
<1> QED
  BY <1>1, <1>2, <1>3, <1>4, <1>5, <1>6 DEF ReceiverStep

LEMMA CutOff ==
  ASSUME NEW s \in Seq(DownPart), NEW t \in Seq(DownPart), NEW n \in 0..Len(t)
  PROVE  \E d, l \in Seq(DownPart) : d = s \o SubSeq(t, 1, n) /\ s \o t = d \o l
<1>1. PICK f \in Seq(DownPart) : f = SubSeq(t, 1, n)
  BY Before
<1>2. PICK l \in Seq(DownPart) : l = SubSeq(t, n + 1, Len(t))
  BY Behind
<1>3. t = f \o l
  BY <1>1, <1>2, SplitAt
<1>4. PICK d \in Seq(DownPart) : d = s \o f
  BY JoinsConcat
<1>5. s \o (f \o l) = d \o l
  BY <1>4, Associative
<1> QED
  BY <1>1, <1>3, <1>4, <1>5

LEMMA PeerStream ==
  ASSUME Types, ControlInv, StreamInv, RelaySend \/ \E k \in 0..Len(down) : Break(k)
  PROVE  StreamInv'
<1> SUFFICES ASSUME ~torn' PROVE StreamInv'
  BY DEF StreamInv
<1>a. buffer \in Seq(DownPart) /\ down \in Seq(DownPart)
  BY DEF Types, SeqInv
<1>0. /\ buffer \in Seq(DownPart) /\ down \in Seq(DownPart) /\ sends \in Nat
      /\ UNCHANGED <<recv, buffer, handed, torn>>
  BY DEF RelaySend, Break, parseVars, Types, TypeOK, SeqInv
<1>1. PICK c \in Seq(DownPart) : c = Coming
  <2>1. buffer \o down \in Seq(DownPart)
    BY <1>0, ConcatProperties
  <2> QED
    BY <2>1 DEF Coming
<1>2. Framed(c) /\ Rising(c) /\ Delivered(handed, c, sends)
  BY <1>0, <1>1 DEF StreamInv
<1>3. CASE RelaySend
  <2>1. /\ sends' = sends + 1 /\ peer = "open" /\ peer' = peer /\ fd = "open"
        /\ recv # "connecting" /\ down' = down \o Parts(sends')
    BY <1>3 DEF RelaySend, ControlInv
  <2>2. PICK e \in Nat : e = sends + 1
    BY <1>0
  <2>3. Parts(e) \in Seq(DownPart) /\ Len(Parts(e)) = 2 /\ Parts(e)[1].of = e /\ Parts(e)[2].of = e
    BY DEF Parts, Part, DownPart
  <2>4. Coming' = c \o Parts(e)
    <3>1. buffer \o (down \o Parts(e)) = (buffer \o down) \o Parts(e)
      BY <1>a, <2>3, Associative, Zenon
    <3> QED
      BY <1>0, <1>1, <2>1, <2>2, <3>1 DEF Coming
  <2>5. PICK n \in Nat : Len(c) = 2 * n
    BY <1>0, <1>1, <2>1 DEF StreamInv
  <2>6. \A i \in 1..Len(c) : c[i].of \in 1..sends
    <3>1. From(buffer \o down, 1..sends)
      BY <1>0, FromJoined DEF Types, TypeOK, From
    <3> QED
      BY <1>1, <3>1 DEF From, Coming
  <2>7. \A i \in 1..Len(c) : c[i].of < e
    BY <1>0, <2>2, <2>6
  <2>8. /\ Framed(c \o Parts(e)) /\ Rising(c \o Parts(e)) /\ Len(c \o Parts(e)) = 2 * (n + 1)
    BY <1>2, <2>5, <2>7, FramedAppend
  <2>9. Delivered(handed, c \o Parts(e), e)
    <3>1. PICK d \in Seq(DownPart) : d = c \o Parts(e)
      BY <2>3, AppendTwo
    <3>2. /\ Len(d) = Len(c) + 2 /\ \A i \in 1..Len(c) : d[i] = c[i]
          /\ d[Len(c) + 1].of = e /\ d[Len(c) + 2].of = e /\ Len(c) \in Nat
      BY <2>3, <3>1, AppendTwo
    <3>3. ASSUME NEW i \in 1..Len(handed), NEW k \in 1..Len(d)
          PROVE  handed[i][1].of < d[k].of
      <4>1. CASE k \in 1..Len(c)
        BY <1>2, <3>2, <4>1 DEF Delivered
      <4>2. CASE k \notin 1..Len(c)
        <5>1. k = Len(c) + 1 \/ k = Len(c) + 2
          BY <3>2, <4>2
        <5>2. handed[i][1].of \in 1..sends
          BY <1>2 DEF Delivered
        <5> QED
          BY <1>0, <2>2, <3>2, <5>1, <5>2
      <4> QED
        BY <4>1, <4>2
    <3>4. \A x \in 1..sends : x \in 1..e
      BY <1>0, <2>2
    <3> QED
      BY <1>2, <3>1, <3>3, <3>4 DEF Delivered
  <2>10. n + 1 \in Nat
    OBVIOUS
  <2> QED
    BY <1>0, <2>1, <2>2, <2>4, <2>8, <2>9, <2>10, StreamPrime DEF StreamInv
<1>4. ASSUME NEW k \in 0..Len(down), Break(k) PROVE StreamInv'
  <2>1. peer' = "broken" /\ down' = SubSeq(down, 1, k) /\ sends' = sends /\ fd = "open"
    BY <1>4 DEF Break
  <2>2. recv # "connecting"
    BY <2>1 DEF ControlInv
  <2>3. PICK d \in Seq(DownPart), l \in Seq(DownPart) :
          d = buffer \o SubSeq(down, 1, k) /\ buffer \o down = d \o l
    BY <1>a, CutOff
  <2>4. c = d \o l
    BY <1>1, <2>3 DEF Coming
  <2>5. Coming' = d
    BY <1>0, <2>1, <2>3 DEF Coming
  <2>6. Framed(d) /\ Rising(d)
    BY <1>2, <2>4, FramedStart
  <2>7. \A i \in 1..Len(d) : i \in 1..Len(c) /\ c[i] = d[i]
    <3>1. Joins(c, d, l)
      BY <2>4, JoinsConcat
    <3> QED
      BY <3>1 DEF Joins
  <2>8. Delivered(handed, d, sends)
    BY <1>2, <2>7 DEF Delivered
  <2> QED
    BY <1>0, <2>1, <2>2, <2>5, <2>6, <2>8, StreamPrime DEF StreamInv
<1> QED
  BY <1>3, <1>4

-----------------------------------------------------------------------------
(* The theorems. *)
LEMMA InitInv == Init => Inv
BY InitTypes, InitControl, InitWire, InitStream DEF Inv

LEMMA NextInv == Inv /\ [Next]_vars => Inv'
<1> SUFFICES ASSUME Inv, [Next]_vars PROVE Inv'
  OBVIOUS
<1>1. Types'
  BY NextTypes DEF Inv
<1>2. CASE CallerStep \/ \E c \in Call : Begin(c)
  <2>1. UNCHANGED <<buffer, down, handed, sends, torn, peer, recv>>
    BY <1>2 DEF CallerStep, Begin, Modify, CallerSend, wireVars, parseVars
  <2>2. StreamInv'
    BY <2>1, StreamKept DEF Inv
  <2> QED
    BY <1>1, <1>2, <2>2, CallerControl, CallerWire DEF Inv
<1>3. CASE ReceiverStep
  BY <1>1, <1>3, ReceiverControl, ReceiverWire, ReceiverStream DEF Inv
<1>4. CASE RelaySend \/ \E k \in 0..Len(down) : Break(k)
  BY <1>1, <1>4, PeerControl, PeerWire, PeerStream DEF Inv
<1>5. CASE UNCHANGED vars
  <2>1. UNCHANGED <<process, subscriptions, fd, peer, step, call, recv, out, half, up,
                    down, buffer, handed, sends, calls, breaks, overlap, torn>>
    BY <1>5 DEF vars
  <2>2. ControlInv'
    BY <2>1 DEF Inv, ControlInv, Sending, Update
  <2>3. StreamInv'
    BY <2>1, StreamKept DEF Inv
  <2>4. WireInv'
    <3>1. Update(subscriptions)' = Update(subscriptions)
      BY <2>1 DEF Update
    <3>2. Wired => Wired'
      <4> SUFFICES ASSUME Wired PROVE Wired'
        OBVIOUS
      <4>1. ASSUME recv' \in {"restart", "receiving"}
            PROVE  \E u \in Seq(UpPart) :
                     up' = u \o Begun("caller")' /\ Whole(u) /\ Known(u)'
        <5>1. PICK u \in Seq(UpPart) : up = u \o Begun("caller") /\ Whole(u) /\ Known(u)
          BY <2>1, <4>1 DEF Wired
        <5> QED
          BY <2>1, <5>1, WiredUnchanged
      <4> QED
        BY <2>1, <3>1, <4>1, WiredUnchanged DEF Wired, Resending
    <3> QED
      BY <2>1, <3>2 DEF Inv, WireInv
  <2> QED
    BY <1>1, <2>2, <2>3, <2>4 DEF Inv
<1> QED
  BY <1>2, <1>3, <1>4, <1>5 DEF Next

LEMMA InvHolds == Spec => []Inv
BY InitInv, NextInv, PTL DEF Spec

(* On a working connection that nobody is in the middle of using, what was *)
(* written is whole frames that leave the relay with the subscriptions.    *)
LEMMA QuietWhole ==
  ASSUME Inv, Quiet, ~overlap
  PROVE  up \in Seq(UpPart) /\ Whole(up) /\ View(up) = subscriptions
<1>1. PICK u \in Seq(UpPart) : up = u \o Begun("caller") /\ Whole(u) /\ Known(u)
  BY DEF Inv, WireInv, Wired, Quiet
<1>2. Begun("caller") = <<>>
  BY DEF Inv, ControlInv, Quiet, Begun
<1>3. up = u
  BY <1>1, <1>2, ConcatEmptySeq
<1> QED
  BY <1>1, <1>3 DEF Known, Quiet

(* "Reconnected to bus, re-sending subscription info...": whenever both    *)
(* threads are done and no call overlapped the re-sending, the relay knows *)
(* the program's subscriptions, however many connections were lost before. *)
THEOREM ResubscribedHolds == Spec => []ResubscribedUnlessOverlapped
<1>1. Inv => ResubscribedUnlessOverlapped
  BY QuietWhole DEF ResubscribedUnlessOverlapped
<1> QED
  BY <1>1, InvHolds, PTL

(* Then nothing but whole frames, one after the other, was written: short  *)
(* writes of the two threads are never torn apart by each other.           *)
THEOREM WholeFramesHolds == Spec => []WholeFramesUnlessOverlapped
<1>1. ASSUME Inv, Quiet, ~overlap
      PROVE  /\ Len(up) % 2 = 0
             /\ \A i \in 1..Len(up) \div 2 :
                  up[2 * i - 1].part = 1 /\ up[2 * i] = Part(up[2 * i - 1].of, 2)
  <2>1. PICK k \in Nat :
          /\ Len(up) = 2 * k
          /\ \A i \in 1..k : up[2 * i - 1].part = 1 /\ up[2 * i] = Part(up[2 * i - 1].of, 2)
    BY <1>1, QuietWhole DEF Whole
  <2>2. (2 * k) % 2 = 0 /\ (2 * k) \div 2 = k
    OBVIOUS
  <2> QED
    BY <2>1, <2>2
<1>2. Inv => WholeFramesUnlessOverlapped
  BY <1>1 DEF WholeFramesUnlessOverlapped
<1> QED
  BY <1>2, InvHolds, PTL

(* The messages handed to onReceive() are those the relay sent, whole, in  *)
(* order and each once, however read() cuts the stream, as long as no      *)
(* connection is lost within a frame.                                      *)
THEOREM IntactHolds == Spec => []IntactUnlessTorn
<1>1. Inv => IntactUnlessTorn
  BY DEF Inv, StreamInv, Delivered, IntactUnlessTorn
<1> QED
  BY <1>1, InvHolds, PTL
=============================================================================
