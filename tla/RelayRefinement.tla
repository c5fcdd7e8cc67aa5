--------------------------- MODULE RelayRefinement ---------------------------
(***************************************************************************)
(* Relay implements BusService, for every set of connections and classes,  *)
(* any frames and any bounds: each step of a thread, or of a client, is a  *)
(* step of the abstract bus or leaves its variables as they are.           *)
(***************************************************************************)
EXTENDS RelayProofs

USE RelayAssumption DEF RelayAssumption, Unlocked, Unlock

-----------------------------------------------------------------------------
(* The outgoing stream of a connection, as BusOut puts it together: what   *)
(* its worker has in hand, its queue, and what is about to be queued.      *)
InHand(e) == IF e = 0 THEN <<>> ELSE <<e>>

LEMMA InHandType ==
  ASSUME NEW e \in Nat
  PROVE  InHand(e) \in Seq(Nat)
BY DEF InHand

(* Queueing what was pending does not change the stream ...                *)
LEMMA StreamEnqueue ==
  ASSUME NEW e \in Nat, NEW q \in Seq(Nat), NEW n \in Nat
  PROVE  InHand(e) \o Append(q, n) \o <<>> = InHand(e) \o q \o <<n>>
<1> DEFINE s == InHand(e)
<1>1. s \in Seq(Nat)
  BY InHandType
<1> HIDE DEF s
<1>2. s \o Append(q, n) \in Seq(Nat) /\ s \o q \in Seq(Nat)
  BY <1>1
<1>3. (s \o Append(q, n)) \o <<>> = s \o Append(q, n)
  BY <1>2, ConcatEmptySeq
<1>4. s \o Append(q, n) = (s \o q) \o <<n>>
  BY <1>1
<1> QED
  BY <1>3, <1>4 DEF s

(* ... a message about to be queued is put to its end ...                  *)
LEMMA StreamPending ==
  ASSUME NEW e \in Nat, NEW q \in Seq(Nat), NEW n \in Nat
  PROVE  InHand(e) \o q \o <<n>> = Append(InHand(e) \o q \o <<>>, n)
<1> DEFINE s == InHand(e) \o q
<1>1. s \in Seq(Nat)
  BY InHandType
<1> HIDE DEF s
<1>2. s \o <<>> = s /\ s \o <<n>> = Append(s, n)
  BY <1>1, ConcatEmptySeq
<1> QED
  BY <1>2 DEF s

(* ... taking a message from the queue does not change it ...              *)
LEMMA StreamTake ==
  ASSUME NEW q \in Seq(Nat), q # <<>>, Head(q) # 0
  PROVE  InHand(Head(q)) \o Tail(q) = InHand(0) \o q
<1>1. <<Head(q)>> \o Tail(q) = q
  OBVIOUS
<1>2. <<>> \o q = q
  BY ConcatEmptySeq
<1> QED
  BY <1>1, <1>2 DEF InHand

(* ... and the message in hand is its head.                                *)
LEMMA StreamSend ==
  ASSUME NEW e \in Nat \ {0}, NEW q \in Seq(Nat), NEW p \in Seq(Nat)
  PROVE  /\ InHand(e) \o q \o p # <<>>
         /\ Head(InHand(e) \o q \o p) = e
         /\ Tail(InHand(e) \o q \o p) = InHand(0) \o q \o p
<1> DEFINE r == q \o p
<1>1. r \in Seq(Nat)
  OBVIOUS
<1>2. InHand(e) \o q \o p = <<e>> \o r /\ InHand(0) \o q \o p = r
  BY ConcatEmptySeq DEF InHand
<1> HIDE DEF r
<1>3. <<e>> \o r # <<>> /\ Head(<<e>> \o r) = e /\ Tail(<<e>> \o r) = r
  BY <1>1
<1> QED
  BY <1>2, <1>3

-----------------------------------------------------------------------------
(* The bus's variables, from the relay's.                                  *)
CursorOf(c) == IF c \notin clients THEN 0
               ELSE IF c \in todo /\ c # target THEN Len(log) - 1 ELSE Len(log)

LEMMA OutOf ==
  ASSUME NEW c \in Conns
  PROVE  BusOut[c] = InHand(event[c]) \o queue[c] \o PendingFor(c)
BY DEF BusOut, Event, InHand

LEMMA CursorIs ==
  /\ BusCursor = [c \in Conns |-> CursorOf(c)]
  /\ BusCursor' = [c \in Conns |-> CursorOf(c)']
BY DEF BusCursor, CursorOf

LEMMA GoneSame ==
  ASSUME UNCHANGED peer PROVE UNCHANGED BusGone
BY DEF BusGone

(* A step changes the outgoing stream of at most one connection.           *)
LEMMA OutPoint ==
  ASSUME NEW c \in Conns, NEW s,
         InHand(event'[c]) \o queue'[c] \o PendingFor(c)' = s,
         \A d \in Conns \ {c} : /\ event'[d] = event[d] /\ queue'[d] = queue[d]
                                /\ PendingFor(d)' = PendingFor(d)
  PROVE  BusOut' = [BusOut EXCEPT ![c] = s]
<1>1. \A d \in Conns : BusOut'[d] = IF d = c THEN s ELSE BusOut[d]
  BY DEF BusOut, Event, InHand
<1>2. /\ BusOut' = [d \in Conns |-> BusOut'[d]]
      /\ BusOut = [d \in Conns |-> BusOut[d]]
  BY DEF BusOut
<1> HIDE DEF BusOut
<1> QED
  BY <1>1, <1>2

LEMMA OutSame ==
  ASSUME \A d \in Conns : /\ event'[d] = event[d] /\ queue'[d] = queue[d]
                          /\ PendingFor(d)' = PendingFor(d)
  PROVE  UNCHANGED BusOut
<1>1. \A d \in Conns : BusOut'[d] = BusOut[d]
  BY DEF BusOut, Event
<1>2. /\ BusOut' = [d \in Conns |-> BusOut'[d]]
      /\ BusOut = [d \in Conns |-> BusOut[d]]
  BY DEF BusOut
<1> QED
  BY <1>1, <1>2

LEMMA CursorPoint ==
  ASSUME NEW c \in Conns, NEW n, CursorOf(c)' = n,
         \A d \in Conns \ {c} : CursorOf(d)' = CursorOf(d)
  PROVE  BusCursor' = [BusCursor EXCEPT ![c] = n]
BY CursorIs

LEMMA CursorSame ==
  ASSUME \A d \in Conns : CursorOf(d)' = CursorOf(d)
  PROVE  UNCHANGED BusCursor
BY CursorIs

-----------------------------------------------------------------------------
(* A step of the bus, or none.                                             *)
BusStep == [Bus!BusNext]_(Bus!busVars)

LEMMA Stutter ==
  ASSUME UNCHANGED <<clients, BusGone, log, subs, BusCursor, BusOut, sent>>
  PROVE  BusStep
BY DEF BusStep, Bus!busVars

LEMMA InitRefines == Init => Bus!BusInit
<1> SUFFICES ASSUME Init PROVE Bus!BusInit
  OBVIOUS
<1>1. BusGone = {}
  BY DEF Init, BusGone, Gone
<1>2. BusCursor = [c \in Conns |-> 0]
  BY DEF Init, BusCursor
<1>3. BusOut = [c \in Conns |-> <<>>]
  <2>1. \A c \in Conns : BusOut[c] = <<>>
    <3> TAKE c \in Conns
    <3>1. event[c] = 0 /\ queue[c] = <<>> /\ PendingFor(c) = <<>>
      BY DEF Init, PendingFor
    <3>2. BusOut[c] = <<>> \o <<>> \o <<>>
      BY <3>1, OutOf DEF InHand
    <3> QED
      BY <3>2, ConcatEmptySeq
  <2>2. BusOut = [c \in Conns |-> BusOut[c]]
    BY DEF BusOut
  <2> QED
    BY <2>1, <2>2
<1> QED
  BY <1>1, <1>2, <1>3 DEF Init, Bus!BusInit

(* The listener: a connection joins; one that fails is a client gone.      *)
LEMMA ListenRefines ==
  ASSUME IInv, NEW c \in Conns, Listen(c)
  PROVE  BusStep
<1>1. CASE Accept(c) \/ Start(c)
  <2>1. UNCHANGED <<clients, log, subs, sent, event, queue, todo, target>>
    BY <1>1 DEF Accept, Start, queueVars, passVars, sockVars
  <2>2. UNCHANGED BusGone
    <3>1. peer \in [Conns -> PeerState]
      BY DEF IInv, TypeOK
    <3>2. CASE Accept(c)
      BY <3>1, <3>2 DEF Accept, BusGone, PeerState, Gone
    <3>3. CASE Start(c)
      BY <3>3, GoneSame DEF Start, sockVars
    <3> QED
      BY <1>1, <3>2, <3>3
  <2>3. UNCHANGED BusCursor /\ UNCHANGED BusOut
    BY <2>1, CursorSame, OutSame DEF CursorOf, PendingFor
  <2> QED
    BY <2>1, <2>2, <2>3, Stutter
<1>2. CASE AcceptNoReceiver(c) \/ AcceptNoWorker(c)
  <2>1. UNCHANGED <<clients, log, subs, sent, event, queue, todo, target>>
    BY <1>2 DEF AcceptNoReceiver, AcceptNoWorker, queueVars, passVars
  <2>2. UNCHANGED BusCursor /\ UNCHANGED BusOut
    BY <2>1, CursorSame, OutSame DEF CursorOf, PendingFor
  <2>3. BusGone' = BusGone \union {c}
    <3>1. peer \in [Conns -> PeerState]
      BY DEF IInv, TypeOK
    <3>2. peer' = [peer EXCEPT ![c] = "closed"]
      BY <1>2 DEF AcceptNoReceiver, AcceptNoWorker
    <3> QED
      BY <3>1, <3>2 DEF BusGone, Gone
  <2>4. Bus!Close(c)
    BY <2>1, <2>2, <2>3 DEF Bus!Close
  <2> QED
    BY <2>4 DEF BusStep, Bus!BusNext
<1>3. CASE Add(c)
  <2>1. c \notin clients /\ todo = {} /\ target = NoConn
    BY <1>3 DEF IInv, RegistryInv, LockInv, Add
  <2>2. /\ clients' = clients \union {c}
        /\ UNCHANGED <<log, subs, sent, event, queue, todo, target, peer>>
    BY <1>3 DEF Add, queueVars, passVars, sockVars
  <2>3. CursorOf(c)' = Len(log)
    BY <2>1, <2>2 DEF CursorOf
  <2>4. \A d \in Conns \ {c} : CursorOf(d)' = CursorOf(d)
    BY <2>2 DEF CursorOf
  <2>5. BusCursor' = [BusCursor EXCEPT ![c] = Len(log)]
    BY <2>3, <2>4, CursorPoint
  <2>6. UNCHANGED BusOut /\ UNCHANGED BusGone
    BY <2>2, OutSame, GoneSame DEF PendingFor
  <2>7. Bus!Join(c)
    BY <2>1, <2>2, <2>5, <2>6 DEF Bus!Join
  <2> QED
    BY <2>7 DEF BusStep, Bus!BusNext
<1> QED
  BY <1>1, <1>2, <1>3 DEF Listen

(* A frame read may replace the subscriptions, and does nothing else that  *)
(* others can see before its broadcast has the lock.                       *)
LEMMA ReadFrameRefines ==
  ASSUME IInv, NEW c \in Conns, NEW f \in Frames, ReadFrame(c, f)
  PROVE  BusStep
<1>1. UNCHANGED <<clients, log, sent, event, queue, todo, target, peer>>
  BY DEF ReadFrame, queueVars, passVars, sockVars
<1>2. UNCHANGED BusOut /\ UNCHANGED BusCursor /\ UNCHANGED BusGone
  BY <1>1, OutSame, CursorSame, GoneSame DEF CursorOf, PendingFor
<1>3. CASE UNCHANGED subs
  BY <1>1, <1>2, <1>3, Stutter
<1>4. CASE f.kind = "setSubscriptions" /\ subs' = [subs EXCEPT ![c] = f.classes]
  <2>1. f.classes \in SUBSET Classes
    BY <1>4 DEF Frame, PublishFrame
  <2>2. c \in clients
    BY DEF IInv, RegistryInv, ReadFrame
  <2>3. Bus!Subscribe(c, f.classes)
    BY <1>1, <1>2, <1>4, <2>2 DEF Bus!Subscribe
  <2> QED
    BY <2>1, <2>3 DEF BusStep, Bus!BusNext
<1> QED
  BY <1>3, <1>4 DEF ReadFrame

(* The receiver: a message gets its rank, and the bus offers it to one     *)
(* connection after the other as the loop visits them.                     *)
LEMMA BeginRefines ==
  ASSUME IInv, NEW c \in Conns, BeginBroadcast(c)
  PROVE  BusStep
<1> DEFINE m == [from |-> c, n |-> frames[c], class |-> request[c].class,
                 json |-> request[c].json]
<1>1. /\ todo = {} /\ target = NoConn /\ clients \subseteq Conns
      /\ log \in Seq(Entry) /\ frames \in [Conns -> Nat]
      /\ request[c] \in PublishFrame
  BY DEF IInv, LockInv, TypeOK, ThreadInv, BeginBroadcast
<1>2. /\ log' = Append(log, m) /\ todo' = clients
      /\ UNCHANGED <<clients, subs, sent, event, queue, target, peer>>
  BY DEF BeginBroadcast, queueVars, sockVars
<1>3. m \in Entry
  BY <1>1 DEF Entry, PublishFrame
<1>4. /\ Len(log) \in Nat /\ Len(log') = Len(log) + 1
      /\ log'[Len(log')] = m
  <2> HIDE DEF m
  <2> QED
    BY <1>1, <1>2, <1>3, AppendProperties
<1>5. UNCHANGED BusOut /\ UNCHANGED BusGone
  BY <1>1, <1>2, OutSame, GoneSame DEF PendingFor
<1>6. UNCHANGED BusCursor
  <2>1. \A d \in Conns : CursorOf(d)' = CursorOf(d)
    BY <1>1, <1>2, <1>4 DEF CursorOf
  <2> QED
    BY <2>1, CursorSame
<1>7. Bus!Publish
  <2> HIDE DEF m
  <2> QED
    BY <1>2, <1>3, <1>4, <1>5, <1>6 DEF Bus!Publish
<1> QED
  BY <1>7 DEF BusStep, Bus!BusNext

LEMMA VisitRefines ==
  ASSUME IInv, NEW c \in Conns, NEW d \in Conns, Visit(c, d)
  PROVE  BusStep
<1>1. /\ lock = c /\ target = NoConn /\ todo \subseteq clients
      /\ d \in todo /\ Len(log) \in Nat /\ Len(log) > 0
      /\ event \in [Conns -> Nat] /\ queue \in [Conns -> Seq(Nat)]
  <2>1. /\ event \in [Conns -> Nat] /\ queue \in [Conns -> Seq(Nat)]
        /\ log \in Seq(Entry)
    BY DEF IInv, TypeOK
  <2>2. lock = c /\ c # NoConn
    BY DEF IInv, LockInv, Visit
  <2>3. target = NoConn /\ todo \subseteq clients /\ Len(log) > 0
    BY <2>2 DEF IInv, LockInv, Visit
  <2> QED
    BY <2>1, <2>2, <2>3 DEF Visit
<1>2. UNCHANGED <<clients, log, subs, sent, event, queue, peer>>
  BY DEF Visit, sockVars, queueVars
<1>3. UNCHANGED BusGone
  BY <1>2, GoneSame
<1>4. CursorOf(d) = Len(log) - 1 /\ CursorOf(d) < Len(log) /\ BusCursor[d] = CursorOf(d)
  BY <1>1, CursorIs DEF CursorOf
<1>5. CursorOf(d)' = Len(log) /\ \A e \in Conns \ {d} : CursorOf(e)' = CursorOf(e)
  BY <1>1, <1>2 DEF CursorOf, Visit
<1>6. BusCursor' = [BusCursor EXCEPT ![d] = @ + 1]
  BY <1>1, <1>4, <1>5, CursorPoint
<1>7. CASE IsSubscribed(d)
  <2>1. target' = d
    BY <1>7 DEF Visit
  <2>2. /\ PendingFor(d) = <<>> /\ PendingFor(d)' = <<Len(log)>>
        /\ \A e \in Conns \ {d} : PendingFor(e)' = PendingFor(e)
    BY <1>1, <1>2, <2>1 DEF PendingFor
  <2>3. InHand(event'[d]) \o queue'[d] \o PendingFor(d)' = Append(BusOut[d], Len(log))
    <3>1. BusOut[d] = InHand(event[d]) \o queue[d] \o <<>>
      BY <2>2, OutOf
    <3>2. InHand(event'[d]) \o queue'[d] \o PendingFor(d)'
            = InHand(event[d]) \o queue[d] \o <<Len(log)>>
      BY <1>2, <2>2
    <3>3. event[d] \in Nat /\ queue[d] \in Seq(Nat)
      BY <1>1
    <3> QED
      BY <1>1, <3>1, <3>2, <3>3, StreamPending
  <2>4. BusOut' = [BusOut EXCEPT ![d] = Append(BusOut[d], Len(log))]
    BY <1>2, <2>2, <2>3, OutPoint
  <2>5. log[BusCursor[d] + 1].class \in subs[d] /\ BusCursor[d] + 1 = Len(log)
    BY <1>1, <1>4, <1>7 DEF IsSubscribed
  <2>6. Bus!Offer(d)
    BY <1>1, <1>2, <1>3, <1>4, <1>6, <2>4, <2>5 DEF Bus!Offer
  <2> QED
    BY <2>6 DEF BusStep, Bus!BusNext
<1>8. CASE ~IsSubscribed(d)
  <2>1. UNCHANGED target
    BY <1>8 DEF Visit
  <2>2. UNCHANGED BusOut
    BY <1>2, <2>1, OutSame DEF PendingFor
  <2>3. log[BusCursor[d] + 1].class \notin subs[d]
    BY <1>1, <1>4, <1>8 DEF IsSubscribed
  <2>4. Bus!Offer(d)
    BY <1>1, <1>2, <1>3, <1>4, <1>6, <2>2, <2>3 DEF Bus!Offer
  <2> QED
    BY <2>4 DEF BusStep, Bus!BusNext
<1> QED
  BY <1>7, <1>8

LEMMA EnqueueRefines ==
  ASSUME IInv, NEW c \in Conns, Enqueue(c)
  PROVE  BusStep
<1>1. /\ target \in Conns /\ target \in todo /\ todo \subseteq clients
      /\ Len(log) \in Nat
      /\ event \in [Conns -> Nat] /\ queue \in [Conns -> Seq(Nat)]
  <2>1. /\ target \in Conns \union {NoConn} /\ log \in Seq(Entry)
        /\ event \in [Conns -> Nat] /\ queue \in [Conns -> Seq(Nat)]
    BY DEF IInv, TypeOK
  <2>2. lock = c /\ target # NoConn
    BY DEF IInv, LockInv, Enqueue
  <2> QED
    BY <2>1, <2>2 DEF IInv, LockInv
<1>2. /\ queue' = [queue EXCEPT ![target] = Append(@, Len(log))]
      /\ todo' = todo \ {target} /\ target' = NoConn
      /\ UNCHANGED <<clients, log, subs, sent, event, peer>>
  BY DEF Enqueue, sockVars
<1>3. UNCHANGED BusGone
  BY <1>2, GoneSame
<1>4. UNCHANGED BusCursor
  <2>1. \A d \in Conns : CursorOf(d)' = CursorOf(d)
    BY <1>1, <1>2 DEF CursorOf
  <2> QED
    BY <2>1, CursorSame
<1>5. UNCHANGED BusOut
  <2>1. PICK t \in Conns : t = target
    BY <1>1
  <2>2. /\ PendingFor(t) = <<Len(log)>> /\ PendingFor(t)' = <<>>
        /\ \A d \in Conns \ {t} : PendingFor(d)' = PendingFor(d)
    BY <1>1, <1>2, <2>1 DEF PendingFor
  <2>3. event[t] \in Nat /\ queue[t] \in Seq(Nat)
    BY <1>1
  <2>4. /\ event'[t] = event[t] /\ queue'[t] = Append(queue[t], Len(log))
        /\ \A d \in Conns \ {t} : event'[d] = event[d] /\ queue'[d] = queue[d]
    BY <1>1, <1>2, <2>1
  <2>5. InHand(event'[t]) \o queue'[t] \o PendingFor(t)' = BusOut[t]
    <3>1. PICK e \in Nat, q \in Seq(Nat), n \in Nat :
            e = event[t] /\ q = queue[t] /\ n = Len(log)
      BY <1>1, <2>3
    <3>2. BusOut[t] = InHand(e) \o q \o <<n>>
      BY <2>2, <3>1, OutOf
    <3>3. InHand(event'[t]) \o queue'[t] \o PendingFor(t)'
            = InHand(e) \o Append(q, n) \o <<>>
      BY <2>2, <2>4, <3>1
    <3>4. InHand(e) \o Append(q, n) \o <<>> = InHand(e) \o q \o <<n>>
      BY StreamEnqueue
    <3> QED
      BY <3>2, <3>3, <3>4
  <2>6. BusOut' = [BusOut EXCEPT ![t] = BusOut[t]]
    BY <2>2, <2>4, <2>5, OutPoint
  <2> QED
    BY <2>6 DEF BusOut
<1> QED
  BY <1>2, <1>3, <1>4, <1>5, Stutter

(* A connection that is destroyed leaves the bus.                          *)
LEMMA CleanupRefines ==
  ASSUME IInv, NEW c \in Conns, Cleanup(c)
  PROVE  BusStep
<1>1. /\ c \in clients /\ todo = {} /\ target = NoConn
      /\ event \in [Conns -> Nat] /\ queue \in [Conns -> Seq(Nat)]
  BY DEF IInv, LockInv, RegistryInv, TypeOK, Cleanup
<1>2. /\ clients' = clients \ {c} /\ subs' = [subs EXCEPT ![c] = {}]
      /\ queue' = [queue EXCEPT ![c] = <<>>] /\ event' = [event EXCEPT ![c] = 0]
      /\ UNCHANGED <<log, sent, todo, target, peer>>
  BY DEF Cleanup, sockVars, passVars
<1>3. UNCHANGED BusGone
  BY <1>2, GoneSame
<1>4. BusCursor' = [BusCursor EXCEPT ![c] = 0]
  <2>1. CursorOf(c)' = 0 /\ \A d \in Conns \ {c} : CursorOf(d)' = CursorOf(d)
    BY <1>2 DEF CursorOf
  <2> QED
    BY <2>1, CursorPoint
<1>5. BusOut' = [BusOut EXCEPT ![c] = <<>>]
  <2>1. \A d \in Conns : PendingFor(d) = <<>> /\ PendingFor(d)' = <<>>
    BY <1>1, <1>2 DEF PendingFor
  <2>2. /\ event'[c] = 0 /\ queue'[c] = <<>>
        /\ \A d \in Conns \ {c} : event'[d] = event[d] /\ queue'[d] = queue[d]
    BY <1>1, <1>2
  <2>3. InHand(event'[c]) \o queue'[c] \o PendingFor(c)' = <<>>
    BY <2>1, <2>2, ConcatEmptySeq DEF InHand
  <2>4. \A d \in Conns \ {c} : /\ event'[d] = event[d] /\ queue'[d] = queue[d]
                                /\ PendingFor(d)' = PendingFor(d)
    BY <2>1, <2>2
  <2> QED
    BY <2>3, <2>4, OutPoint
<1>6. Bus!Leave(c)
  BY <1>1, <1>2, <1>3, <1>4, <1>5 DEF Bus!Leave
<1> QED
  BY <1>6 DEF BusStep, Bus!BusNext

LEMMA ReceiverRefines ==
  ASSUME IInv, NEW c \in Conns, ReceiverStep(c)
  PROVE  BusStep
<1>1. CASE ReadEnd(c) \/ Count(c) \/ EndBroadcast(c)
  <2>1. UNCHANGED <<clients, log, subs, sent, event, queue, todo, target, peer>>
    BY <1>1 DEF ReadEnd, Count, EndBroadcast, queueVars, passVars, sockVars
  <2>2. UNCHANGED BusOut /\ UNCHANGED BusCursor /\ UNCHANGED BusGone
    BY <2>1, OutSame, CursorSame, GoneSame DEF CursorOf, PendingFor
  <2> QED
    BY <2>1, <2>2, Stutter
<1> QED
  BY <1>1, BeginRefines, VisitRefines, EnqueueRefines, CleanupRefines
     DEF ReceiverStep

(* The worker: a message goes from the queue to its hands unseen, and is   *)
(* delivered, or dropped when the client has gone.                         *)
LEMMA WorkerRefines ==
  ASSUME IInv, NEW c \in Conns, WorkerStep(c)
  PROVE  BusStep
<1>1. /\ event \in [Conns -> Nat] /\ queue \in [Conns -> Seq(Nat)]
      /\ sent \in [Conns -> Seq(Nat)] /\ log \in Seq(Entry) /\ sem \in [Conns -> Nat]
  BY DEF IInv, TypeOK
<1>2. UNCHANGED <<clients, log, subs, todo, target>>
  BY DEF WorkerStep, WaitForMessage, TakeMessage, SendMessage, passVars
<1>3. UNCHANGED BusCursor /\ \A d \in Conns : PendingFor(d)' = PendingFor(d)
  BY <1>2, CursorSame DEF CursorOf, PendingFor
<1>4. UNCHANGED BusGone
  <2>1. peer \in [Conns -> PeerState]
    BY DEF IInv, TypeOK
  <2>2. UNCHANGED peer \/ (peer[c] = "refused" /\ peer' = [peer EXCEPT ![c] = "reset"])
    BY DEF WorkerStep, WaitForMessage, TakeMessage, SendMessage, sockVars
  <2> QED
    BY <2>1, <2>2, GoneSame DEF BusGone, Gone
<1>5. CASE WaitForMessage(c)
  <2>1. UNCHANGED <<event, queue, sent>>
    BY <1>5 DEF WaitForMessage, sockVars
  <2> QED
    BY <1>2, <1>3, <1>4, <2>1, OutSame, Stutter
<1>6. CASE TakeMessage(c)
  <2>1. event[c] = 0 /\ Len(queue[c]) = sem[c] + 1
    BY <1>6 DEF IInv, ThreadInv, SemaphoreMatchesQueue, TakeMessage
  <2>2. queue[c] # <<>> /\ queue[c] \in Seq(Nat)
    BY <1>1, <2>1
  <2>3. Head(queue[c]) # 0
    <3>1. \A j \in 1..Len(queue[c]) : event[c] < queue[c][j]
      BY DEF IInv, OrderInv, Ordered
    <3>2. 1 \in 1..Len(queue[c]) /\ Head(queue[c]) = queue[c][1]
      BY <2>2
    <3> QED
      BY <2>1, <3>1, <3>2
  <2>4. /\ event' = [event EXCEPT ![c] = Head(queue[c])]
        /\ queue' = [queue EXCEPT ![c] = Tail(queue[c])] /\ UNCHANGED sent
    BY <1>6 DEF TakeMessage, sockVars
  <2>5. /\ event'[c] = Head(queue[c]) /\ queue'[c] = Tail(queue[c])
        /\ \A d \in Conns \ {c} : event'[d] = event[d] /\ queue'[d] = queue[d]
    BY <1>1, <2>4
  <2>6. InHand(event'[c]) \o queue'[c] \o PendingFor(c)' = BusOut[c]
    BY <1>3, <2>1, <2>2, <2>3, <2>5, StreamTake, OutOf
  <2>7. BusOut' = [BusOut EXCEPT ![c] = BusOut[c]]
    BY <1>3, <2>5, <2>6, OutPoint
  <2>8. UNCHANGED BusOut
    BY <2>7 DEF BusOut
  <2> QED
    BY <1>2, <1>3, <1>4, <2>4, <2>8, Stutter
<1>7. CASE SendMessage(c)
  <2>1. event[c] \in Nat \ {0} /\ queue[c] \in Seq(Nat) /\ UNCHANGED queue
    BY <1>1, <1>7 DEF IInv, ThreadInv, SendMessage, queueVars
  <2>2. PendingFor(c) \in Seq(Nat)
    BY <1>1 DEF PendingFor
  <2>3. /\ BusOut[c] # <<>> /\ Head(BusOut[c]) = event[c]
        /\ Tail(BusOut[c]) = InHand(0) \o queue[c] \o PendingFor(c)
    <3>1. PICK e \in Nat \ {0}, q \in Seq(Nat), p \in Seq(Nat) :
            e = event[c] /\ q = queue[c] /\ p = PendingFor(c)
      BY <2>1, <2>2
    <3>2. BusOut[c] = InHand(e) \o q \o p
      BY <3>1, OutOf
    <3>3. /\ InHand(e) \o q \o p # <<>> /\ Head(InHand(e) \o q \o p) = e
          /\ Tail(InHand(e) \o q \o p) = InHand(0) \o q \o p
      BY StreamSend
    <3> QED
      BY <3>1, <3>2, <3>3
  <2>4. CASE UNCHANGED event
    <3>1. UNCHANGED sent
      BY <1>1, <1>7, <2>1, <2>4 DEF SendMessage, sockVars
    <3> QED
      BY <1>2, <1>3, <1>4, <2>1, <2>4, <3>1, OutSame, Stutter
  <2>5. CASE event' = [event EXCEPT ![c] = 0]
    <3>1. /\ event'[c] = 0 /\ queue'[c] = queue[c]
          /\ \A d \in Conns \ {c} : event'[d] = event[d] /\ queue'[d] = queue[d]
      BY <1>1, <2>1, <2>5
    <3>2. InHand(event'[c]) \o queue'[c] \o PendingFor(c)' = Tail(BusOut[c])
      BY <1>3, <2>3, <3>1
    <3>3. BusOut' = [BusOut EXCEPT ![c] = Tail(BusOut[c])]
      BY <1>3, <3>1, <3>2, OutPoint
    <3>4. CASE sent' = [sent EXCEPT ![c] = Append(@, event[c])]
      <4>1. Bus!Deliver(c)
        BY <1>2, <1>3, <1>4, <2>3, <3>3, <3>4 DEF Bus!Deliver
      <4> QED
        BY <4>1 DEF BusStep, Bus!BusNext
    <3>5. CASE UNCHANGED sent /\ (recv[c] = "cleanup" \/ peer[c] \in Gone)
      <4>1. c \in BusGone
        BY <3>5 DEF IInv, DeliveryInv, BusGone
      <4>2. Bus!Drop(c)
        BY <1>2, <1>3, <1>4, <2>3, <3>3, <3>5, <4>1 DEF Bus!Drop
      <4> QED
        BY <4>2 DEF BusStep, Bus!BusNext
    <3> QED
      BY <1>1, <1>7, <2>1, <2>5, <3>1, <3>4, <3>5 DEF SendMessage, sockVars, Gone
  <2> QED
    BY <1>7, <2>4, <2>5 DEF SendMessage
<1> QED
  BY <1>5, <1>6, <1>7 DEF WorkerStep

LEMMA ClientRefines ==
  ASSUME IInv, NEW c \in Conns, Environment(c)
  PROVE  BusStep
<1>1. peer \in [Conns -> PeerState]
  BY DEF IInv, TypeOK
<1>2. UNCHANGED <<clients, log, subs, sent, event, queue, todo, target>>
  BY DEF Environment, ClientRead, ClientClose, ClientReset, SetPeer, queueVars,
         passVars
<1>3. UNCHANGED BusOut /\ UNCHANGED BusCursor
  BY <1>2, OutSame, CursorSame DEF CursorOf, PendingFor
<1>4. CASE ClientRead(c)
  BY <1>2, <1>3, <1>4, GoneSame, Stutter DEF ClientRead
<1>5. CASE ClientReset(c)
  <2>1. UNCHANGED BusGone
    BY <1>1, <1>5 DEF ClientReset, SetPeer, BusGone, Gone
  <2> QED
    BY <1>2, <1>3, <2>1, Stutter
<1>6. CASE ClientClose(c)
  <2>1. BusGone' = BusGone \union {c}
    BY <1>1, <1>6 DEF ClientClose, SetPeer, BusGone, Gone
  <2>2. Bus!Close(c)
    BY <1>2, <1>3, <2>1 DEF Bus!Close
  <2> QED
    BY <2>2 DEF BusStep, Bus!BusNext
<1> QED
  BY <1>4, <1>5, <1>6 DEF Environment

LEMMA StepRefines == IInv /\ [Next]_vars => BusStep
<1> SUFFICES ASSUME IInv, [Next]_vars PROVE BusStep
  OBVIOUS
<1>1. CASE UNCHANGED vars
  <2>1. UNCHANGED <<clients, log, subs, sent, event, queue, todo, target, peer>>
    BY <1>1 DEF vars, queueVars, passVars, sockVars
  <2>2. UNCHANGED BusOut /\ UNCHANGED BusCursor /\ UNCHANGED BusGone
    BY <2>1, OutSame, CursorSame, GoneSame DEF CursorOf, PendingFor
  <2> QED
    BY <2>1, <2>2, Stutter
<1>2. CASE AcceptFails
  <2>1. UNCHANGED <<clients, log, subs, sent, event, queue, todo, target, peer>>
    BY <1>2 DEF AcceptFails, queueVars, passVars, sockVars
  <2>2. UNCHANGED BusOut /\ UNCHANGED BusCursor /\ UNCHANGED BusGone
    BY <2>1, OutSame, CursorSame, GoneSame DEF CursorOf, PendingFor
  <2> QED
    BY <2>1, <2>2, Stutter
<1> QED
  BY <1>1, <1>2, ListenRefines, ReceiverRefines, WorkerRefines, ClientRefines,
     ReadFrameRefines DEF Next

-----------------------------------------------------------------------------
(* mbus-relayd keeps the promise of the abstract bus: one order of all     *)
(* messages, each offered to each member once, and delivered if and only   *)
(* if the member is subscribed when the broadcast comes to it.             *)
THEOREM Refinement == Spec => ImplementsBus
<1>1. Init => Bus!BusInit
  BY InitRefines
<1>2. IInv /\ [Next]_vars => [Bus!BusNext]_(Bus!busVars)
  BY StepRefines DEF BusStep
<1> QED
  BY <1>1, <1>2, Invariance, PTL DEF Spec, ImplementsBus, Bus!BusSpec
=============================================================================
