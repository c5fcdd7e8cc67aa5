----------------------------- MODULE CrawlerProofs -----------------------------
(***************************************************************************)
(* Theorems of Crawler, for any nodes, address lists and workers: its      *)
(* types, that each node is inserted and connected to once, and that no    *)
(* address is lost on its way to a worker.                                 *)
(***************************************************************************)
EXTENDS Crawler, FiniteSetTheorems, TLAPS

USE CrawlerAssumption

AtRest == {"waiting", "taking"}

Unlisted == {"waiting", "taking", "inserting"}

(* A worker has an event from the moment it takes it from the queue, and   *)
(* the event's node is in the vector once the worker has inserted it.      *)
EventInv ==
  \A w \in Workers :
    /\ step[w] \in AtRest => event[w] = NoNode
    /\ step[w] \notin AtRest => event[w] \in Nodes
    /\ step[w] \notin Unlisted => event[w] \in ToSet(list)

Taking == {w \in Workers : step[w] = "taking"}

SemInv == sem + Cardinality(Taking) = Len(queue)

ToldInv ==
  told \subseteq ToSet(queue) \union ToSet(list) \union {event[w] : w \in Workers}

OnceInv ==
  /\ IsInjective(list)
  /\ \A v, w \in Workers :
       v # w /\ step[v] \notin Unlisted /\ step[w] \notin Unlisted => event[v] # event[w]

Inv == TypeOK /\ EventInv /\ SemInv /\ ToldInv /\ OnceInv

-----------------------------------------------------------------------------
(* What a sequence holds after an element is put to its end ...            *)
LEMMA ToSetAppend ==
  ASSUME NEW S, NEW s \in Seq(S), NEW e \in S
  PROVE  ToSet(Append(s, e)) = ToSet(s) \union {e}
<1>1. /\ Len(Append(s, e)) = Len(s) + 1 /\ Append(s, e)[Len(s) + 1] = e
      /\ \A i \in 1..Len(s) : Append(s, e)[i] = s[i]
  OBVIOUS
<1>2. /\ DOMAIN s = 1..Len(s) /\ Len(s) \in Nat
      /\ DOMAIN Append(s, e) = 1..(Len(s) + 1)
  OBVIOUS
<1>3. ASSUME NEW x \in ToSet(Append(s, e))
      PROVE  x \in ToSet(s) \union {e}
  <2>1. PICK i \in 1..(Len(s) + 1) : x = Append(s, e)[i]
    BY <1>2, <1>3 DEF ToSet
  <2>2. CASE i = Len(s) + 1
    BY <1>1, <2>1, <2>2
  <2>3. CASE i \in 1..Len(s)
    BY <1>1, <1>2, <2>1, <2>3 DEF ToSet
  <2> QED
    BY <1>2, <2>1, <2>2, <2>3
<1>4. e \in ToSet(Append(s, e))
  BY <1>1, <1>2 DEF ToSet
<1>5. ASSUME NEW x \in ToSet(s)
      PROVE  x \in ToSet(Append(s, e))
  <2>1. PICK i \in 1..Len(s) : x = s[i]
    BY <1>2, <1>5 DEF ToSet
  <2> QED
    BY <1>1, <1>2, <2>1 DEF ToSet
<1> QED
  BY <1>3, <1>4, <1>5

(* ... or one is taken from its front.                                     *)
LEMMA ToSetTail ==
  ASSUME NEW S, NEW s \in Seq(S), s # <<>>
  PROVE  ToSet(s) = {Head(s)} \union ToSet(Tail(s))
<1>1. /\ Len(s) \in Nat \ {0} /\ Len(Tail(s)) = Len(s) - 1 /\ Head(s) = s[1]
      /\ \A i \in 1..(Len(s) - 1) : Tail(s)[i] = s[i + 1]
  OBVIOUS
<1>2. DOMAIN s = 1..Len(s) /\ DOMAIN Tail(s) = 1..(Len(s) - 1)
  BY <1>1
<1>3. ASSUME NEW x \in ToSet(s)
      PROVE  x \in {Head(s)} \union ToSet(Tail(s))
  <2>1. PICK i \in 1..Len(s) : x = s[i]
    BY <1>2, <1>3 DEF ToSet
  <2>2. CASE i = 1
    BY <1>1, <2>1, <2>2
  <2>3. CASE i # 1
    <3>1. i - 1 \in 1..(Len(s) - 1) /\ Tail(s)[i - 1] = x
      BY <1>1, <2>1, <2>3
    <3> QED
      BY <1>2, <3>1 DEF ToSet
  <2> QED
    BY <2>2, <2>3
<1>4. Head(s) \in ToSet(s)
  BY <1>1, <1>2 DEF ToSet
<1>5. ASSUME NEW x \in ToSet(Tail(s))
      PROVE  x \in ToSet(s)
  <2>1. PICK i \in 1..(Len(s) - 1) : x = Tail(s)[i]
    BY <1>2, <1>5 DEF ToSet
  <2>2. i + 1 \in 1..Len(s) /\ x = s[i + 1]
    BY <1>1, <2>1
  <2> QED
    BY <1>2, <2>2 DEF ToSet
<1> QED
  BY <1>3, <1>4, <1>5

(* A list without duplicates stays one when an element it lacks is added.  *)
LEMMA InjectiveAppend ==
  ASSUME NEW S, NEW s \in Seq(S), NEW e \in S, IsInjective(s), e \notin ToSet(s)
  PROVE  IsInjective(Append(s, e))
<1>1. /\ DOMAIN s = 1..Len(s) /\ Len(s) \in Nat
      /\ DOMAIN Append(s, e) = 1..(Len(s) + 1)
      /\ Append(s, e)[Len(s) + 1] = e
      /\ \A i \in 1..Len(s) : Append(s, e)[i] = s[i]
  OBVIOUS
<1>2. \A i \in 1..Len(s) : s[i] # e
  BY <1>1 DEF ToSet
<1> QED
  BY <1>1, <1>2 DEF IsInjective

-----------------------------------------------------------------------------
LEMMA InitInv == Init => Inv
<1> SUFFICES ASSUME Init PROVE Inv
  OBVIOUS
<1>1. ToSet(list) = {} /\ IsInjective(list)
  BY DEF Init, ToSet, IsInjective
<1>2. Taking = {}
  BY DEF Init, Taking
<1>3. SemInv
  BY <1>2, FS_EmptySet DEF Init, SemInv
<1>4. stale \in [Workers -> BOOLEAN] /\ connected \in [Nodes -> BOOLEAN]
  BY DEF Init
<1>5. TypeOK
  BY <1>1, <1>4 DEF Init, TypeOK
<1> QED
  BY <1>1, <1>3, <1>5 DEF Init, Inv, EventInv, ToldInv, OnceInv, AtRest, Unlisted

-----------------------------------------------------------------------------
(* A step that leaves the queue, the vector and the workers alone.         *)
LEMMA Elsewhere ==
  ASSUME Inv, UNCHANGED <<queueVars, step, event, list>>
  PROVE  EventInv' /\ SemInv' /\ ToldInv' /\ OnceInv'
<1>1. Taking' = Taking
  BY DEF Taking
<1> QED
  BY <1>1 DEF Inv, EventInv, SemInv, ToldInv, OnceInv, queueVars

(* A worker goes on with the node it has inserted.                         *)
LEMMA GoesOn ==
  ASSUME Inv, NEW w \in Workers, NEW new,
         step[w] \notin Unlisted, new \notin Unlisted,
         step' = [step EXCEPT ![w] = new], UNCHANGED <<queueVars, event, list>>
  PROVE  EventInv' /\ SemInv' /\ ToldInv' /\ OnceInv'
<1>1. \A v \in Workers : step'[v] = IF v = w THEN new ELSE step[v]
  BY DEF Inv, TypeOK
<1>2. "taking" \in Unlisted /\ AtRest \subseteq Unlisted
  BY DEF Unlisted, AtRest
<1>3. Taking' = Taking
  BY <1>1, <1>2 DEF Taking
<1>4. EventInv'
  BY <1>1, <1>2 DEF Inv, EventInv
<1>5. OnceInv'
  BY <1>1 DEF Inv, OnceInv
<1> QED
  BY <1>3, <1>4, <1>5 DEF Inv, SemInv, ToldInv, queueVars

(* A worker is done with a node that is in the vector.                     *)
LEMMA Forgets ==
  ASSUME Inv, NEW w \in Workers, Forget(w), step[w] \notin AtRest,
         event[w] \in ToSet(list), UNCHANGED <<queueVars, list>>
  PROVE  EventInv' /\ SemInv' /\ ToldInv' /\ OnceInv'
<1>1. \A v \in Workers : /\ step'[v] = IF v = w THEN "waiting" ELSE step[v]
                         /\ event'[v] = IF v = w THEN NoNode ELSE event[v]
  BY DEF Inv, TypeOK, Forget
<1>2. Taking' = Taking
  BY <1>1 DEF Taking, AtRest
<1>3. EventInv'
  BY <1>1 DEF Inv, EventInv, AtRest, Unlisted
<1>4. OnceInv'
  BY <1>1 DEF Inv, OnceInv, Unlisted
<1>5. ToldInv'
  BY <1>1 DEF Inv, ToldInv, queueVars
<1> QED
  BY <1>2, <1>3, <1>4, <1>5 DEF Inv, SemInv, queueVars

(* An address is queued.                                                   *)
LEMMA Adds ==
  ASSUME Inv, NEW n \in Nodes, AddNode(n), UNCHANGED <<step, event, list>>
  PROVE  /\ queue' \in Seq(Nodes) /\ sem' \in Nat /\ told' \subseteq Nodes
         /\ EventInv' /\ SemInv' /\ ToldInv' /\ OnceInv'
<1>1. queue \in Seq(Nodes) /\ sem \in Nat /\ told \subseteq Nodes
  BY DEF Inv, TypeOK
<1>2. /\ queue' = Append(queue, n) /\ sem' = sem + 1
      /\ told' = told \union {n}
  BY DEF AddNode, Post
<1>3. ToSet(queue') = ToSet(queue) \union {n}
  BY <1>1, <1>2, ToSetAppend
<1>4. Taking' = Taking /\ IsFiniteSet(Taking)
  BY FS_Subset DEF Taking
<1>5. SemInv'
  <2>1. Cardinality(Taking) \in Nat
    BY <1>4, FS_CardinalityType
  <2>2. Len(queue') = Len(queue) + 1 /\ Len(queue) \in Nat
    BY <1>1, <1>2
  <2> QED
    BY <1>1, <1>2, <1>4, <2>1, <2>2 DEF Inv, SemInv
<1>6. ToldInv'
  BY <1>2, <1>3 DEF Inv, ToldInv
<1>7. EventInv' /\ OnceInv'
  BY DEF Inv, EventInv, OnceInv
<1> QED
  BY <1>1, <1>2, <1>5, <1>6, <1>7

-----------------------------------------------------------------------------
(* A worker passes the semaphore: one message less to wait for, one worker *)
(* more that takes one.                                                    *)
LEMMA WaitInv ==
  ASSUME Inv, NEW w \in Workers, WaitForMessage(w)
  PROVE  Inv'
<1>1. \A v \in Workers : step'[v] = IF v = w THEN "taking" ELSE step[v]
  BY DEF Inv, TypeOK, WaitForMessage
<1>2. TypeOK'
  BY DEF Inv, TypeOK, WaitForMessage, socketVars, recvVars
<1>3. SemInv'
  <2>1. Taking' = Taking \union {w} /\ w \notin Taking /\ IsFiniteSet(Taking)
    BY <1>1, FS_Subset DEF Taking, WaitForMessage
  <2>2. Cardinality(Taking') = Cardinality(Taking) + 1
    BY <2>1, FS_AddElement
  <2>3. Cardinality(Taking) \in Nat
    BY <2>1, FS_CardinalityType
  <2>4. sem \in Nat /\ sem > 0 /\ sem' = sem - 1 /\ queue' = queue
    BY DEF Inv, TypeOK, WaitForMessage
  <2> QED
    BY <2>2, <2>3, <2>4 DEF Inv, SemInv
<1>4. EventInv'
  BY <1>1 DEF Inv, EventInv, WaitForMessage, AtRest, Unlisted
<1>5. ToldInv' /\ OnceInv'
  BY <1>1 DEF Inv, ToldInv, OnceInv, WaitForMessage, Unlisted
<1> QED
  BY <1>2, <1>3, <1>4, <1>5 DEF Inv

(* It takes the message that is there for it.                              *)
LEMMA TakeInv ==
  ASSUME Inv, NEW w \in Workers, TakeMessage(w)
  PROVE  Inv'
<1>1. queue \in Seq(Nodes) /\ sem \in Nat
  BY DEF Inv, TypeOK
<1>2. w \in Taking /\ IsFiniteSet(Taking)
  BY FS_Subset DEF Taking, TakeMessage
<1>3. Cardinality(Taking) \in Nat /\ Cardinality(Taking) # 0
  BY <1>2, FS_CardinalityType, FS_EmptySet
<1>4. Len(queue) \in Nat /\ Len(queue) # 0
  BY <1>1, <1>3 DEF Inv, SemInv
<1>5. /\ queue # <<>> /\ Head(queue) \in Nodes /\ Tail(queue) \in Seq(Nodes)
      /\ Len(Tail(queue)) = Len(queue) - 1
  BY <1>1, <1>4
<1>6. \A v \in Workers :
        /\ step'[v] = IF v = w THEN "inserting" ELSE step[v]
        /\ event'[v] = IF v = w THEN Head(queue) ELSE event[v]
  BY DEF Inv, TypeOK, TakeMessage
<1>7. TypeOK'
  BY <1>5 DEF Inv, TypeOK, TakeMessage, socketVars, recvVars
<1>8. SemInv'
  <2>1. Taking' = Taking \ {w}
    BY <1>6 DEF Taking
  <2>2. Cardinality(Taking') = Cardinality(Taking) - 1
    BY <1>2, <2>1, FS_RemoveElement
  <2>3. queue' = Tail(queue) /\ sem' = sem
    BY DEF TakeMessage
  <2> QED
    BY <1>1, <1>3, <1>4, <1>5, <2>2, <2>3 DEF Inv, SemInv
<1>9. EventInv'
  BY <1>5, <1>6 DEF Inv, EventInv, TakeMessage, AtRest, Unlisted
<1>10. OnceInv'
  BY <1>6 DEF Inv, OnceInv, TakeMessage, Unlisted
<1>11. ToldInv'
  <2>1. ToSet(queue) = {Head(queue)} \union ToSet(queue')
    BY <1>1, <1>5, ToSetTail DEF TakeMessage
  <2>2. event[w] = NoNode /\ NoNode \notin told
    BY DEF Inv, EventInv, TypeOK, TakeMessage, AtRest
  <2>3. ASSUME NEW a \in told, a \in {event[v] : v \in Workers}
        PROVE  a \in {event'[v] : v \in Workers}
    BY <1>6, <2>2, <2>3
  <2> QED
    BY <1>6, <2>1, <2>3 DEF Inv, ToldInv, TakeMessage
<1> QED
  BY <1>7, <1>8, <1>9, <1>10, <1>11 DEF Inv

(* It inserts a node that is not in the vector.                            *)
LEMMA InsertInv ==
  ASSUME Inv, NEW w \in Workers, Insert(w)
  PROVE  Inv'
<1>1. /\ list \in Seq(Nodes) /\ event[w] \in Nodes /\ event[w] \notin ToSet(list)
      /\ list' = Append(list, event[w])
  BY DEF Inv, TypeOK, EventInv, Insert, ContainsNode, AtRest
<1>2. ToSet(list') = ToSet(list) \union {event[w]} /\ IsInjective(list')
  BY <1>1, ToSetAppend, InjectiveAppend DEF Inv, OnceInv
<1>3. \A v \in Workers : step'[v] = IF v = w THEN "connecting" ELSE step[v]
  BY DEF Inv, TypeOK, Insert
<1>4. UNCHANGED <<event, queueVars>>
  BY DEF Insert
<1>5. TypeOK'
  <2>1. stale' \in [Workers -> BOOLEAN]
    BY DEF Insert
  <2>2. list' \in Seq(Nodes) /\ ToSet(list') \subseteq Nodes
    BY <1>1, <1>2 DEF Inv, TypeOK
  <2> QED
    <3>1. /\ step' = [step EXCEPT ![w] = "connecting"]
          /\ UNCHANGED <<process, main, build, connected, event, stored,
                         queueVars, socketVars, recvVars>>
      BY DEF Insert
    <3> QED
      BY <2>1, <2>2, <3>1 DEF Inv, TypeOK, queueVars, socketVars, recvVars
<1>6. Taking' = Taking
  BY <1>3 DEF Taking, Insert
<1>7. EventInv'
  BY <1>1, <1>2, <1>3, <1>4 DEF Inv, EventInv, Insert, AtRest, Unlisted
<1>8. OnceInv'
  BY <1>1, <1>2, <1>3, <1>4 DEF Inv, EventInv, OnceInv, Insert
<1> QED
  BY <1>2, <1>4, <1>5, <1>6, <1>7, <1>8 DEF Inv, SemInv, ToldInv, queueVars

-----------------------------------------------------------------------------
LEMMA WorkerInv ==
  ASSUME Inv, NEW w \in Workers, WorkerStep(w)
  PROVE  Inv'
<1>1. CASE WaitForMessage(w)
  BY <1>1, WaitInv
<1>2. CASE TakeMessage(w)
  BY <1>2, TakeInv
<1>3. CASE Insert(w)
  BY <1>3, InsertInv
<1>4. CASE Ignore(w)
  <2>1. TypeOK'
    BY <1>4 DEF Inv, TypeOK, Ignore, Forget, queueVars, socketVars, recvVars
  <2>2. step[w] \notin AtRest /\ event[w] \in ToSet(list)
    BY <1>4 DEF Ignore, ContainsNode, AtRest
  <2> QED
    BY <1>4, <2>1, <2>2, Forgets DEF Inv, Ignore
<1>5. CASE ConnectStale(w) \/ ConnectNoReceiver(w)
  <2>1. TypeOK'
    BY <1>5 DEF Inv, TypeOK, ConnectStale, ConnectNoReceiver, queueVars,
                workerVars, socketVars, recvVars
  <2> QED
    BY <1>5, <2>1, Elsewhere DEF Inv, ConnectStale, ConnectNoReceiver, workerVars
<1>6. CASE Connect(w)
  <2>1. event[w] \in Nodes
    BY <1>6 DEF Inv, EventInv, Connect, AtRest
  <2>2. TypeOK'
    <3>1. peer' \in [Nodes -> {"none", "open", "closed", "reset"}]
      BY <1>6, <2>1 DEF Inv, TypeOK, Connect
    <3>2. recv' \in [Nodes -> {"none", "reading", "ended"}]
      BY <1>6, <2>1 DEF Inv, TypeOK, Connect
    <3>3. raced' \subseteq Nodes
      BY <1>6, <2>1 DEF Inv, TypeOK, Connect
    <3> QED
      BY <1>6, <3>1, <3>2, <3>3 DEF Inv, TypeOK, Connect, queueVars
  <2> QED
    BY <1>6, <2>2, GoesOn DEF Inv, Connect, Unlisted
<1>7. CASE CheckReceiver(w)
  <2>1. event[w] \in Nodes
    BY <1>7 DEF Inv, EventInv, CheckReceiver, AtRest
  <2>2. TypeOK'
    BY <1>7, <2>1 DEF Inv, TypeOK, CheckReceiver, queueVars, socketVars, recvVars
  <2>3. CASE UNCHANGED step
    BY <1>7, <2>2, <2>3, Elsewhere DEF Inv, CheckReceiver
  <2>4. CASE step' = [step EXCEPT ![w] = "sending"]
    BY <1>7, <2>2, <2>4, GoesOn DEF Inv, CheckReceiver, Unlisted
  <2> QED
    BY <1>7, <2>3, <2>4 DEF CheckReceiver
<1>8. CASE SendVersion(w)
  <2>1. event[w] \in Nodes
    BY <1>8 DEF Inv, EventInv, SendVersion, AtRest
  <2>2. TypeOK'
    BY <1>8, <2>1 DEF Inv, TypeOK, SendVersion, Send, queueVars, recvVars
  <2> QED
    BY <1>8, <2>2, GoesOn DEF Inv, SendVersion, Unlisted
<1>9. CASE Construct(w)
  <2>1. TypeOK'
    BY <1>9 DEF Inv, TypeOK, Construct, queueVars, socketVars, recvVars
  <2> QED
    BY <1>9, <2>1, GoesOn DEF Inv, Construct, Unlisted
<1>10. CASE Initialise(w)
  <2>1. connected' \in [Nodes -> BOOLEAN]
    BY <1>10 DEF Inv, TypeOK, Initialise
  <2>2. TypeOK'
    BY <1>10, <2>1 DEF Inv, TypeOK, Initialise, queueVars, socketVars, recvVars
  <2> QED
    BY <1>10, <2>2, GoesOn DEF Inv, Initialise, Unlisted
<1>11. CASE Store(w)
  <2>1. event[w] \in Nodes /\ event[w] \in ToSet(list)
    BY <1>11 DEF Inv, EventInv, Store, AtRest, Unlisted
  <2>2. TypeOK'
    BY <1>11, <2>1 DEF Inv, TypeOK, Store, Forget, queueVars, socketVars, recvVars
  <2> QED
    BY <1>11, <2>1, <2>2, Forgets DEF Inv, Store, AtRest
<1> QED
  BY <1>1, <1>2, <1>3, <1>4, <1>5, <1>6, <1>7, <1>8, <1>9, <1>10, <1>11
     DEF WorkerStep

-----------------------------------------------------------------------------
LEMMA ReceiverInv ==
  ASSUME Inv, NEW n \in Nodes, ReceiverStep(n)
  PROVE  Inv'
<1>1. CASE \E a \in Nodes : QueueAddress(n, a)
  <2>1. PICK a \in Nodes : QueueAddress(n, a)
    BY <1>1
  <2>2. /\ queue' \in Seq(Nodes) /\ sem' \in Nat /\ told' \subseteq Nodes
        /\ EventInv' /\ SemInv' /\ ToldInv' /\ OnceInv'
    BY <2>1, Adds DEF QueueAddress, workerVars
  <2>3. TypeOK'
    BY <2>1, <2>2 DEF Inv, TypeOK, QueueAddress, workerVars, socketVars
  <2> QED
    BY <2>2, <2>3 DEF Inv
<1>2. CASE ~ \E a \in Nodes : QueueAddress(n, a)
  <2>1. /\ UNCHANGED <<queueVars, workerVars>>
        /\ TypeOK'
    <3>1. ASSUME NEW m \in Kinds, Reads(n, m)
          PROVE  input' \in [Nodes -> Seq(Kinds)]
      BY <3>1 DEF Inv, TypeOK, Reads
    <3>2. CASE \E m \in Kinds : ReadEarly(n, m)
      <4>1. PICK m \in Kinds : ReadEarly(n, m)
        BY <3>2
      <4>2. /\ input' \in [Nodes -> Seq(Kinds)]
            /\ process' \in {"up", "aborted", "corrupted"}
            /\ UNCHANGED <<main, build, connected, peer, heard, odd, queueVars,
                           workerVars, recvVars>>
        BY <3>1, <4>1 DEF ReadEarly
      <4> QED
        BY <4>2 DEF Inv, TypeOK, queueVars, workerVars, recvVars
    <3>3. CASE ReadVersion(n)
      BY <3>1, <3>3 DEF Inv, TypeOK, ReadVersion, Kinds, Send, Reads, queueVars,
                        workerVars, recvVars
    <3>4. CASE ReadVerAck(n)
      <4>1. input' \in [Nodes -> Seq(Kinds)]
        BY <3>1, <3>4 DEF ReadVerAck, Kinds
      <4>2. connected' \in [Nodes -> BOOLEAN]
        BY <3>4 DEF Inv, TypeOK, ReadVerAck
      <4>3. /\ process' \in {"up", "exited", "aborted", "corrupted", "killed"}
            /\ peer' \in [Nodes -> {"none", "open", "closed", "reset"}]
            /\ heard' \in [Nodes -> SUBSET {"version", "verack", "getaddr"}]
        <5>1. /\ process' = process \/ process' = "killed"
              /\ peer' = peer \/ peer' = [peer EXCEPT ![n] = "reset"]
              /\ heard' = heard \/ heard' = [heard EXCEPT ![n] = @ \union {"getaddr"}]
          BY <3>4 DEF ReadVerAck, Send
        <5>2. process' \in {"up", "exited", "aborted", "corrupted", "killed"}
          BY <5>1 DEF Inv, TypeOK
        <5>3. peer' \in [Nodes -> {"none", "open", "closed", "reset"}]
          BY <5>1 DEF Inv, TypeOK
        <5>4. heard' \in [Nodes -> SUBSET {"version", "verack", "getaddr"}]
          <6>1. heard \in [Nodes -> SUBSET {"version", "verack", "getaddr"}]
            BY DEF Inv, TypeOK
          <6>2. heard[n] \union {"getaddr"} \in SUBSET {"version", "verack", "getaddr"}
            BY <6>1
          <6> QED
            BY <5>1, <6>1, <6>2
        <5> QED
          BY <5>2, <5>3, <5>4
      <4>4. raced' \subseteq Nodes
        BY <3>4 DEF Inv, TypeOK, ReadVerAck
      <4>5. UNCHANGED <<main, build, odd, recv, adding, queueVars, workerVars>>
        BY <3>4 DEF ReadVerAck
      <4> QED
        BY <4>1, <4>2, <4>3, <4>4, <4>5 DEF Inv, TypeOK, queueVars, workerVars
    <3>5. CASE ReadAddr(n)
      BY <3>1, <3>5 DEF Inv, TypeOK, ReadAddr, Kinds, Reads, queueVars, workerVars
    <3>6. CASE ReadPing(n)
      <4>1. input' \in [Nodes -> Seq(Kinds)]
        BY <3>1, <3>6 DEF ReadPing, Kinds
      <4>2. /\ process' \in {"up", "exited", "aborted", "corrupted", "killed"}
            /\ peer' \in [Nodes -> {"none", "open", "closed", "reset"}]
        <5>1. /\ process' = process \/ process' = "killed"
              /\ peer' = peer \/ peer' = [peer EXCEPT ![n] = "reset"]
          BY <3>6 DEF ReadPing
        <5> QED
          BY <5>1 DEF Inv, TypeOK
      <4> QED
        BY <3>6, <4>1, <4>2 DEF Inv, TypeOK, ReadPing, queueVars, workerVars,
                                recvVars
    <3>7. CASE ReadBad(n)
      BY <3>1, <3>7 DEF Inv, TypeOK, ReadBad, Kinds, Reads, queueVars,
                        workerVars, recvVars
    <3>8. CASE ReadEnd(n)
      BY <3>8 DEF Inv, TypeOK, ReadEnd, queueVars, workerVars, socketVars
    <3> QED
      BY <1>2, <3>2, <3>3, <3>4, <3>5, <3>6, <3>7, <3>8 DEF ReceiverStep
  <2> QED
    BY <2>1, Elsewhere DEF Inv, workerVars
<1> QED
  BY <1>1, <1>2

LEMMA NodeInv ==
  ASSUME Inv, NEW n \in Nodes, Answer(n) \/ Misbehave(n)
  PROVE  Inv'
<1>1. UNCHANGED <<queueVars, workerVars, recvVars, process, main, build, connected>>
  BY DEF Answer, Misbehave
<1>2. CASE Answer(n)
  <2>1. <<"version", "verack">> \in Seq(Kinds) /\ "addr" \in Kinds
    BY DEF Kinds
  <2>2. \A q \in Seq(Kinds) : /\ q \o <<"version", "verack">> \in Seq(Kinds)
                              /\ Append(q, "addr") \in Seq(Kinds)
    BY <2>1
  <2>3. PICK m \in {"version", "getaddr"}, q \in Seq(Kinds) :
          /\ heard' = [heard EXCEPT ![n] = @ \ {m}]
          /\ input' = [input EXCEPT ![n] = q]
          /\ UNCHANGED <<peer, odd>>
    <3>1. input[n] \in Seq(Kinds)
      BY DEF Inv, TypeOK
    <3> QED
      BY <1>2, <2>2, <3>1 DEF Answer
  <2>4. TypeOK'
    BY <1>1, <2>3 DEF Inv, TypeOK, queueVars, workerVars, recvVars
  <2> QED
    BY <1>1, <2>4, Elsewhere DEF Inv, workerVars
<1>3. CASE Misbehave(n)
  <2>1. input' \in [Nodes -> Seq(Kinds)]
    <3>1. \A q \in Seq(Kinds), m \in Kinds : Append(q, m) \in Seq(Kinds)
      OBVIOUS
    <3>2. input \in [Nodes -> Seq(Kinds)]
      BY DEF Inv, TypeOK
    <3>3. CASE UNCHANGED input
      BY <3>2, <3>3
    <3>4. CASE \E m \in Kinds : input' = [input EXCEPT ![n] = Append(@, m)]
      <4>1. PICK m \in Kinds : input' = [input EXCEPT ![n] = Append(input[n], m)]
        BY <3>4
      <4> DEFINE q == Append(input[n], m)
      <4>2. q \in Seq(Kinds)
        BY <3>1, <3>2
      <4> QED
        BY <3>2, <4>1, <4>2
    <3> QED
      BY <1>3, <3>3, <3>4 DEF Misbehave
  <2>2. /\ peer' \in [Nodes -> {"none", "open", "closed", "reset"}]
        /\ heard' = heard
    <3>1. peer \in [Nodes -> {"none", "open", "closed", "reset"}]
      BY DEF Inv, TypeOK
    <3> QED
      BY <1>3, <3>1 DEF Misbehave
  <2>3. odd' \in [Nodes -> 0..MaxOdd]
    <3>1. odd \in [Nodes -> 0..MaxOdd] /\ odd[n] \in 0..MaxOdd /\ odd[n] < MaxOdd
      BY <1>3 DEF Inv, TypeOK, Misbehave
    <3>2. odd[n] + 1 \in 0..MaxOdd /\ odd' = [odd EXCEPT ![n] = odd[n] + 1]
      BY <1>3, <3>1 DEF Misbehave
    <3> QED
      BY <3>1, <3>2
  <2>4. TypeOK'
    BY <1>1, <2>1, <2>2, <2>3 DEF Inv, TypeOK, queueVars, workerVars, recvVars
  <2> QED
    BY <1>1, <2>4, Elsewhere DEF Inv, workerVars
<1> QED
  BY <1>2, <1>3

LEMMA StepInv == Inv /\ [Next]_vars => Inv'
<1> SUFFICES ASSUME Inv, [Next]_vars PROVE Inv'
  OBVIOUS
<1>1. CASE AddSeed
  <2>1. /\ queue' \in Seq(Nodes) /\ sem' \in Nat /\ told' \subseteq Nodes
        /\ EventInv' /\ SemInv' /\ ToldInv' /\ OnceInv'
    BY <1>1, Adds DEF AddSeed, workerVars
  <2>2. TypeOK'
    BY <1>1, <2>1 DEF Inv, TypeOK, AddSeed, workerVars, socketVars, recvVars
  <2> QED
    BY <2>1, <2>2 DEF Inv
<1>2. CASE NoWorkers
  <2>1. TypeOK'
    BY <1>2 DEF Inv, TypeOK, NoWorkers, queueVars, workerVars, socketVars, recvVars
  <2> QED
    BY <1>2, <2>1, Elsewhere DEF Inv, NoWorkers, workerVars
<1>3. CASE \E w \in Workers : WorkerStep(w)
  BY <1>3, WorkerInv
<1>4. CASE \E n \in Nodes : ReceiverStep(n) \/ Answer(n) \/ Misbehave(n)
  BY <1>4, ReceiverInv, NodeInv
<1>5. CASE UNCHANGED vars
  <2>1. TypeOK'
    BY <1>5 DEF Inv, TypeOK, vars, queueVars, workerVars, socketVars, recvVars
  <2> QED
    BY <1>5, <2>1, Elsewhere DEF Inv, vars, workerVars
<1> QED
  BY <1>1, <1>2, <1>3, <1>4, <1>5 DEF Next

-----------------------------------------------------------------------------
(* The conjunction of the parts is an invariant: every step of the main    *)
(* thread, a worker, a receiver or a node preserves it.                    *)
THEOREM Invariance == Spec => []Inv
  BY InitInv, StepInv, PTL DEF Spec

(* The variables of the crawler keep their types.                          *)
THEOREM TypeCorrect == Spec => []TypeOK
<1>1. Inv => TypeOK
  BY DEF Inv
<1> QED
  BY <1>1, Invariance, PTL

(* However many workers are told of one node, processAddNodeEvent() puts   *)
(* it into the vector once and one worker connects to it.                  *)
THEOREM EachNodeOnceHolds == Spec => []EachNodeOnce
<1>1. Inv => EachNodeOnce
  BY DEF Inv, OnceInv, EachNodeOnce, Unlisted
<1> QED
  BY <1>1, Invariance, PTL

(* An address given to addNode() is in the queue, with a worker or in the  *)
(* vector, and the semaphore counts the messages no worker is taking.      *)
THEOREM NoAddressLostHolds == Spec => []NoAddressLost
<1>1. Inv => NoAddressLost
  BY DEF Inv, SemInv, ToldInv, NoAddressLost, Taking
<1> QED
  BY <1>1, Invariance, PTL
=============================================================================
