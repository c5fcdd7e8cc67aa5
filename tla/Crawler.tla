------------------------------ MODULE Crawler ------------------------------
(***************************************************************************)
(* utils/crawler: the vector of nodes, the queue of addresses, the workers *)
(* that connect, and the receiver thread of each connection, which speaks  *)
(* the peer-to-peer protocol of lib/bitcoinp2p and queues the addresses it *)
(* is told.                                                                *)
(***************************************************************************)
EXTENDS Naturals, Sequences, FiniteSets, SequencesExt

CONSTANTS Nodes, Seed,     \* addresses, and the one given by --hostname
          NoNode,
          Known,           \* Known[n]: the addresses n answers with
          Workers,         \* newNodeEventProcessors
          Unreachable,     \* nodes that connect() fails for
          Faulty,          \* nodes that may close or send anything
          MaxOdd,          \* bound: how often a faulty node does so
          ThreadsMayFail   \* whether pthread_create() may fail

ASSUME CrawlerAssumption ==
  /\ Seed \in Nodes /\ NoNode \notin Nodes
  /\ Known \in [Nodes -> SUBSET Nodes]
  /\ Unreachable \subseteq Nodes /\ Faulty \subseteq Nodes
  /\ IsFiniteSet(Workers)
  /\ MaxOdd \in Nat /\ ThreadsMayFail \in BOOLEAN

VARIABLES
  process,    \* "up", or how the crawler ended
  main,       \* the main thread: "starting" or "printing"
  queue, sem, \* newNodeEventQueue: its list and its semaphore
  list,       \* the vector: the nodes of its ConnectionHolders
  step,       \* step[w]: what worker w does
  event,      \* event[w]: the node it works on, or NoNode
  stale,      \* stale[w]: its holder was moved away
  build,      \* build[n]: how far the NodeConnection is constructed
  connected,  \* connected[n]: NodeConnection::_connected
  stored,     \* the nodes whose holder has a connection
  recv,       \* recv[n]: the receiver thread
  adding,     \* adding[n]: addresses of a list still to be queued
  peer,       \* peer[n]: the node's end of the socket
  heard,      \* heard[n]: requests the node has not answered
  input,      \* input[n]: messages the receiver has not read
  odd,        \* odd[n]: how often the node misbehaved
  told,       \* history: the addresses given to addNode()
  raced       \* history: nodes whose verack came before their connection
              \* was constructed, or whose holder was moved before connect()

queueVars == <<queue, sem, told>>
workerVars == <<step, event, stale, list, stored>>
socketVars == <<peer, heard, input, odd>>
recvVars == <<recv, adding, raced>>
vars == <<process, main, build, connected, queueVars, workerVars, socketVars,
          recvVars>>

Kinds == {"version", "verack", "addr", "ping", "bad"}

Init ==
  /\ process = "up" /\ main = "starting"
  /\ queue = <<>> /\ sem = 0 /\ told = {}
  /\ list = <<>> /\ stored = {}
  /\ step = [w \in Workers |-> "waiting"]
  /\ event = [w \in Workers |-> NoNode]
  /\ stale = [w \in Workers |-> FALSE]
  /\ build = [n \in Nodes |-> "none"]
  /\ connected = [n \in Nodes |-> FALSE]
  /\ recv = [n \in Nodes |-> "none"]
  /\ adding = [n \in Nodes |-> {}] /\ raced = {}
  /\ peer = [n \in Nodes |-> "none"]
  /\ heard = [n \in Nodes |-> {}]
  /\ input = [n \in Nodes |-> <<>>]
  /\ odd = [n \in Nodes |-> 0]

(* addNode() queues the address and posts the semaphore. (Variant: only if *)
(* nothing is queued.)                                                     *)
PostIfEmpty == sem' = IF queue = <<>> THEN sem + 1 ELSE sem
Post == sem' = sem + 1
AddNode(n) == /\ queue' = Append(queue, n)
              /\ Post
              /\ told' = told \union {n}

(* The constructor of the manager starts the workers, or throws.           *)
NoWorkers ==
  /\ main = "starting" /\ ThreadsMayFail
  /\ process' = "exited"
  /\ UNCHANGED <<main, build, connected, queueVars, workerVars, socketVars,
                 recvVars>>

AddSeed ==
  /\ main = "starting"
  /\ AddNode(Seed)
  /\ main' = "printing"
  /\ UNCHANGED <<process, build, connected, workerVars, socketVars, recvVars>>

(* Socket::send(): nothing is sent once the receiver has closed the socket *)
(* or if it never opened; the first write to a closed socket is answered   *)
(* by a reset, the next one raises SIGPIPE.                                *)
Writable(n) == recv[n] # "ended" /\ peer[n] # "none"
Send(n, m) ==
  /\ heard' = IF Writable(n) /\ peer[n] = "open"
              THEN [heard EXCEPT ![n] = @ \union {m}] ELSE heard
  /\ peer' = IF Writable(n) /\ peer[n] = "closed"
             THEN [peer EXCEPT ![n] = "reset"] ELSE peer
  /\ process' = IF Writable(n) /\ peer[n] = "reset" THEN "killed" ELSE process

(***************************************************************************)
(* The workers: processAddNodeEvent()                                      *)
(***************************************************************************)
(* (Variant: sem_wait() returns early, interrupted by a signal.) *)
WaitInterrupted(w) ==
  /\ step[w] = "waiting"
  /\ sem' = sem - 1
  /\ step' = [step EXCEPT ![w] = "taking"]
  /\ UNCHANGED <<process, main, build, connected, queue, told, event, stale,
                 list, stored, socketVars, recvVars>>

WaitForMessage(w) ==
  /\ step[w] = "waiting" /\ sem > 0
  /\ sem' = sem - 1
  /\ step' = [step EXCEPT ![w] = "taking"]
  /\ UNCHANGED <<process, main, build, connected, queue, told, event, stale,
                 list, stored, socketVars, recvVars>>

TakeMessage(w) ==
  /\ step[w] = "taking"
  /\ event' = [event EXCEPT ![w] = Head(queue)]
  /\ queue' = Tail(queue)
  /\ step' = [step EXCEPT ![w] = "inserting"]
  /\ UNCHANGED <<process, main, build, connected, sem, told, stale, list,
                 stored, socketVars, recvVars>>

Forget(w) == /\ step' = [step EXCEPT ![w] = "waiting"]
             /\ event' = [event EXCEPT ![w] = NoNode]

(* (Variant: only a node with a connection counts as known.) *)
ContainsConnection(n) == n \in stored
ContainsNode(n) == n \in ToSet(list)

Ignore(w) ==
  /\ step[w] = "inserting" /\ ContainsNode(event[w])
  /\ Forget(w)
  /\ UNCHANGED <<process, main, build, connected, stale, list, stored,
                 queueVars, socketVars, recvVars>>

(* emplace_back() moves every element when the vector is full: its         *)
(* capacity is doubled each time.                                          *)
Moves == Len(list) \in {2 ^ k : k \in 0..Len(list)}

Insert(w) ==
  /\ step[w] = "inserting" /\ ~ContainsNode(event[w])
  /\ list' = Append(list, event[w])
  /\ stale' = [v \in Workers |->
                 IF v = w THEN FALSE
                 ELSE stale[v] \/ (Moves /\ step[v] \notin
                                     {"waiting", "taking", "inserting"})]
  /\ step' = [step EXCEPT ![w] = "connecting"]
  /\ UNCHANGED <<process, main, build, connected, event, stored, queueVars,
                 socketVars, recvVars>>

(* holder->connect() reads the holder's host, connects, and starts the     *)
(* receiver, which must not fail. The host of a holder that was moved away *)
(* is in freed memory: it may still be there, be empty, or be anything.    *)
ConnectStale(w) ==
  /\ step[w] = "connecting" /\ stale[w]
  /\ process' \in {"corrupted", "aborted"}
  /\ UNCHANGED <<main, build, connected, queueVars, workerVars, socketVars,
                 recvVars>>

Connect(w) ==
  /\ step[w] = "connecting"
  /\ LET n == event[w] IN
       /\ \/ n \notin Unreachable /\ peer' = [peer EXCEPT ![n] = "open"]
          \/ (n \in Unreachable \/ stale[w]) /\ UNCHANGED peer
       /\ recv' = [recv EXCEPT ![n] = "reading"]
       /\ raced' = IF stale[w] THEN raced \union {n} ELSE raced
  /\ step' = [step EXCEPT ![w] = "checking"]
  /\ UNCHANGED <<process, main, build, connected, event, stale, list, stored,
                 adding, heard, input, odd, queueVars>>

ConnectNoReceiver(w) ==
  /\ step[w] = "connecting" /\ ThreadsMayFail
  /\ process' = "aborted"
  /\ UNCHANGED <<main, build, connected, queueVars, workerVars, socketVars,
                 recvVars>>

(* P2PConnection's constructor throws unless the receiver runs; nothing    *)
(* catches that in a worker.                                               *)
CheckReceiver(w) ==
  /\ step[w] = "checking"
  /\ LET n == event[w] IN
       IF recv[n] = "reading"
       THEN /\ build' = [build EXCEPT ![n] = "P2PConnection"]
            /\ step' = [step EXCEPT ![w] = "sending"]
            /\ UNCHANGED process
       ELSE process' = "aborted" /\ UNCHANGED <<build, step>>
  /\ UNCHANGED <<main, connected, event, stale, list, stored, queueVars,
                 socketVars, recvVars>>

SendVersion(w) ==
  /\ step[w] = "sending"
  /\ Send(event[w], "version")
  /\ step' = [step EXCEPT ![w] = "constructing"]
  /\ UNCHANGED <<main, build, connected, event, stale, list, stored, input,
                 odd, queueVars, recvVars>>

(* The object becomes a NodeConnection, and its members are initialised.   *)
Construct(w) ==
  /\ step[w] = "constructing"
  /\ build' = [build EXCEPT ![event[w]] = "NodeConnection"]
  /\ step' = [step EXCEPT ![w] = "initialising"]
  /\ UNCHANGED <<process, main, connected, event, stale, list, stored,
                 queueVars, socketVars, recvVars>>

Initialise(w) ==
  /\ step[w] = "initialising"
  /\ build' = [build EXCEPT ![event[w]] = "done"]
  /\ connected' = [connected EXCEPT ![event[w]] = FALSE]
  /\ step' = [step EXCEPT ![w] = "storing"]
  /\ UNCHANGED <<process, main, event, stale, list, stored, queueVars,
                 socketVars, recvVars>>

(* The connection is put into the holder; into freed memory if the holder  *)
(* was moved.                                                              *)
Store(w) ==
  /\ step[w] = "storing"
  /\ stored' = IF stale[w] THEN stored ELSE stored \union {event[w]}
  /\ process' \in IF stale[w] THEN {"up", "corrupted"} ELSE {"up"}
  /\ Forget(w)
  /\ UNCHANGED <<main, build, connected, stale, list, queueVars, socketVars,
                 recvVars>>

(***************************************************************************)
(* A receiver: Socket::receive(), P2PSocket::onReceive() and               *)
(* NodeConnection::processMessage()                                        *)
(***************************************************************************)
Reads(n, m) ==
  /\ recv[n] = "reading" /\ adding[n] = {}
  /\ input[n] # <<>> /\ Head(input[n]) = m
  /\ input' = [input EXCEPT ![n] = Tail(@)]

(* Before there is a P2PConnection with a socket to answer by.             *)
ReadEarly(n, m) ==
  /\ build[n] = "none" /\ m # "bad"
  /\ Reads(n, m)
  /\ process' \in {"up", "corrupted", "aborted"}
  /\ UNCHANGED <<main, build, connected, peer, heard, odd, queueVars,
                 workerVars, recvVars>>

ReadVersion(n) ==
  /\ build[n] # "none"
  /\ Reads(n, "version")
  /\ Send(n, "verack")
  /\ UNCHANGED <<main, build, connected, odd, queueVars, workerVars, recvVars>>

(* handshakeComplete() is P2PConnection's, which does nothing, until the   *)
(* object is a NodeConnection. (Variant: the method is not virtual.)       *)
NotVirtual(n) == FALSE
IsNodeConnection(n) == build[n] \in {"NodeConnection", "done"}

ReadVerAck(n) ==
  /\ build[n] # "none"
  /\ Reads(n, "verack")
  /\ IF IsNodeConnection(n)
     THEN /\ connected' = [connected EXCEPT ![n] = TRUE]
          /\ Send(n, "getaddr")
     ELSE UNCHANGED <<connected, process, peer, heard>>
  /\ raced' = IF build[n] = "done" THEN raced ELSE raced \union {n}
  /\ UNCHANGED <<main, build, odd, recv, adding, queueVars, workerVars>>

ReadAddr(n) ==
  /\ build[n] # "none"
  /\ Reads(n, "addr")
  /\ adding' = [adding EXCEPT ![n] = IF IsNodeConnection(n) THEN Known[n]
                                                             ELSE {}]
  /\ UNCHANGED <<process, main, build, connected, recv, raced, peer, heard,
                 odd, queueVars, workerVars>>

QueueAddress(n, a) ==
  /\ a \in adding[n]
  /\ AddNode(a)
  /\ adding' = [adding EXCEPT ![n] = @ \ {a}]
  /\ UNCHANGED <<process, main, build, connected, recv, raced, workerVars,
                 socketVars>>

(* A pong and a ping are sent: two writes. *)
ReadPing(n) ==
  /\ build[n] # "none"
  /\ Reads(n, "ping")
  /\ \/ peer[n] = "open" /\ UNCHANGED <<process, peer>>
     \/ peer[n] = "closed" /\ UNCHANGED process
        /\ peer' = [peer EXCEPT ![n] = "reset"]
     \/ peer[n] \in {"closed", "reset"} /\ process' = "killed"
        /\ UNCHANGED peer
  /\ UNCHANGED <<main, build, connected, heard, odd, queueVars, workerVars,
                 recvVars>>

(* A wrong magic, size, checksum or ping throws in the receiver's thread.  *)
ReadBad(n) ==
  /\ Reads(n, "bad")
  /\ process' = "aborted"
  /\ UNCHANGED <<main, build, connected, peer, heard, odd, queueVars,
                 workerVars, recvVars>>

(* The end of the stream, an error, or no socket. _connected is left as it *)
(* is.                                                                     *)
ReadEnd(n) ==
  /\ recv[n] = "reading" /\ adding[n] = {}
  /\ \/ peer[n] \in {"none", "reset"}
     \/ peer[n] = "closed" /\ input[n] = <<>>
  /\ recv' = [recv EXCEPT ![n] = "ended"]
  /\ UNCHANGED <<process, main, build, connected, adding, raced, queueVars,
                 workerVars, socketVars>>

(***************************************************************************)
(* The nodes                                                               *)
(***************************************************************************)
Answer(n) ==
  /\ peer[n] = "open"
  /\ \/ /\ "version" \in heard[n]
        /\ heard' = [heard EXCEPT ![n] = @ \ {"version"}]
        /\ input' = [input EXCEPT ![n] = @ \o <<"version", "verack">>]
     \/ /\ "getaddr" \in heard[n]
        /\ heard' = [heard EXCEPT ![n] = @ \ {"getaddr"}]
        /\ input' = [input EXCEPT ![n] = Append(@, "addr")]
  /\ UNCHANGED <<process, main, build, connected, peer, odd, queueVars,
                 workerVars, recvVars>>

Misbehave(n) ==
  /\ n \in Faulty /\ peer[n] = "open" /\ odd[n] < MaxOdd
  /\ odd' = [odd EXCEPT ![n] = @ + 1]
  /\ \/ /\ \E m \in Kinds : input' = [input EXCEPT ![n] = Append(@, m)]
        /\ UNCHANGED peer
     \/ peer' = [peer EXCEPT ![n] = "closed"] /\ UNCHANGED input
  /\ UNCHANGED <<process, main, build, connected, heard, queueVars,
                 workerVars, recvVars>>

WorkerStep(w) ==
  \/ WaitForMessage(w) \/ TakeMessage(w) \/ Ignore(w) \/ Insert(w)
  \/ Connect(w) \/ ConnectStale(w) \/ ConnectNoReceiver(w)
  \/ CheckReceiver(w) \/ SendVersion(w) \/ Construct(w) \/ Initialise(w)
  \/ Store(w)

ReceiverStep(n) ==
  \/ \E m \in Kinds : ReadEarly(n, m)
  \/ ReadVersion(n) \/ ReadVerAck(n) \/ ReadAddr(n) \/ ReadPing(n)
  \/ ReadBad(n) \/ ReadEnd(n) \/ \E a \in Nodes : QueueAddress(n, a)

Next ==
  /\ process = "up"
  /\ \/ AddSeed \/ NoWorkers
     \/ \E w \in Workers : WorkerStep(w)
     \/ \E n \in Nodes : ReceiverStep(n) \/ Answer(n) \/ Misbehave(n)

Spec == Init /\ [][Next]_vars

(* Threads are scheduled, connect() gives up at some time, and a node      *)
(* answers what it is asked.                                               *)
Fairness ==
  /\ WF_vars(process = "up" /\ AddSeed)
  /\ \A w \in Workers : WF_vars(process = "up" /\ WorkerStep(w))
  /\ \A n \in Nodes : /\ WF_vars(process = "up" /\ ReceiverStep(n))
                      /\ WF_vars(process = "up" /\ Answer(n))

FairSpec == Spec /\ Fairness

(***************************************************************************)
(* Properties                                                              *)
(***************************************************************************)
TypeOK ==
  /\ process \in {"up", "exited", "aborted", "corrupted", "killed"}
  /\ main \in {"starting", "printing"}
  /\ queue \in Seq(Nodes) /\ sem \in Nat /\ list \in Seq(Nodes)
  /\ step \in [Workers -> {"waiting", "taking", "inserting", "connecting",
                           "checking", "sending", "constructing",
                           "initialising", "storing"}]
  /\ event \in [Workers -> Nodes \union {NoNode}]
  /\ stale \in [Workers -> BOOLEAN]
  /\ build \in [Nodes -> {"none", "P2PConnection", "NodeConnection", "done"}]
  /\ connected \in [Nodes -> BOOLEAN]
  /\ recv \in [Nodes -> {"none", "reading", "ended"}]
  /\ adding \in [Nodes -> SUBSET Nodes]
  /\ peer \in [Nodes -> {"none", "open", "closed", "reset"}]
  /\ heard \in [Nodes -> SUBSET {"version", "verack", "getaddr"}]
  /\ input \in [Nodes -> Seq(Kinds)] /\ odd \in [Nodes -> 0..MaxOdd]
  /\ {told, raced, stored, ToSet(list)} \subseteq SUBSET Nodes

(* However many workers are told of one node at the same time, it is put   *)
(* into the vector once, and at most one of them connects to it.           *)
EachNodeOnce ==
  /\ IsInjective(list)
  /\ \A v, w \in Workers :
       /\ v # w /\ event[v] = event[w]
       /\ {step[v], step[w]} \intersect {"waiting", "taking", "inserting"} = {}
       => event[v] = NoNode

(* Nothing addNode() was given is lost between the queue's semaphore, its  *)
(* list and the workers, and a worker that passed the semaphore finds a    *)
(* message.                                                                *)
NoAddressLost ==
  /\ sem + Cardinality({w \in Workers : step[w] = "taking"}) = Len(queue)
  /\ told \subseteq ToSet(queue) \union ToSet(list)
                   \union {event[w] : w \in Workers}

(* The nodes reached from the given one by way of nodes that answer. *)
Crawlable ==
  LET Of(S) == S \union UNION {Known[n] : n \in S \ (Faulty \union Unreachable)}
      reach[k \in 0..Cardinality(Nodes)] ==
        IF k = 0 THEN {Seed} ELSE Of(reach[k - 1])
  IN  reach[Cardinality(Nodes)]

(* Every node that can be learnt of is tried, unless the crawler ends, a   *)
(* verack overtakes the constructor of its connection, or the vector moves *)
(* under a worker that is about to connect.                                *)
TriesAll == <>(\/ process # "up" \/ raced # {}
               \/ Crawlable \subseteq ToSet(list))

(* "+ %d unavailable nodes (%d yet to try)": a node that cannot be reached *)
(* is counted; it does not end the crawler.                                *)
SurvivesUnreachable == process # "aborted"
=============================================================================
