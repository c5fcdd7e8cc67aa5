------------------------------- MODULE Relay -------------------------------
(***************************************************************************)
(* mbus-relayd: one listener (the main thread), and for every connection a *)
(* receiver thread, which reads the client's frames and broadcasts them,   *)
(* and a worker thread, which takes messages from the connection's queue   *)
(* and writes them to its socket.  The registry of connections has a lock; *)
(* it is the only lock held over several steps.  The critical sections of  *)
(* the queue and of the subscriptions enclose no other lock and nothing    *)
(* that blocks, so each of them is one step.                               *)
(*                                                                         *)
(* A message is represented by its rank: its position in log, the history  *)
(* of the messages in the order in which their broadcasts got the lock.    *)
(***************************************************************************)
EXTENDS Naturals, Sequences, FiniteSets

CONSTANTS Conns,          \* connections; each stands for one accepted socket
          NoConn,         \* not a connection
          Classes,        \* message classes, "__meta__" not among them
          Frames,         \* the frames clients may send
          MaxFrames,      \* bound: frames one client sends
          WireCap,        \* bound: messages a socket buffers for its client
          ResourcesFail,  \* whether pthread_create() and accept() may fail
          DebugLogging,   \* whether the relay was started with --debug
          Closers,        \* the clients that may close their socket
          Readers         \* the clients assumed to go on reading their socket

PublishFrame == [kind : {"publish"}, class : Classes, json : BOOLEAN]
Frame == PublishFrame
           \union [kind : {"setSubscriptions"}, classes : SUBSET Classes]
           \union [kind : {"unsupported", "undecodable"}]

ASSUME RelayAssumption ==
  /\ NoConn \notin Conns
  /\ Frames \subseteq Frame
  /\ MaxFrames \in Nat
  /\ WireCap \in Nat \ {0}
  /\ ResourcesFail \in BOOLEAN
  /\ DebugLogging \in BOOLEAN
  /\ Closers \subseteq Conns
  /\ Readers \subseteq Conns

VARIABLES
  process,    \* "up", or how the relay ended
  listener,   \* the listener's step: "accept", "add" or "start"
  newConn,    \* the connection addConnection() works on, or NoConn
  peer,       \* peer[c]: the client's end of the socket
  clients,    \* the registry: connections in ConnectionManager::Connections
  lock,       \* the receiver (named by its connection) holding the registry lock
  recv,       \* recv[c]: what c's receiver thread does
  request,    \* request[c]: the message c's receiver wants to broadcast
  todo,       \* connections the lock's holder has still to visit
  target,     \* the connection the holder is about to queue to, or NoConn
  subs,       \* subs[c]: BusConnection::subscriptions
  queue,      \* queue[c]: Queue::_queue of c's messageQueue, ranks
  sem,        \* sem[c]: its semaphore
  work,       \* work[c]: what c's worker thread does
  event,      \* event[c]: the rank of the message it processes, 0 if none
  sent,       \* history: sent[c], ranks in the order written to c's stream
  unread,     \* unread[c]: how many of these the client has not read yet
  frames,     \* frames[c]: how many frames c's receiver has read
  log,        \* history: the messages in broadcast order
  since       \* history: since[c], Len(log) when subs[c] was last changed

sockVars == <<peer, sent, unread>>
queueVars == <<queue, sem>>
passVars == <<lock, todo, target, log>>
vars == <<process, listener, newConn, clients, recv, request, subs, work,
          event, frames, since, sockVars, queueVars, passVars>>

Entry == [from : Conns, n : Nat, class : Classes, json : BOOLEAN]
NoRequest == [kind |-> "none"]

Init ==
  /\ process = "up"
  /\ listener = "accept" /\ newConn = NoConn
  /\ peer = [c \in Conns |-> "absent"]
  /\ clients = {}
  /\ lock = NoConn /\ todo = {} /\ target = NoConn
  /\ recv = [c \in Conns |-> "none"] /\ work = [c \in Conns |-> "none"]
  /\ request = [c \in Conns |-> NoRequest]
  /\ subs = [c \in Conns |-> {}]
  /\ queue = [c \in Conns |-> <<>>] /\ sem = [c \in Conns |-> 0]
  /\ event = [c \in Conns |-> 0]
  /\ sent = [c \in Conns |-> <<>>] /\ unread = [c \in Conns |-> 0]
  /\ frames = [c \in Conns |-> 0]
  /\ log = <<>> /\ since = [c \in Conns |-> 0]

(* The client has closed its end: in order, or with a reset that has not   *)
(* been reported here ("refused"), or that a write() would die of.         *)
Gone == {"closed", "refused", "reset"}

(* OBTAIN_FOREIGN_LOCK of the registry's lock waits until nobody holds it. *)
NoExclusion == TRUE
Unlocked == lock = NoConn

(* The Lock::Ref goes out of scope. *)
KeepLocked == lock' = lock
Unlock == lock' = NoConn

(* processPacket() takes the frame off the stream before handing it on. *)
ReadAgain(c) == frames' = frames
Consume(c) == frames' = [frames EXCEPT ![c] = @ + 1]

(* isSubscribedTo() the message being broadcast *)
SubscribedToAny(c) == subs[c] # {}
IsSubscribed(c) == log[Len(log)].class \in subs[c]

(* sem_post() of c's queue *)
PostIfEmpty(c) == sem' = IF queue[c] = <<>> THEN [sem EXCEPT ![c] = @ + 1]
                                            ELSE sem
Post(c) == sem' = [sem EXCEPT ![c] = @ + 1]

(***************************************************************************)
(* The listener: Listener::listen() and ConnectionManager::addConnection() *)
(***************************************************************************)

(* (Variant: the receiver does not wait for enableProcessing().) *)
AcceptRunning(c) ==
  /\ listener = "accept" /\ peer[c] = "absent"
  /\ listener' = "add" /\ newConn' = c
  /\ peer' = [peer EXCEPT ![c] = "open"]
  /\ recv' = [recv EXCEPT ![c] = "reading"]
  /\ work' = [work EXCEPT ![c] = "waiting"]
  /\ UNCHANGED <<process, clients, request, subs, event, frames, since, sent,
                 unread, queueVars, passVars>>

(* accept() and makeConnection(): the receiver is created, blocked on its  *)
(* run lock, then the worker, which starts at once.                        *)
Accept(c) ==
  /\ listener = "accept" /\ peer[c] = "absent"
  /\ listener' = "add" /\ newConn' = c
  /\ peer' = [peer EXCEPT ![c] = "open"]
  /\ recv' = [recv EXCEPT ![c] = "WaitingToStart"]
  /\ work' = [work EXCEPT ![c] = "waiting"]
  /\ UNCHANGED <<process, clients, request, subs, event, frames, since, sent,
                 unread, queueVars, passVars>>

(* The receiver's thread cannot be created.  The callback is called while  *)
(* the Thread is under construction, so it is Thread's own, which throws,  *)
(* and not ReceiverThread's: listen() logs it and drops the connection.    *)
AcceptNoReceiver(c) ==
  /\ ResourcesFail
  /\ listener = "accept" /\ peer[c] = "absent"
  /\ peer' = [peer EXCEPT ![c] = "closed"]
  /\ recv' = [recv EXCEPT ![c] = "FailedToStart"]
  /\ UNCHANGED <<process, listener, newConn, clients, request, subs, work, event,
                 frames, since, sent, unread, queueVars, passVars>>

(* The worker's thread cannot be created: its constructor throws, and the  *)
(* half built connection is destroyed.  The receiver is cancelled without  *)
(* being joined and its run lock destroyed while it may still be waiting   *)
(* for it, which may go wrong.                                             *)
AcceptNoWorker(c) ==
  /\ ResourcesFail
  /\ listener = "accept" /\ peer[c] = "absent"
  /\ peer' = [peer EXCEPT ![c] = "closed"]
  /\ recv' = [recv EXCEPT ![c] = "destroyed"]
  /\ process' \in {"up", "corrupted"}
  /\ UNCHANGED <<listener, newConn, clients, request, subs, work, event, frames,
                 since, sent, unread, queueVars, passVars>>

(* accept() fails: listen() returns, and so does main(). *)
AcceptFails ==
  /\ ResourcesFail /\ listener = "accept"
  /\ process' = "exited"
  /\ UNCHANGED <<listener, newConn, clients, recv, request, subs, work, event,
                 frames, since, sockVars, queueVars, passVars>>

Add(c) ==
  /\ listener = "add" /\ newConn = c
  /\ Unlocked
  /\ clients' = clients \union {c}
  /\ since' = [since EXCEPT ![c] = Len(log)]
  /\ listener' = "start"
  /\ UNCHANGED <<process, newConn, recv, request, subs, work, event, frames,
                 sockVars, queueVars, passVars>>

(* enableProcessing() on the reference add() returned, after the registry  *)
(* lock was released: undefined if the connection was destroyed by then.   *)
Start(c) ==
  /\ listener = "start" /\ newConn = c
  /\ listener' = "accept" /\ newConn' = NoConn
  /\ recv' = IF recv[c] = "WaitingToStart"
             THEN [recv EXCEPT ![c] = "reading"] ELSE recv
  /\ process' \in IF c \in clients THEN {"up"} ELSE {"up", "corrupted"}
  /\ UNCHANGED <<clients, request, subs, work, event, frames, since, sockVars,
                 queueVars, passVars>>

(***************************************************************************)
(* The receiver of c: Socket::receive(), BusConnection::onReceive() and    *)
(* MessageBusServer::broadcastToClients()                                  *)
(***************************************************************************)

(* read() returns a frame.  What the client sent before it closed is still *)
(* read; after a reset it is not.  decodeOpaque() throws on a frame that   *)
(* does not decode, nothing catches it, and the process ends; an           *)
(* unsupported "__meta__" message is caught and dropped.  The receivers of *)
(* a message are counted for a log line, which only --debug writes.        *)
ReadFrame(c, f) ==
  /\ recv[c] = "reading" /\ peer[c] \in {"open", "closed"}
  /\ frames[c] < MaxFrames
  /\ Consume(c)
  /\ \/ /\ f.kind = "publish"
        /\ recv' = [recv EXCEPT ![c] = IF DebugLogging THEN "counting"
                                                       ELSE "broadcasting"]
        /\ request' = [request EXCEPT ![c] = f]
        /\ UNCHANGED <<process, subs, since>>
     \/ /\ f.kind = "setSubscriptions"
        /\ subs' = [subs EXCEPT ![c] = f.classes]
        /\ since' = [since EXCEPT ![c] = Len(log)]
        /\ UNCHANGED <<process, recv, request>>
     \/ /\ f.kind = "unsupported"
        /\ UNCHANGED <<process, recv, request, subs, since>>
     \/ /\ f.kind = "undecodable"
        /\ process' = "aborted"
        /\ UNCHANGED <<recv, request, subs, since>>
  /\ UNCHANGED <<listener, newConn, clients, work, event, sockVars, queueVars,
                 passVars>>

(* (Variant: only an error ends the receiver.) *)
ReadError(c) ==
  /\ recv[c] = "reading" /\ peer[c] \in {"refused", "reset"}
  /\ recv' = [recv EXCEPT ![c] = "cleanup"]
  /\ UNCHANGED <<process, listener, newConn, clients, request, subs, work,
                 event, frames, since, sockVars, queueVars, passVars>>

(* read() returns 0 or an error, and in the same step the socket is closed *)
(* and main() returns; the thread, not to be cancelled any more, goes on   *)
(* to cleanup().                                                           *)
ReadEnd(c) ==
  /\ recv[c] = "reading" /\ peer[c] \in Gone
  /\ recv' = [recv EXCEPT ![c] = "cleanup"]
  /\ UNCHANGED <<process, listener, newConn, clients, request, subs, work,
                 event, frames, since, sockVars, queueVars, passVars>>

(* calculateEffectiveBroadcastClients(): takes the lock and looks at every *)
(* connection.                                                             *)
Count(c) ==
  /\ recv[c] = "counting" /\ Unlocked
  /\ recv' = [recv EXCEPT ![c] = "broadcasting"]
  /\ UNCHANGED <<process, listener, newConn, clients, request, subs, work,
                 event, frames, since, sockVars, queueVars, passVars>>

(* The broadcast gets the registry lock, which fixes the message's rank. *)
BeginBroadcast(c) ==
  /\ recv[c] = "broadcasting" /\ Unlocked
  /\ recv' = [recv EXCEPT ![c] = "visiting"]
  /\ lock' = c /\ todo' = clients
  /\ log' = Append(log, [from |-> c, n |-> frames[c],
                         class |-> request[c].class, json |-> request[c].json])
  /\ request' = [request EXCEPT ![c] = NoRequest]
  /\ UNCHANGED <<process, listener, newConn, clients, target, subs, work,
                 event, frames, since, sockVars, queueVars>>

(* isSubscribedTo() of one connection, under its subscriptionsLock. *)
Visit(c, d) ==
  /\ recv[c] = "visiting" /\ d \in todo
  /\ IF IsSubscribed(d)
     THEN /\ target' = d
          /\ recv' = [recv EXCEPT ![c] = "queueing"]
          /\ UNCHANGED todo
     ELSE /\ todo' = todo \ {d}
          /\ UNCHANGED <<target, recv>>
  /\ UNCHANGED <<process, listener, newConn, clients, request, subs, work,
                 event, frames, since, lock, log, sockVars, queueVars>>

(* Queue::queue(): the message is appended and the semaphore posted. *)
Enqueue(c) ==
  /\ recv[c] = "queueing"
  /\ queue' = [queue EXCEPT ![target] = Append(@, Len(log))]
  /\ Post(target)
  /\ todo' = todo \ {target} /\ target' = NoConn
  /\ recv' = [recv EXCEPT ![c] = "visiting"]
  /\ UNCHANGED <<process, listener, newConn, clients, request, subs, work,
                 event, frames, since, lock, log, sockVars>>

EndBroadcast(c) ==
  /\ recv[c] = "visiting" /\ todo = {}
  /\ Unlock
  /\ recv' = [recv EXCEPT ![c] = "reading"]
  /\ UNCHANGED <<process, listener, newConn, clients, request, todo, target,
                 subs, work, event, frames, since, log, sockVars, queueVars>>

(* remove() by the connection's own receiver: the connection is destroyed  *)
(* with its worker and its queue.  The worker is cancelled but nobody      *)
(* waits for its end: the memory it still uses may be free by then, and a  *)
(* lock of the C library it holds is never released.                       *)
Cleanup(c) ==
  /\ recv[c] = "cleanup" /\ Unlocked
  /\ clients' = clients \ {c}
  /\ recv' = [recv EXCEPT ![c] = "destroyed"]
  /\ work' = [work EXCEPT ![c] = "destroyed"]
  /\ queue' = [queue EXCEPT ![c] = <<>>]
  /\ sem' = [sem EXCEPT ![c] = 0]
  /\ event' = [event EXCEPT ![c] = 0]
  /\ subs' = [subs EXCEPT ![c] = {}]
  /\ process' \in {"up", "corrupted"}
  /\ UNCHANGED <<listener, newConn, request, frames, since, sockVars,
                 passVars>>

(***************************************************************************)
(* The worker of c: WorkerThread::main(), Queue::waitForMessage() and      *)
(* BusConnection::Worker::processEvent()                                   *)
(***************************************************************************)

(* (Variant: sem_wait() returns early and its result is ignored.) *)
WaitInterrupted(c) ==
  /\ work[c] = "waiting"
  /\ sem' = [sem EXCEPT ![c] = @ - 1]
  /\ work' = [work EXCEPT ![c] = "taking"]
  /\ UNCHANGED <<process, listener, newConn, clients, recv, request, subs,
                 event, frames, since, queue, sockVars, passVars>>

(* sem_wait() *)
WaitForMessage(c) ==
  /\ work[c] = "waiting" /\ sem[c] > 0
  /\ sem' = [sem EXCEPT ![c] = @ - 1]
  /\ work' = [work EXCEPT ![c] = "taking"]
  /\ UNCHANGED <<process, listener, newConn, clients, recv, request, subs,
                 event, frames, since, queue, sockVars, passVars>>

(* (Variant: the newest message is taken first.) *)
TakeNewest(c) ==
  /\ work[c] = "taking"
  /\ event' = [event EXCEPT ![c] = queue[c][Len(queue[c])]]
  /\ queue' = [queue EXCEPT ![c] = SubSeq(@, 1, Len(@) - 1)]
  /\ work' = [work EXCEPT ![c] = "sending"]
  /\ UNCHANGED <<process, listener, newConn, clients, recv, request, subs,
                 frames, since, sem, sockVars, passVars>>

TakeMessage(c) ==
  /\ work[c] = "taking"
  /\ event' = [event EXCEPT ![c] = Head(queue[c])]
  /\ queue' = [queue EXCEPT ![c] = Tail(@)]
  /\ work' = [work EXCEPT ![c] = "sending"]
  /\ UNCHANGED <<process, listener, newConn, clients, recv, request, subs,
                 frames, since, sem, sockVars, passVars>>

(* encode() parses the content, which nobody has looked at before: the     *)
(* exception ends the process.  write() blocks while the socket's buffer   *)
(* is full, and succeeds as well if the peer has closed its end and has    *)
(* not answered with a reset yet.  It fails, which send() logs, and the    *)
(* message is dropped, on a socket closed here and the first time after a  *)
(* reset that no read() or write() has reported; in the state "reset",     *)
(* SIGPIPE ends the process: nothing in it blocks or ignores the signal.   *)
SendMessage(c) ==
  LET done == /\ work' = [work EXCEPT ![c] = "waiting"]
              /\ event' = [event EXCEPT ![c] = 0]
  IN
  /\ work[c] = "sending"
  /\ \/ /\ ~log[event[c]].json
        /\ process' = "aborted"
        /\ UNCHANGED <<work, event, sockVars>>
     \/ /\ log[event[c]].json
        /\ recv[c] = "cleanup"
        /\ done
        /\ UNCHANGED <<process, sockVars>>
     \/ /\ log[event[c]].json
        /\ recv[c] # "cleanup" /\ peer[c] \in {"open", "closed"}
        /\ unread[c] < WireCap
        /\ sent' = IF peer[c] = "open" THEN [sent EXCEPT ![c] = Append(@, event[c])]
                                      ELSE sent
        /\ unread' = [unread EXCEPT ![c] = @ + 1]
        /\ done
        /\ UNCHANGED <<process, peer>>
     \/ /\ log[event[c]].json
        /\ recv[c] # "cleanup" /\ peer[c] = "refused"
        /\ peer' = [peer EXCEPT ![c] = "reset"]
        /\ done
        /\ UNCHANGED <<process, sent, unread>>
     \/ /\ log[event[c]].json
        /\ recv[c] # "cleanup" /\ peer[c] = "reset"
        /\ process' = "killed"
        /\ UNCHANGED <<work, event, sockVars>>
  /\ UNCHANGED <<listener, newConn, clients, recv, request, subs, frames, since,
                 queueVars, passVars>>

(***************************************************************************)
(* The client's end of the socket (not part of the repository's relay)     *)
(***************************************************************************)
ClientRead(c) ==
  /\ peer[c] = "open" /\ unread[c] > 0
  /\ unread' = [unread EXCEPT ![c] = @ - 1]
  /\ UNCHANGED <<process, listener, newConn, clients, recv, request, subs, work,
                 event, frames, since, peer, sent, queueVars, passVars>>

SetPeer(c, from, to) ==
  /\ peer[c] = from
  /\ peer' = [peer EXCEPT ![c] = to]
  /\ UNCHANGED <<process, listener, newConn, clients, recv, request, subs, work,
                 event, frames, since, sent, unread, queueVars, passVars>>

(* The client closes its socket.  If it leaves data unread, its system may *)
(* reset the connection at once; the error is still to be reported.        *)
ClientClose(c) ==
  /\ c \in Closers
  /\ SetPeer(c, "open", "closed") \/ (unread[c] > 0 /\ SetPeer(c, "open", "refused"))

(* What was written for a client that has closed is answered by a reset.   *)
ClientReset(c) == unread[c] > 0 /\ SetPeer(c, "closed", "reset")

Listen(c) == \/ Accept(c) \/ AcceptNoReceiver(c) \/ AcceptNoWorker(c)
             \/ Add(c) \/ Start(c)
ReceiverStep(c) ==
  \/ ReadEnd(c) \/ Count(c) \/ BeginBroadcast(c) \/ Enqueue(c)
  \/ EndBroadcast(c) \/ Cleanup(c)
  \/ \E d \in Conns : Visit(c, d)
WorkerStep(c) == WaitForMessage(c) \/ TakeMessage(c) \/ SendMessage(c)
Environment(c) == ClientRead(c) \/ ClientClose(c) \/ ClientReset(c)

Next ==
  /\ process = "up"
  /\ \/ AcceptFails
     \/ \E c \in Conns : Listen(c) \/ ReceiverStep(c) \/ WorkerStep(c)
                           \/ Environment(c) \/ \E f \in Frames : ReadFrame(c, f)

Spec == Init /\ [][Next]_vars

(***************************************************************************)
(* Fairness.  The kernel goes on scheduling every thread that can run.     *)
(* Nothing obliges a client to send, to close or, unless it is one of the  *)
(* Readers, to read.                                                       *)
(***************************************************************************)
RelayFairness ==
  \A c \in Conns :
    /\ WF_vars(process = "up" /\ Listen(c))
    /\ WF_vars(process = "up" /\ ReceiverStep(c))
    /\ WF_vars(process = "up" /\ WorkerStep(c))
    /\ c \in Readers => WF_vars(process = "up" /\ ClientRead(c))

FairSpec == Spec /\ RelayFairness

(***************************************************************************)
(* Properties                                                              *)
(***************************************************************************)
RecvState == {"none", "WaitingToStart", "FailedToStart", "reading", "counting",
              "broadcasting", "visiting", "queueing", "cleanup", "destroyed"}
WorkState == {"none", "waiting", "taking", "sending", "destroyed"}
PeerState == {"absent", "open"} \union Gone

TypeOK ==
  /\ process \in {"up", "exited", "aborted", "killed", "corrupted"}
  /\ listener \in {"accept", "add", "start"}
  /\ newConn \in Conns \union {NoConn}
  /\ peer \in [Conns -> PeerState]
  /\ clients \subseteq Conns
  /\ lock \in Conns \union {NoConn}
  /\ recv \in [Conns -> RecvState]
  /\ request \in [Conns -> PublishFrame \union {NoRequest}]
  /\ todo \subseteq Conns
  /\ target \in Conns \union {NoConn}
  /\ subs \in [Conns -> SUBSET Classes]
  /\ queue \in [Conns -> Seq(Nat)]
  /\ sem \in [Conns -> Nat]
  /\ work \in [Conns -> WorkState]
  /\ event \in [Conns -> Nat]
  /\ sent \in [Conns -> Seq(Nat)]
  /\ unread \in [Conns -> Nat]
  /\ frames \in [Conns -> Nat]
  /\ log \in Seq(Entry)
  /\ since \in [Conns -> Nat]

(* What c's worker has written, is writing and will write, in order. *)
Event(c) == IF event[c] = 0 THEN <<>> ELSE <<event[c]>>
Stream(c) == sent[c] \o Event(c) \o queue[c]
InStream(c) == {Stream(c)[i] : i \in 1..Len(Stream(c))}

(* A broadcast walks the registry through plain references: whatever it    *)
(* has still to visit, and the connection whose queue it is about to       *)
(* touch, must not be destroyed before it is done, although the receivers  *)
(* destroy connections at any time.                                        *)
BroadcastTouchesLive ==
  /\ todo \subseteq clients
  /\ target # NoConn => target \in todo
  /\ \A c \in clients : recv[c] # "destroyed" /\ work[c] # "destroyed"

(* enableProcessing() is called through the reference add() returned,      *)
(* after the registry's lock was released: the connection must not have    *)
(* been destroyed by then, and its receiver must not have started before.  *)
StartTouchesLive ==
  listener = "start" => newConn \in clients /\ recv[newConn] = "WaitingToStart"

(* The semaphore, which the worker decrements outside of the queue's lock, *)
(* and the list, which it shortens later, never disagree by more than the  *)
(* message the worker is about to take, so _queue[0] exists.               *)
SemaphoreMatchesQueue ==
  \A c \in Conns :
    sem[c] + (IF work[c] = "taking" THEN 1 ELSE 0) = Len(queue[c])

(* All connections see the messages they get in one and the same order,    *)
(* each at most once, whatever the broadcasting receivers and the workers  *)
(* do: every stream is strictly increasing in the rank.                    *)
TotalOrder ==
  \A c \in Conns : \A i, j \in 1..Len(Stream(c)) :
    i < j => Stream(c)[i] < Stream(c)[j]

(* A client that goes away does not end the relay: send() reports a failed *)
(* write in the log and returns.                                           *)
SurvivesClients == process # "killed"

(* The messages of one publisher are broadcast in the order its client     *)
(* sent them, none twice.                                                  *)
PublisherOrder ==
  \A i, j \in 1..Len(log) :
    i < j /\ log[i].from = log[j].from => log[i].n < log[j].n

(* A connected client gets exactly the messages of the classes it is       *)
(* subscribed to, of all whose broadcast began after the subscription was  *)
(* set: none is lost, none is extra, up to the broadcast under way that    *)
(* has not come to it yet.                                                 *)
ExactDelivery ==
  \A c \in clients : peer[c] = "open" =>
    \A r \in since[c] + 1 .. Len(log) :
      \/ r = Len(log) /\ c \in todo
      \/ r \in InStream(c) <=> log[r].class \in subs[c]

(***************************************************************************)
(* The inductive invariant behind the safety properties                    *)
(***************************************************************************)

(* The lock's holder is the one receiver inside a broadcast, and the loop  *)
(* variables are its own.                                                  *)
LockInv ==
  /\ \A c \in Conns : recv[c] \in {"visiting", "queueing"} <=> lock = c
  /\ lock = NoConn => todo = {} /\ target = NoConn
  /\ lock # NoConn => /\ Len(log) > 0
                      /\ target # NoConn <=> recv[lock] = "queueing"
  /\ target # NoConn => target \in todo
  /\ todo \subseteq clients

(* What is registered is alive; what is not registered is not yet, or no   *)
(* longer, at work, and the listener alone holds what is not yet there.    *)
RegistryInv ==
  /\ \A c \in clients : /\ recv[c] \notin {"none", "FailedToStart", "destroyed"}
                        /\ work[c] \in {"waiting", "taking", "sending"}
  /\ \A c \in Conns \ clients :
       /\ recv[c] \in {"none", "WaitingToStart", "FailedToStart", "destroyed"}
       /\ recv[c] = "WaitingToStart"
            => listener = "add" /\ newConn = c /\ work[c] = "waiting"
       /\ work[c] \in {"none", "waiting", "destroyed"}
       /\ recv[c] = "none" => work[c] = "none"
       /\ queue[c] = <<>>
  /\ \A c \in Conns : /\ peer[c] = "absent" <=> recv[c] = "none"
                      /\ recv[c] = "WaitingToStart" => newConn = c
  /\ listener = "add" => /\ newConn \in Conns \ clients
                         /\ recv[newConn] = "WaitingToStart"
  /\ listener = "accept" <=> newConn = NoConn
  /\ StartTouchesLive

(* The worker has an event exactly while it processes it; semaphore and    *)
(* list agree; a receiver on its way to broadcast has what to broadcast.   *)
ThreadInv ==
  /\ SemaphoreMatchesQueue
  /\ \A c \in Conns :
       /\ work[c] = "sending" <=> event[c] # 0
       /\ recv[c] \in {"counting", "broadcasting"}
            => request[c] \in PublishFrame

(* Every part of a stream is increasing and before the next part, and all  *)
(* of it before the broadcast under way that has yet to come to it.        *)
Increasing(s) == \A i, j \in 1..Len(s) : i < j => s[i] < s[j]
AtMost(s, n) == \A i \in 1..Len(s) : s[i] <= n
Ordered(s, e, q, last) ==
  /\ Increasing(s) /\ Increasing(q)
  /\ AtMost(s, last) /\ AtMost(q, last) /\ e <= last
  /\ \A i \in 1..Len(s) : e # 0 => s[i] < e
  /\ \A i \in 1..Len(s), j \in 1..Len(q) : s[i] < q[j]
  /\ \A j \in 1..Len(q) : e < q[j]
Reached(c) == IF c \in todo THEN Len(log) - 1 ELSE Len(log)
OrderInv == \A c \in Conns : Ordered(sent[c], event[c], queue[c], Reached(c))

(* A publisher's messages in the log are older than the one its receiver   *)
(* is about to broadcast.                                                  *)
PublisherInv ==
  /\ PublisherOrder
  /\ \A i \in 1..Len(log) : log[i].n <= frames[log[i].from]
  /\ \A c \in Conns : recv[c] \in {"counting", "broadcasting"} =>
       \A i \in 1..Len(log) : log[i].from = c => log[i].n < frames[c]

(* Between the visit and the queueing, the subscription that was seen may  *)
(* only have been replaced by a newer one.                                 *)
DeliveryInv ==
  /\ ExactDelivery
  /\ \A c \in Conns : recv[c] = "cleanup" => peer[c] \in Gone
  /\ target # NoConn /\ since[target] < Len(log)
       => log[Len(log)].class \in subs[target]

IInv == /\ TypeOK /\ LockInv /\ RegistryInv /\ ThreadInv
        /\ OrderInv /\ PublisherInv /\ DeliveryInv

(* What is queued for a client that stays and reads is written to its      *)
(* stream, even though other clients may never read theirs.                *)
Ranks == 1 .. MaxFrames * Cardinality(Conns)
QueuedIsSent ==
  \A c \in Readers, r \in Ranks :
    r \in InStream(c) ~> \/ \E i \in 1..Len(sent[c]) : sent[c][i] = r
                        \/ peer[c] # "open"
                        \/ process # "up"

(* A receiver that got a message to broadcast comes back to reading its    *)
(* socket: no circle of locks, and no slow client, holds it up.            *)
BroadcastEnds ==
  \A c \in Conns :
    recv[c] \in {"counting", "broadcasting", "visiting", "queueing"}
      ~> recv[c] = "reading" \/ process # "up"

(* A connection whose client is gone is eventually taken out of the        *)
(* registry and destroyed, whatever is still in its queue.                 *)
ClosedIsDestroyed ==
  \A c \in Conns :
    peer[c] \in Gone
      ~> recv[c] \in {"FailedToStart", "destroyed"} \/ process # "up"

(***************************************************************************)
(* The relay implements the bus.  The broadcast's visit of a connection,   *)
(* not the queueing that follows it, is where the bus decides: from there  *)
(* on the message is in the connection's outgoing stream.                  *)
(***************************************************************************)
PendingFor(c) == IF target = c THEN <<Len(log)>> ELSE <<>>
BusOut == [c \in Conns |-> Event(c) \o queue[c] \o PendingFor(c)]
BusCursor == [c \in Conns |-> IF c \notin clients THEN 0
                              ELSE IF c \in todo /\ c # target
                                   THEN Len(log) - 1 ELSE Len(log)]
BusGone == {c \in Conns : peer[c] \in Gone}

Bus == INSTANCE BusService WITH
         Message <- Entry, member <- clients, gone <- BusGone,
         interest <- subs, cursor <- BusCursor, out <- BusOut, got <- sent

(* The relay keeps the promise of the abstract bus: every step of it is a  *)
(* step of BusService, or changes nothing the bus's clients can see.       *)
ImplementsBus == Bus!BusSpec
=============================================================================
