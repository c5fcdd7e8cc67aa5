----------------------------- MODULE BusClient -----------------------------
(***************************************************************************)
(* A program's client of the message bus (MessageBusClient on top of       *)
(* ReconnectingClient): one thread of the program changes its              *)
(* subscriptions and broadcasts, and the receiver thread reads messages,   *)
(* notices when the connection is lost, opens the next one and tells the   *)
(* relay the subscriptions again.  Both threads write to the socket, and   *)
(* nothing keeps them apart.                                               *)
(*                                                                         *)
(* A frame travels as two parts, so that it can be written, or arrive, in  *)
(* two pieces.  The relay's view of the subscriptions is what it finds in  *)
(* the whole frames of the current connection.                             *)
(***************************************************************************)
EXTENDS Naturals, Sequences, FiniteSets

CONSTANTS Classes,        \* message classes
          MaxCalls,       \* bound: calls the program makes
          MaxBreaks,      \* bound: connections that are lost
          MaxMessages,    \* bound: messages the relay sends to this client
          ResourcesFail   \* whether pthread_create() may fail

ASSUME BusClientAssumption ==
  /\ MaxCalls \in Nat /\ MaxBreaks \in Nat /\ MaxMessages \in Nat
  /\ ResourcesFail \in BOOLEAN

VARIABLES
  process,        \* "up", or how the client's process ended
  subscriptions,  \* MessageBusClient::subscriptions
  fd,             \* "open", or "closed" (_fd is -1)
  peer,           \* the connection's other end: "open" or "broken"
  step,           \* the program's thread: "idle", "modify" or "send"
  call,           \* the call it is in, or NoCall
  recv,           \* the receiver thread's step
  out,            \* out[t]: the frame thread t is sending, or NoFrame
  half,           \* half[t]: its first part is already written
  up,             \* the parts written to the current connection
  down,           \* the parts on their way to the client
  buffer,         \* StreamParser::buffer
  handed,         \* history: what the parser handed to onReceive()
  sends,          \* how many messages the relay has sent
  calls, breaks,  \* how many calls were made, connections lost
  overlap,        \* history: a call overlapped this connection's resending
  torn            \* history: a connection was lost within a frame

vars == <<process, subscriptions, fd, peer, step, call, recv, out, half, up,
          down, buffer, handed, sends, calls, breaks, overlap, torn>>
appVars == <<step, call, calls>>
wireVars == <<fd, peer, down, sends, breaks>>
parseVars == <<buffer, handed, torn>>

Threads == {"caller", "receiver"}
Call == [op : {"subscribe", "unsubscribe"}, class : Classes]
        \union [op : {"setSubscriptions"}, classes : SUBSET Classes]
        \union [op : {"broadcast"}]
NoCall == [op |-> "none"]
Frame == [kind : {"setSubscriptions"}, classes : SUBSET Classes]
         \union [kind : {"publish"}]
NoFrame == [kind |-> "none"]
Update(S) == [kind |-> "setSubscriptions", classes |-> S]
Part(x, i) == [of |-> x, part |-> i]
Parts(x) == <<Part(x, 1), Part(x, 2)>>

(* The constructor: the first connection is made or not, and the receiver  *)
(* is started.  Its call of onReconnect() is not MessageBusClient's.       *)
Init ==
  /\ process = "up" /\ subscriptions = {}
  /\ \/ fd = "open" /\ peer = "open"
     \/ fd = "closed" /\ peer = "broken"
  /\ step = "idle" /\ call = NoCall
  /\ recv = "receiving"
  /\ out = [t \in Threads |-> NoFrame] /\ half = [t \in Threads |-> FALSE]
  /\ up = <<>> /\ down = <<>> /\ buffer = <<>> /\ handed = <<>>
  /\ sends = 0 /\ calls = 0 /\ breaks = 0
  /\ overlap = FALSE /\ torn = FALSE

(***************************************************************************)
(* Socket::send() by thread t                                              *)
(***************************************************************************)

(* (Variant: the retry starts from the beginning.) *)
SendAgain(t) == Parts(out[t])

(* The frame's remaining parts. *)
Left(t) == IF half[t] THEN <<Part(out[t], 2)>> ELSE Parts(out[t])

Done(t) == /\ out' = [out EXCEPT ![t] = NoFrame]
           /\ half' = [half EXCEPT ![t] = FALSE]

(* write() takes what is left or a part of it, and then send() calls       *)
(* itself with the rest.  On a closed descriptor the error is logged; what *)
(* is written to a broken connection is lost, and once the break was       *)
(* reported SIGPIPE ends the process.  finished: send() returns.           *)
Write(t, finished) ==
  /\ out[t] # NoFrame
  /\ \/ /\ fd = "open" /\ peer = "open" /\ finished
        /\ up' = up \o Left(t)
        /\ Done(t)
        /\ process' = process
     \/ /\ fd = "open" /\ peer = "open" /\ ~finished /\ ~half[t]
        /\ up' = Append(up, Part(out[t], 1))
        /\ half' = [half EXCEPT ![t] = TRUE]
        /\ UNCHANGED <<process, out>>
     \/ /\ finished /\ (fd = "closed" \/ peer = "broken")
        /\ up' = up
        /\ Done(t)
        /\ process' \in IF fd = "open" THEN {"up", "killed"} ELSE {"up"}

(***************************************************************************)
(* The program's thread                                                    *)
(***************************************************************************)

(* The subscriptions after the call c. *)
After(c) ==
  CASE c.op = "subscribe" -> subscriptions \union {c.class}
    [] c.op = "unsubscribe" -> subscriptions \ {c.class}
    [] c.op = "setSubscriptions" -> c.classes
    [] OTHER -> subscriptions

Busy(s) == s # "idle"
Resending == recv \in {"resend", "sending", "restart"}

(* subscribe(), unsubscribe() and setSubscriptions() return early when     *)
(* nothing changes; subscribe() and unsubscribe() change the list first    *)
(* and send it then, setSubscriptions() the other way round.               *)
Begin(c) ==
  /\ step = "idle" /\ calls < MaxCalls
  /\ calls' = calls + 1
  /\ IF c.op # "broadcast" /\ After(c) = subscriptions
     THEN UNCHANGED <<step, call, out, overlap>>
     ELSE /\ call' = c
          /\ overlap' = (overlap \/ Resending)
          /\ IF c.op \in {"subscribe", "unsubscribe"}
             THEN step' = "modify" /\ UNCHANGED out
             ELSE /\ step' = "send"
                  /\ out' = [out EXCEPT !["caller"] =
                               IF c.op = "broadcast" THEN [kind |-> "publish"]
                               ELSE Update(c.classes)]
  /\ UNCHANGED <<process, subscriptions, recv, half, up, wireVars, parseVars>>

Modify ==
  /\ step = "modify"
  /\ subscriptions' = After(call)
  /\ IF call.op = "setSubscriptions"
     THEN step' = "idle" /\ call' = NoCall /\ UNCHANGED out
     ELSE /\ step' = "send" /\ UNCHANGED call
          /\ out' = [out EXCEPT !["caller"] = Update(After(call))]
  /\ UNCHANGED <<process, recv, half, up, calls, overlap, wireVars, parseVars>>

CallerSend(finished) ==
  /\ step = "send"
  /\ Write("caller", finished)
  /\ step' = IF ~finished THEN "send"
             ELSE IF call.op = "setSubscriptions" THEN "modify" ELSE "idle"
  /\ call' = IF step' = "idle" THEN NoCall ELSE call
  /\ UNCHANGED <<subscriptions, recv, calls, overlap, wireVars, parseVars>>

(***************************************************************************)
(* The receiver thread                                                     *)
(***************************************************************************)

(* What getReceivedMessageSize() makes of a header: the frame's two parts. *)
WithoutHeader == 1
FrameSize == 2

(* processPacket() hands over frames while the buffer starts with one that *)
(* is complete.                                                            *)
Complete(b) ==
  LET Leads(k) == \A i \in 0..k-1 : b[FrameSize * i + 1].part = 1
  IN  CHOOSE k \in 0..Len(b) \div FrameSize :
        /\ Leads(k)
        /\ \A j \in 0..Len(b) \div FrameSize : Leads(j) => j <= k
FrameAt(b, i) == SubSeq(b, FrameSize * (i - 1) + 1, FrameSize * i)

(* read() returns n parts.  What a lost connection left in the buffer is   *)
(* still there.  A size read from the middle of a frame is any number: too *)
(* large, and the exception ends the process, or more than there is.       *)
Receive(n) ==
  LET b == buffer \o SubSeq(down, 1, n)
      k == Complete(b)
      rest == SubSeq(b, FrameSize * k + 1, Len(b))
  IN
  /\ recv = "receiving" /\ fd = "open" /\ n \in 1..Len(down)
  /\ down' = SubSeq(down, n + 1, Len(down))
  /\ handed' = handed \o [i \in 1..k |-> FrameAt(b, i)]
  /\ buffer' = rest
  /\ process' \in IF rest # <<>> /\ rest[1].part # 1 THEN {"up", "aborted"}
                  ELSE {"up"}
  /\ UNCHANGED <<subscriptions, fd, peer, recv, out, half, up, sends, breaks,
                 overlap, torn, appVars>>

(* read() returns 0 or an error: the socket is closed, and the thread goes *)
(* on to cleanup().                                                        *)
ReceiveEnd ==
  /\ recv = "receiving" /\ peer = "broken" /\ down = <<>>
  /\ fd' = "closed"
  /\ recv' = "connecting"
  /\ torn' = (torn \/ buffer # <<>>)
  /\ UNCHANGED <<process, subscriptions, peer, out, half, up, down, buffer,
                 handed, sends, breaks, overlap, appVars>>

(* (Variant: one attempt is made instead of a loop of them.) *)
ConnectOnce ==
  /\ recv = "connecting"
  /\ recv' = "stopped"
  /\ UNCHANGED <<process, subscriptions, fd, peer, out, half, up, down, buffer,
                 handed, sends, breaks, overlap, torn, appVars>>

(* openConnection() succeeds; before, it was repeated every second. *)
Connect ==
  /\ recv = "connecting"
  /\ fd' = "open" /\ peer' = "open"
  /\ up' = <<>> /\ down' = <<>>
  /\ recv' = "resend"
  /\ overlap' = Busy(step)
  /\ UNCHANGED <<process, subscriptions, out, half, sends, breaks, appVars,
                 parseVars>>

(* What onReconnect() tells the relay. *)
Nothing == {}
Resent == subscriptions

(* onReconnect() copies the subscriptions; while the program changes them, *)
(* this is a data race.                                                    *)
OnReconnect ==
  /\ recv = "resend"
  /\ \E S \in {Resent, IF step = "modify" THEN After(call) ELSE Resent} :
       out' = [out EXCEPT !["receiver"] = Update(S)]
  /\ process' \in IF step = "modify" THEN {"up", "corrupted"} ELSE {"up"}
  /\ recv' = "sending"
  /\ UNCHANGED <<subscriptions, half, up, overlap, appVars, wireVars, parseVars>>

ReceiverSend(finished) ==
  /\ recv = "sending"
  /\ Write("receiver", finished)
  /\ recv' = IF finished THEN "restart" ELSE "sending"
  /\ UNCHANGED <<subscriptions, overlap, appVars, wireVars, parseVars>>

(* The thread replaces itself by a new one; when that cannot be created,   *)
(* the exception ends the process.                                         *)
Restart ==
  /\ recv = "restart"
  /\ recv' = "receiving"
  /\ process' \in IF ResourcesFail THEN {"up", "aborted"} ELSE {"up"}
  /\ UNCHANGED <<subscriptions, out, half, up, overlap, appVars, wireVars,
                 parseVars>>

(***************************************************************************)
(* The relay and the network                                               *)
(***************************************************************************)

(* What the relay knows: the last whole update among the parts s. *)
Updates(s) == {i \in 1..Len(s)-1 : /\ s[i].of.kind = "setSubscriptions"
                                   /\ s[i].part = 1
                                   /\ s[i+1] = Part(s[i].of, 2)}
View(s) == IF Updates(s) = {} THEN {}
           ELSE LET last == CHOOSE i \in Updates(s) : \A j \in Updates(s) : j <= i
                IN  s[last].of.classes

RelaySend ==
  /\ fd = "open" /\ peer = "open" /\ View(up) # {} /\ sends < MaxMessages
  /\ sends' = sends + 1
  /\ down' = down \o Parts(sends')
  /\ UNCHANGED <<process, subscriptions, fd, peer, recv, out, half, up, breaks,
                 overlap, appVars, parseVars>>

(* The connection is lost; k parts still reach the client. *)
Break(k) ==
  /\ fd = "open" /\ peer = "open" /\ breaks < MaxBreaks /\ k \in 0..Len(down)
  /\ peer' = "broken"
  /\ down' = SubSeq(down, 1, k)
  /\ breaks' = breaks + 1
  /\ UNCHANGED <<process, subscriptions, fd, recv, out, half, up, sends,
                 overlap, appVars, parseVars>>

ReceiverStep ==
  \/ \E n \in 1..Len(down) : Receive(n)
  \/ ReceiveEnd \/ Connect \/ OnReconnect \/ Restart
  \/ \E finished \in BOOLEAN : ReceiverSend(finished)
CallerStep == Modify \/ \E finished \in BOOLEAN : CallerSend(finished)

Next ==
  /\ process = "up"
  /\ \/ \E c \in Call : Begin(c)
     \/ CallerStep \/ ReceiverStep
     \/ RelaySend \/ \E k \in 0..Len(down) : Break(k)

(* The receiver thread keeps running, and the relay can be reached again   *)
(* at some time; the program need not make its calls.                      *)
Spec == Init /\ [][Next]_vars
FairSpec == Spec /\ WF_vars(process = "up" /\ ReceiverStep)

(***************************************************************************)
(* Properties                                                              *)
(***************************************************************************)
TypeOK ==
  /\ process \in {"up", "killed", "aborted", "corrupted"}
  /\ subscriptions \subseteq Classes
  /\ fd \in {"open", "closed"} /\ peer \in {"open", "broken"}
  /\ step \in {"idle", "modify", "send"} /\ call \in Call \union {NoCall}
  /\ recv \in {"receiving", "connecting", "resend", "sending", "restart"}
  /\ out \in [Threads -> Frame \union {NoFrame}]
  /\ half \in [Threads -> BOOLEAN]
  /\ \A i \in 1..Len(up) : up[i].of \in Frame /\ up[i].part \in {1, 2}
  /\ sends \in 0..MaxMessages /\ calls \in 0..MaxCalls /\ breaks \in 0..MaxBreaks
  /\ \A i \in 1..Len(buffer) : buffer[i].of \in 1..sends
  /\ \A i \in 1..Len(down) : down[i].of \in 1..sends
  /\ overlap \in BOOLEAN /\ torn \in BOOLEAN

(* Nobody is in the middle of anything on a connection that works. *)
Quiet == /\ process = "up" /\ fd = "open" /\ peer = "open"
         /\ step = "idle" /\ recv = "receiving"

(* "Reconnected to bus, re-sending subscription info...": whenever both    *)
(* threads are done, the relay knows the program's subscriptions.          *)
Resubscribed == Quiet => View(up) = subscriptions

(* This holds on every connection whose re-sending no call overlapped,     *)
(* however many connections and updates were lost before.                  *)
ResubscribedUnlessOverlapped == Quiet /\ ~overlap => View(up) = subscriptions

(* Then also nothing but whole frames, one after the other, was written:   *)
(* no short write of one thread is torn apart by the other's.              *)
WholeFramesUnlessOverlapped ==
  Quiet /\ ~overlap =>
    /\ Len(up) % 2 = 0
    /\ \A i \in 1..Len(up) \div 2 :
         up[2 * i - 1].part = 1 /\ up[2 * i] = Part(up[2 * i - 1].of, 2)

(* The messages handed to onReceive() are those the relay sent, whole, in  *)
(* order and each once, however read() cuts the stream, as long as no      *)
(* connection is lost within a frame.                                      *)
IntactUnlessTorn ==
  ~torn => /\ \A i \in 1..Len(handed) : handed[i] = Parts(handed[i][1].of)
           /\ \A i, j \in 1..Len(handed) :
                i < j => handed[i][1].of < handed[j][1].of

(* A lost connection is replaced, the subscriptions are told to the relay  *)
(* and messages are read again.                                            *)
Reconnects == recv # "receiving" ~> recv = "receiving" \/ process # "up"
=============================================================================
