----------------------------- MODULE RpcSharing -----------------------------
(***************************************************************************)
(* One RPCConnection that several threads call: the poller asks for        *)
(* templates while the receivers of miners submit blocks.  There is no     *)
(* lock: the pointer to the socket is read and replaced by whoever calls,  *)
(* and the answer is whatever the socket has received when it is closed;   *)
(* its id is not compared with the request's.  HTTP/1.0: the node answers  *)
(* the first request on a connection and closes it.                        *)
(***************************************************************************)
EXTENDS Integers, Sequences

CONSTANTS
  Callers,       \* the threads
  MaxRequests    \* bound: the requests of all threads together

ASSUME MaxRequestsAssumption == MaxRequests \in Nat

Sockets == 1..(MaxRequests + 1)

NoSocket == 0

VARIABLES
  socket,        \* RPCConnection::_socket, a socket or none
  link,          \* of each socket: "new", "open", "ended" by the node,
                 \* "closed" here, and "freed"
  request,       \* the request the node reads on a socket: its caller, or none
  unread,        \* whether the answer has been sent and not been read
  response,      \* RPCSocket::response: the caller that is answered, or none
  at,            \* where each caller is
  using,         \* the socket each caller uses
  result,        \* what sendAndReceive() has returned: whose answer, or none
  overlapped,    \* the callers with whose request another one overlaps
  touchedFreed,  \* the callers that have used a socket after its destruction
  requests       \* how many there have been

rpcVars == <<socket, link, request, unread, response, at, using, result,
             overlapped, touchedFreed, requests>>

Nobody == "nobody"

RpcInit ==
  /\ socket = 1
  /\ \E made \in {"open", "closed"} :
       link = [s \in Sockets |-> IF s = 1 THEN made ELSE "new"]
  /\ request = [s \in Sockets |-> Nobody]
  /\ unread = [s \in Sockets |-> FALSE]
  /\ response = [s \in Sockets |-> Nobody]
  /\ at = [c \in Callers |-> "idle"]
  /\ using = [c \in Callers |-> NoSocket]
  /\ result = [c \in Callers |-> Nobody]
  /\ overlapped = {}
  /\ touchedFreed = {}
  /\ requests = 0

Connected(s) == s # NoSocket /\ link[s] \in {"open", "ended"}

Busy == {c \in Callers : at[c] # "idle"}

(* connectIfNotConnected() finds a socket, or has to open one. *)
BeginRequest(c) ==
  /\ at[c] = "idle" /\ requests < MaxRequests
  /\ requests' = requests + 1
  /\ result' = [result EXCEPT ![c] = Nobody]
  /\ overlapped' = IF Busy = {} THEN overlapped \ {c} ELSE overlapped \cup Busy \cup {c}
  /\ at' = [at EXCEPT ![c] = IF Connected(socket) THEN "send" ELSE "open"]
  /\ touchedFreed' = touchedFreed \ {c}
  /\ UNCHANGED <<socket, link, request, unread, response, using>>

(* The new socket replaces the old one, which is destroyed; a connection
   that cannot be made is a socket that is not connected. *)
OpenSocket(c, made) ==
  LET s == CHOOSE n \in Sockets : link[n] = "new" /\ \A k \in 1..(n - 1) : link[k] # "new"
  IN  /\ at[c] = "open"
      /\ \E n \in Sockets : link[n] = "new"
      /\ socket' = s
      /\ link' = [n \in Sockets |-> IF n = s THEN (IF made THEN "open" ELSE "closed")
                                     ELSE IF n = socket THEN "freed" ELSE link[n]]
      /\ at' = [at EXCEPT ![c] = IF made THEN "send" ELSE "idle"]
      /\ UNCHANGED <<request, unread, response, using, result, overlapped,
                     touchedFreed, requests>>

(* (Variant: a caller keeps the pointer of its first request.) *)
SendOnFirstSocket(c) ==
  LET s == IF using[c] = NoSocket THEN socket ELSE using[c]
  IN  /\ at[c] = "send"
      /\ using' = [using EXCEPT ![c] = s]
      /\ response' = [response EXCEPT ![s] = Nobody]
      /\ request' = IF link[s] = "open" THEN [request EXCEPT ![s] = c] ELSE request
      /\ at' = [at EXCEPT ![c] = "receive"]
      /\ UNCHANGED <<socket, link, unread, result, overlapped, touchedFreed, requests>>

(* RPCSocket::sendAndReceive(): the response is emptied, the request sent.
   What follows the first request on a connection is not read. *)
SendRequest(c) ==
  LET s == socket
  IN  /\ at[c] = "send"
      /\ using' = [using EXCEPT ![c] = s]
      /\ response' = [response EXCEPT ![s] = Nobody]
      /\ request' = IF link[s] = "open" /\ request[s] = Nobody
                    THEN [request EXCEPT ![s] = c] ELSE request
      /\ at' = [at EXCEPT ![c] = "receive"]
      /\ UNCHANGED <<socket, link, unread, result, overlapped, touchedFreed, requests>>

(* (External: the node answers and closes the connection, or just closes.) *)
NodeAnswers(s, answers) ==
  /\ link[s] = "open" /\ (request[s] # Nobody \/ ~ answers)
  /\ link' = [link EXCEPT ![s] = "ended"]
  /\ unread' = [unread EXCEPT ![s] = answers]
  /\ UNCHANGED <<socket, request, response, at, using, result, overlapped,
                 touchedFreed, requests>>

(* One turn of the loop: data, or the end of the stream. *)
ReceiveResponse(c) ==
  LET s == using[c]
  IN  /\ at[c] = "receive" /\ link[s] = "ended"
      /\ IF unread[s]
         THEN /\ response' = [response EXCEPT ![s] = request[s]]
              /\ unread' = [unread EXCEPT ![s] = FALSE]
              /\ UNCHANGED link
         ELSE /\ link' = [link EXCEPT ![s] = "closed"]
              /\ UNCHANGED <<response, unread>>
      /\ UNCHANGED <<socket, request, at, using, result, overlapped, touchedFreed,
                     requests>>

AnswerOf(c) == response[using[c]]

(* The loop has ended: the response is returned, whosever it is. *)
ReturnResponse(c) ==
  /\ at[c] = "receive" /\ link[using[c]] = "closed"
  /\ result' = [result EXCEPT ![c] = AnswerOf(c)]
  /\ at' = [at EXCEPT ![c] = "idle"]
  /\ UNCHANGED <<socket, link, request, unread, response, using, overlapped,
                 touchedFreed, requests>>

(* The socket a caller uses is gone: what it reads there is undefined. *)
UseFreed(c) ==
  /\ at[c] = "receive" /\ link[using[c]] = "freed"
  /\ touchedFreed' = touchedFreed \cup {c}
  /\ \E answer \in Callers \cup {Nobody} : result' = [result EXCEPT ![c] = answer]
  /\ at' = [at EXCEPT ![c] = "idle"]
  /\ UNCHANGED <<socket, link, request, unread, response, using, overlapped, requests>>

RpcNext ==
  \/ \E c \in Callers : \/ BeginRequest(c)
                        \/ \E made \in BOOLEAN : OpenSocket(c, made)
                        \/ SendRequest(c)
                        \/ ReceiveResponse(c)
                        \/ ReturnResponse(c)
                        \/ UseFreed(c)
  \/ \E s \in Sockets, answers \in BOOLEAN : NodeAnswers(s, answers)

-----------------------------------------------------------------------------
(***************************************************************************)
(* A caller gets the answer to its own request, or none, and no socket is  *)
(* used after its destruction, unless the requests of two threads overlap. *)
(***************************************************************************)
OwnAnswer ==
  \A c \in Callers :
    c \notin overlapped => result[c] \in {c, Nobody} /\ c \notin touchedFreed
=============================================================================
