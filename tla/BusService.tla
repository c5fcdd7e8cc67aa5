----------------------------- MODULE BusService -----------------------------
(***************************************************************************)
(* What the message bus promises to the programs connected to it, with no  *)
(* thread, lock, queue or socket: there is one order of all messages       *)
(* published, every member goes through that order once, from the moment   *)
(* it joins, and a message is put into the member's outgoing stream if and *)
(* only if the member is subscribed to its class at the instant the bus    *)
(* reaches that member.                                                    *)
(***************************************************************************)
EXTENDS Naturals, Sequences

CONSTANTS Conns,      \* the connections (each is used for one client only)
          Classes,    \* the classes of messages
          Message     \* the messages: records with a field "class"

VARIABLES member,     \* connections the bus distributes to
          gone,       \* connections whose client has closed its end
          log,        \* every message published, in the bus's order
          interest,   \* interest[c]: the classes c is subscribed to
          cursor,     \* cursor[c]: how much of log was decided for member c
          out,        \* out[c]: ranks (positions in log) to be delivered to c
          got         \* got[c]: ranks handed to c's byte stream, in order

busVars == <<member, gone, log, interest, cursor, out, got>>

BusInit ==
  /\ member = {}
  /\ gone = {}
  /\ log = <<>>
  /\ interest = [c \in Conns |-> {}]
  /\ cursor = [c \in Conns |-> 0]
  /\ out = [c \in Conns |-> <<>>]
  /\ got = [c \in Conns |-> <<>>]

(* A new member sees what is published from now on, nothing older. *)
Join(c) ==
  /\ c \notin member
  /\ member' = member \union {c}
  /\ cursor' = [cursor EXCEPT ![c] = Len(log)]
  /\ UNCHANGED <<gone, log, interest, out, got>>

(* A member leaves and what was still to be delivered to it is forgotten. *)
Leave(c) ==
  /\ c \in member
  /\ member' = member \ {c}
  /\ cursor' = [cursor EXCEPT ![c] = 0]
  /\ out' = [out EXCEPT ![c] = <<>>]
  /\ interest' = [interest EXCEPT ![c] = {}]
  /\ UNCHANGED <<gone, log, got>>

Close(c) ==
  /\ gone' = gone \union {c}
  /\ UNCHANGED <<member, log, interest, cursor, out, got>>

Subscribe(c, S) ==
  /\ c \in member
  /\ interest' = [interest EXCEPT ![c] = S]
  /\ UNCHANGED <<member, gone, log, cursor, out, got>>

Publish ==
  /\ Len(log') = Len(log) + 1
  /\ log' = Append(log, log'[Len(log')])
  /\ log'[Len(log')] \in Message
  /\ UNCHANGED <<member, gone, interest, cursor, out, got>>

(* The bus decides the next message of the order for member c. *)
Offer(c) ==
  /\ c \in member
  /\ cursor[c] < Len(log)
  /\ cursor' = [cursor EXCEPT ![c] = @ + 1]
  /\ out' = IF log[cursor[c] + 1].class \in interest[c]
            THEN [out EXCEPT ![c] = Append(@, cursor[c] + 1)]
            ELSE out
  /\ UNCHANGED <<member, gone, log, interest, got>>

Deliver(c) ==
  /\ out[c] # <<>>
  /\ out' = [out EXCEPT ![c] = Tail(@)]
  /\ got' = [got EXCEPT ![c] = Append(@, Head(out[c]))]
  /\ UNCHANGED <<member, gone, log, interest, cursor>>

(* A message may only be dropped when the client is not there any more. *)
Drop(c) ==
  /\ c \in gone
  /\ out[c] # <<>>
  /\ out' = [out EXCEPT ![c] = Tail(@)]
  /\ UNCHANGED <<member, gone, log, interest, cursor, got>>

BusNext ==
  \/ \E c \in Conns : \/ Join(c) \/ Leave(c) \/ Close(c)
                      \/ Offer(c) \/ Deliver(c) \/ Drop(c)
  \/ \E c \in Conns, S \in SUBSET Classes : Subscribe(c, S)
  \/ Publish

BusSpec == BusInit /\ [][BusNext]_busVars
=============================================================================
