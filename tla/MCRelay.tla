------------------------------ MODULE MCRelay ------------------------------
(* Small instances of Relay for TLC. *)
EXTENDS Relay, TLC

Pub(k) == [kind |-> "publish", class |-> k, json |-> TRUE]
Sub(S) == [kind |-> "setSubscriptions", classes |-> S]

(* Well formed traffic: messages of every class, every subscription set. *)
GoodFrames == {Pub(k) : k \in Classes} \union {Sub(S) : S \in SUBSET Classes}

(* Clients that never unsubscribe, and send what the relay refuses, too:   *)
(* content that is no JSON, "__meta__" messages and frames it cannot read. *)
StayingFrames ==
  {[Pub(k) EXCEPT !.json = j] : k \in Classes, j \in BOOLEAN} \union {Sub(Classes)}
    \union [kind : {"unsupported", "undecodable"}]

ConnSymmetry == Permutations(Conns)
=============================================================================
