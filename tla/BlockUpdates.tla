---------------------------- MODULE BlockUpdates ----------------------------
(***************************************************************************)
(* The pool daemon's view of the chain.  BlockTemplatePoller asks once a   *)
(* second for a block template, through DaemonConnector and its            *)
(* RPCConnection, and decides from the template's height and previous      *)
(* block whether the stratum server gets new work.  Behind the address it  *)
(* asks there may be several nodes; each answer is one node's.             *)
(*                                                                         *)
(* A template is represented by the block to be extended; its height is    *)
(* one more than that block's.                                             *)
(***************************************************************************)
EXTENDS Naturals

CONSTANTS Nodes,    \* the full nodes that may answer a request
          Blocks,   \* the blocks that are mined in the course of a behaviour
          NoBlock,  \* the hash zero, or the parent of the first block
          Parent,   \* Parent[b]: the block that b extends
          Height    \* Height[b]: its height

ASSUME BlockAssumption ==
  /\ NoBlock \notin Blocks
  /\ Parent \in [Blocks -> Blocks \union {NoBlock}]
  /\ Height \in [Blocks -> Nat]
  /\ \A b \in Blocks : Parent[b] # NoBlock => Height[b] = Height[Parent[b]] + 1

VARIABLES
  process,       \* "up", or how the daemon ended
  main,          \* the main thread: "starting" or "serving"
  socket,        \* RPCConnection::_socket: "open" or "closed"
  work,          \* the block the stratum server's work extends, or NoBlock
  lastHeight,    \* BlockTemplatePoller's variables; a hash is the block's
  lastPrevBlock,
  lastPrevPrevBlock,
  previous,      \* history: the poller's previous block
  tip            \* tip[n]: the block node n would extend

vars == <<process, main, socket, work, lastHeight, lastPrevBlock,
          lastPrevPrevBlock, previous, tip>>
pollerVars == <<lastHeight, lastPrevBlock, lastPrevPrevBlock, previous>>

(* RPCConnection's constructor connects, or fails to without a complaint. *)
Init ==
  /\ process = "up" /\ main = "starting"
  /\ socket \in {"open", "closed"}
  /\ work = NoBlock
  /\ lastHeight = 0
  /\ lastPrevBlock = NoBlock /\ lastPrevPrevBlock = NoBlock
  /\ previous = NoBlock
  /\ tip \in [Nodes -> Blocks]

TemplateHeight(b) == Height[b] + 1

(* sendAndReceive(): a connection is opened if there is none; the node     *)
(* closes it after its answer.                                             *)
Answered == socket' = "closed"

(* No connection, no answer, or one that does not parse or has no result:  *)
(* the main thread reports a runtime_error and returns, any other          *)
(* exception, and each one in the poller's thread, ends the process.       *)
RequestFails ==
  /\ process' \in IF main = "starting" THEN {"exited", "aborted"}
                  ELSE {"aborted"}
  /\ socket' \in {"open", "closed"}
  /\ UNCHANGED <<main, work, tip, pollerVars>>

(* (Variant: the server is started without work.) *)
StartIdle(n) ==
  /\ main = "starting"
  /\ Answered
  /\ main' = "serving"
  /\ UNCHANGED <<process, work, tip, pollerVars>>

(* StratumServer's constructor takes the first work itself; then the       *)
(* poller is started, which knows nothing of it.                           *)
Start(n) ==
  /\ main = "starting"
  /\ Answered
  /\ work' = tip[n]
  /\ main' = "serving"
  /\ UNCHANGED <<process, tip, pollerVars>>

(* (Variant: a template is news if it is for the next height.) *)
IsNext(b) == TemplateHeight(b) = lastHeight + 1

(* Another height is news, unless the node is one behind. *)
LaggingBehind(b) == /\ TemplateHeight(b) + 1 = lastHeight
                    /\ lastPrevPrevBlock = b
IsNews(b) == TemplateHeight(b) # lastHeight /\ ~LaggingBehind(b)

(* (Variant: the block before the last is not remembered.) *)
NoPrevPrev(b) == NoBlock
PrevPrev(b) == IF lastHeight + 1 = TemplateHeight(b) THEN lastPrevBlock
                                                      ELSE NoBlock

Update(b) ==
  /\ lastPrevPrevBlock' = PrevPrev(b)
  /\ lastHeight' = TemplateHeight(b)
  /\ lastPrevBlock' = b
  /\ work' = b
  /\ previous' = lastPrevBlock

Poll(n) ==
  /\ main = "serving"
  /\ Answered
  /\ IF IsNews(tip[n]) THEN Update(tip[n]) ELSE UNCHANGED <<work, pollerVars>>
  /\ UNCHANGED <<process, main, tip>>

(* A node moves to a longer chain only. *)
Advance(n, b) ==
  /\ Height[b] > Height[tip[n]]
  /\ tip' = [tip EXCEPT ![n] = b]
  /\ UNCHANGED <<process, main, socket, work, pollerVars>>

Next ==
  /\ process = "up"
  /\ \/ RequestFails
     \/ \E n \in Nodes : Start(n) \/ Poll(n) \/ \E b \in Blocks : Advance(n, b)

Spec == Init /\ [][Next]_vars

(* The poller polls for ever, and no node behind the address is left out   *)
(* of the answers for ever.                                                *)
FairSpec ==
  Spec /\ \A n \in Nodes : WF_vars(process = "up" /\ (Start(n) \/ Poll(n)))

(***************************************************************************)
(* Properties                                                              *)
(***************************************************************************)
TypeOK ==
  /\ process \in {"up", "exited", "aborted"}
  /\ main \in {"starting", "serving"}
  /\ socket \in {"open", "closed"}
  /\ {work, lastPrevBlock, lastPrevPrevBlock, previous}
       \subseteq Blocks \union {NoBlock}
  /\ lastHeight \in Nat
  /\ main = "starting" <=> work = NoBlock
  /\ tip \in [Nodes -> Blocks]

(* Miners are not sent back and forth: from some time on the nodes are at  *)
(* a block or still at its parent, some of them at the block, and then the *)
(* work settles on the block, although both go on being reported, in any   *)
(* order, and whatever the nodes went through before.                      *)
Settles ==
  \A b \in Blocks :
    <>[](/\ \A n \in Nodes : tip[n] \in {b, Parent[b]}
         /\ \E n \in Nodes : tip[n] = b)
      => <>(process # "up" \/ [](work = b))

(* Work that went from a block to its child does not go straight back to    *)
(* the block: a node that has yet to hear of the child is ignored.         *)
NoFlipBack ==
  [][/\ previous # NoBlock
     /\ Parent[lastPrevBlock] = previous
     => work' # previous]_vars

(* The blocks that b extends, directly or not. *)
Ancestors(b) ==
  LET up[k \in 0..Height[b]] ==
        IF k = 0 THEN b
        ELSE IF up[k - 1] = NoBlock THEN NoBlock ELSE Parent[up[k - 1]]
  IN  {up[k] : k \in 1..Height[b]} \ {NoBlock}

(* "Ignore: Node is lagging behind": the poller never takes the work back  *)
(* to an ancestor of the block it extends.                                 *)
NeverBack ==
  previous # NoBlock => lastPrevBlock \notin Ancestors(previous)
=============================================================================
