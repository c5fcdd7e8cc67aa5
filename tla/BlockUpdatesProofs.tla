------------------------- MODULE BlockUpdatesProofs -------------------------
(***************************************************************************)
(* Theorems of BlockUpdates: its types, and that the work does not go      *)
(* straight back, for any nodes and any tree of blocks.                    *)
(***************************************************************************)
EXTENDS BlockUpdates, TLAPS

(* What the poller remembers hangs together: nothing before the first      *)
(* poll, then the height of the last block, and the block before it if the *)
(* last one extends it.                                                    *)
MemoryInv ==
  /\ main = "starting" => lastPrevBlock = NoBlock
  /\ lastPrevBlock = NoBlock => previous = NoBlock /\ lastHeight = 0
  /\ lastPrevBlock # NoBlock => /\ lastPrevBlock \in Blocks
                                /\ lastHeight = Height[lastPrevBlock] + 1
                                /\ work = lastPrevBlock
  /\ /\ previous # NoBlock
     /\ Parent[lastPrevBlock] = previous
     => lastPrevPrevBlock = previous

Inv == TypeOK /\ MemoryInv

LEMMA InitInv == Init => Inv
  BY BlockAssumption DEF Init, Inv, TypeOK, MemoryInv

(* The poller's step, from a template that is news.                        *)
LEMMA UpdateInv ==
  ASSUME Inv, NEW b \in Blocks, main = "serving",
         IsNews(b), Update(b), main' = main
  PROVE  MemoryInv'
<1>1. Height[b] \in Nat /\ b # NoBlock
  BY BlockAssumption
<1>2. lastPrevBlock' = b /\ lastHeight' = Height[b] + 1 /\ work' = b
  BY DEF Update, TemplateHeight
<1>3. ASSUME previous' # NoBlock, Parent[b] = previous'
      PROVE  lastPrevPrevBlock' = previous'
  <2>1. lastPrevBlock # NoBlock /\ lastPrevBlock \in Blocks
    BY <1>3 DEF Inv, MemoryInv, Update
  <2>2. lastHeight = Height[lastPrevBlock] + 1
    BY <2>1 DEF Inv, MemoryInv
  <2>3. Height[b] = Height[lastPrevBlock] + 1 /\ Height[lastPrevBlock] \in Nat
    BY <1>3, <2>1, BlockAssumption DEF Update
  <2>4. lastHeight + 1 = TemplateHeight(b)
    BY <2>2, <2>3 DEF TemplateHeight
  <2> QED
    BY <2>4 DEF Update, PrevPrev
<1> QED
  BY <1>1, <1>2, <1>3 DEF MemoryInv

LEMMA NextInv == Inv /\ [Next]_vars => Inv'
<1> SUFFICES ASSUME Inv, [Next]_vars
             PROVE  Inv'
  OBVIOUS
<1> USE DEF Inv
<1>1. CASE UNCHANGED vars
  BY <1>1 DEF vars, TypeOK, MemoryInv
<1>2. CASE RequestFails
  BY <1>2 DEF RequestFails, pollerVars, TypeOK, MemoryInv
<1>3. ASSUME NEW n \in Nodes, Start(n)
      PROVE  Inv'
  <2>1. tip[n] \in Blocks /\ tip[n] # NoBlock
    BY BlockAssumption DEF TypeOK
  <2> QED
    BY <1>3, <2>1 DEF Start, Answered, pollerVars, TypeOK, MemoryInv
<1>4. ASSUME NEW n \in Nodes, Poll(n)
      PROVE  Inv'
  <2>1. tip[n] \in Blocks /\ tip[n] # NoBlock /\ Height[tip[n]] \in Nat
    BY BlockAssumption DEF TypeOK
  <2>2. CASE IsNews(tip[n])
    <3>1. Update(tip[n]) /\ main = "serving" /\ main' = main
      BY <1>4, <2>2 DEF Poll
    <3>2. MemoryInv'
      BY <2>1, <2>2, <3>1, UpdateInv
    <3>3. TypeOK'
      BY <1>4, <2>1, <3>1
      DEF Poll, Answered, Update, PrevPrev, TemplateHeight, TypeOK
    <3> QED
      BY <3>2, <3>3
  <2>3. CASE ~IsNews(tip[n])
    BY <1>4, <2>3 DEF Poll, Answered, pollerVars, TypeOK, MemoryInv
  <2> QED
    BY <2>2, <2>3
<1>5. ASSUME NEW n \in Nodes, NEW b \in Blocks, Advance(n, b)
      PROVE  Inv'
  BY <1>5 DEF Advance, pollerVars, TypeOK, MemoryInv
<1> QED
  BY <1>1, <1>2, <1>3, <1>4, <1>5 DEF Next

(* What the poller remembers is consistent in every reachable state.       *)
THEOREM Invariance == Spec => []Inv
  BY InitInv, NextInv, PTL DEF Spec

(* Every variable of the pool daemon keeps its type, and it has work from  *)
(* the moment it serves.                                                   *)
THEOREM TypeCorrect == Spec => []TypeOK
  BY Invariance, PTL DEF Inv

LEMMA StepNoFlipBack ==
  Inv /\ [Next]_vars =>
    [/\ previous # NoBlock
     /\ Parent[lastPrevBlock] = previous
     => work' # previous]_vars
<1> SUFFICES ASSUME Inv, Next, previous # NoBlock,
                    Parent[lastPrevBlock] = previous, vars' # vars
             PROVE  work' # previous
  OBVIOUS
<1>1. /\ lastPrevBlock \in Blocks /\ previous \in Blocks
      /\ lastHeight = Height[lastPrevBlock] + 1
      /\ lastPrevPrevBlock = previous /\ work = lastPrevBlock
      /\ main = "serving"
  BY DEF Inv, MemoryInv, TypeOK
<1>2. /\ Height[lastPrevBlock] = Height[previous] + 1
      /\ Height[previous] \in Nat
  BY <1>1, BlockAssumption
<1>3. work # previous
  BY <1>1, <1>2
<1>4. ASSUME NEW n \in Nodes, Poll(n)
      PROVE  work' # previous
  <2>1. CASE tip[n] = previous
    <3>1. TemplateHeight(tip[n]) + 1 = lastHeight
      BY <1>1, <1>2, <2>1 DEF TemplateHeight
    <3>2. ~IsNews(tip[n])
      BY <1>1, <2>1, <3>1 DEF IsNews, LaggingBehind
    <3> QED
      BY <1>3, <1>4, <3>2 DEF Poll
  <2>2. CASE tip[n] # previous
    BY <1>3, <1>4, <2>2 DEF Poll, Update
  <2> QED
    BY <2>1, <2>2
<1>5. CASE RequestFails
  BY <1>3, <1>5 DEF RequestFails
<1>6. ASSUME NEW n \in Nodes, NEW b \in Blocks, Advance(n, b)
      PROVE  work' # previous
  BY <1>3, <1>6 DEF Advance
<1> QED
  BY <1>1, <1>4, <1>5, <1>6 DEF Next, Start

(* Work that went from a block to its child does not go straight back.     *)
THEOREM NoFlipBackHolds == Spec => NoFlipBack
  BY Invariance, StepNoFlipBack, PTL DEF Spec, NoFlipBack
=============================================================================
