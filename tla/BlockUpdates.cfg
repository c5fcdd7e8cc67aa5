\* Two nodes, a tree of six blocks with two branches; every node is asked again
\* and again.
SPECIFICATION FairSpec
CONSTANTS
  Nodes = {n1, n2}
  NoBlock = NoBlock
  Blocks <- Tree
  Parent <- TreeParent
  Height <- TreeHeight
INVARIANTS TypeOK
PROPERTIES Settles NoFlipBack
CHECK_DEADLOCK FALSE
