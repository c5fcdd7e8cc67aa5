\* Two nodes, the same tree: does a node that lags behind take the work back?
SPECIFICATION Spec
CONSTANTS
  Nodes = {n1, n2}
  NoBlock = NoBlock
  Blocks <- Tree
  Parent <- TreeParent
  Height <- TreeHeight
INVARIANTS NeverBack
CHECK_DEADLOCK FALSE
