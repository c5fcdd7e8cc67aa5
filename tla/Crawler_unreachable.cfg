\* Three honest nodes, one of which cannot be reached, and one
\* worker: does the crawler go on?
SPECIFICATION Spec
CONSTANTS
  Nodes <- Addresses
  Known <- AddressLists
  Seed = "a"
  NoNode = NoNode
  Workers = {w1}
  Unreachable = {"c"}
  Faulty = {}
  MaxOdd = 0
  ThreadsMayFail = FALSE
INVARIANTS SurvivesUnreachable
CHECK_DEADLOCK FALSE
