\* Three nodes, one of which is unreachable and another may leave or send
\* anything once; two workers.
SPECIFICATION FairSpec
CONSTANTS
  Nodes <- Addresses
  Known <- AddressLists
  Seed = "a"
  NoNode = NoNode
  Workers = {w1, w2}
  Unreachable = {"c"}
  Faulty = {"b"}
  MaxOdd = 1
  ThreadsMayFail = TRUE
INVARIANTS TypeOK EachNodeOnce NoAddressLost
PROPERTIES TriesAll
CHECK_DEADLOCK FALSE
