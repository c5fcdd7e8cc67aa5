\* Two connections, two classes, two frames each, either may close;
\* the invariants, and the refinement of the abstract bus.
SPECIFICATION Spec
CONSTANTS
  Conns = {c1, c2}
  NoConn = NoConn
  Classes = {k1, k2}
  Frames <- GoodFrames
  MaxFrames = 2
  WireCap = 1
  ResourcesFail = FALSE
  DebugLogging = TRUE
  Closers = {c1, c2}
  Readers = {}
SYMMETRY ConnSymmetry
INVARIANTS TypeOK SemaphoreMatchesQueue TotalOrder PublisherOrder ExactDelivery
PROPERTIES ImplementsBus
CHECK_DEADLOCK FALSE
