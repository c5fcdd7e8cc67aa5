\* Two connections, one class, two frames each, some of them faulty; threads and
\* accept() may fail; only c1 is sure to read.
SPECIFICATION FairSpec
CONSTANTS
  Conns = {c1, c2}
  NoConn = NoConn
  Classes = {k1}
  Frames <- StayingFrames
  MaxFrames = 2
  WireCap = 1
  ResourcesFail = TRUE
  DebugLogging = TRUE
  Closers = {c2}
  Readers = {c1}
INVARIANTS BroadcastTouchesLive StartTouchesLive IInv
PROPERTIES QueuedIsSent BroadcastEnds ClosedIsDestroyed
CHECK_DEADLOCK FALSE
