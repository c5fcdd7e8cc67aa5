\* Two connections, one class, two frames each: does a client's leaving end the
\* relay?
SPECIFICATION Spec
CONSTANTS
  Conns = {c1, c2}
  NoConn = NoConn
  Classes = {k1}
  Frames <- GoodFrames
  MaxFrames = 2
  WireCap = 1
  ResourcesFail = FALSE
  DebugLogging = FALSE
  Closers = {c1, c2}
  Readers = {}
INVARIANTS SurvivesClients
CHECK_DEADLOCK FALSE
