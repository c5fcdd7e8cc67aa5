\* Two classes, two calls, two lost connections, two messages; the receiver
\* thread is scheduled fairly.
SPECIFICATION FairSpec
CONSTANTS
  Classes = {k1, k2}
  MaxCalls = 2
  MaxBreaks = 2
  MaxMessages = 2
  ResourcesFail = TRUE
INVARIANTS TypeOK ResubscribedUnlessOverlapped WholeFramesUnlessOverlapped IntactUnlessTorn
PROPERTIES Reconnects
CHECK_DEADLOCK FALSE
