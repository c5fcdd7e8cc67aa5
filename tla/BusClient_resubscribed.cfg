\* One call and one lost connection: does the relay know the subscriptions
\* when both threads are done?
SPECIFICATION Spec
CONSTANTS
  Classes = {k1}
  MaxCalls = 1
  MaxBreaks = 1
  MaxMessages = 0
  ResourcesFail = FALSE
INVARIANTS Resubscribed
CHECK_DEADLOCK FALSE
