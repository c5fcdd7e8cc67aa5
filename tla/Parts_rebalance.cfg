\* The job manager alone: does rebalance() return?
SPECIFICATION ManagerSpec
CONSTANTS
  Throws = Throws
  MaxMessageSize = 18
  Registrations <- MCRegistrations
  Precision = 10
  CommitmentData <- MCCommitment
  Base = 3
  HashLength = 4
  Window = 2
  Diff1 <- MCDiff1
  Template <- MCTemplate
  Numbers <- MCNumbers
  HugeTexts = {"huge"}
  NotSet = NotSet
  Callers = {poller, receiver}
  MaxRequests = 3
PROPERTY
  Returns
CHECK_DEADLOCK FALSE
