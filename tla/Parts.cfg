SPECIFICATION Spec
CONSTANTS
  Throws = Throws
  MaxMessageSize = 18
  Registrations <- MCRegistrations
  Precision = 10
  CommitmentData <- MCCommitment
  Base = 3
  HashLength = 4
  Window = 2
  Diff1 <- MCDiff1
  Template <- MCTemplate
  Numbers <- MCNumbers
  HugeTexts = {"huge"}
  NotSet = NotSet
  Callers = {poller, receiver}
  MaxRequests = 3
INVARIANTS
  FramesDecode
  NeverOverpays
  EncodingsParse
  CoinbaseWellFormed
  JobsPayReward
  HeadersAgree
  SolutionsAccepted
  OptionsMeanWhatTheySay
  HelpTextsLineUp
  OwnAnswer
PROPERTY
  PassesGain
CHECK_DEADLOCK FALSE
