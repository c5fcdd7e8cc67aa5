SPECIFICATION Spec
CONSTANTS
  c1 = c1
  c2 = c2
  Clients = {c1, c2}
  Updater = updater
  Blocks = {1, 2}
  FirstBlock = 1
  NoJob = NoJob
  DefaultDiff = 20
  MaxDiff <- MCMaxDiff
  Elapsed = {0, 5, 20}
  MaxRequests <- MCMaxRequests
  MaxUpdates = 2
INVARIANTS
  TypeOK
  JobsAreCurrent
  MinerInStep
  NoFreedJob
PROPERTY
  WorkArrives
CHECK_DEADLOCK FALSE
