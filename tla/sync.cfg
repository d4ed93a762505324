SPECIFICATION FairSpec
CONSTANTS
  MaxOutputs = 4
  PullLimit = 3
  AckLimit = 2
  MaxTies = 2
  MaxUpdates = 1
  MaxCrashes = 1
INVARIANTS
  SyncTypeOK
  OrderIsCanonical
  NothingSkipped
PROPERTIES
  EveryOutputListed
CHECK_DEADLOCK FALSE
