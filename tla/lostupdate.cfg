SPECIFICATION Spec
CONSTANTS
  MaxOutputs = 2
  PullLimit = 3
  AckLimit = 2
  MaxTies = 2
  MaxUpdates = 1
  MaxCrashes = 0
INVARIANTS
  SavedUpdatesStay
CHECK_DEADLOCK FALSE
