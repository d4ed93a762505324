SPECIFICATION FairSpec
CONSTANTS
  n1 = n1
  n2 = n2
  Nodes = {n1, n2}
  Assets = {"A", "B"}
  Threshold = 2
  Deposits <- MCMerge
  Opening = 2
  SpendLimit = 2
  PendingLimit = 2
  CashierBatch = 2
  PassLimit = 1
  MaxCrashes = 0
INVARIANTS
  NodesAgree
PROPERTIES
  EveryTransferPassed
CHECK_DEADLOCK FALSE
