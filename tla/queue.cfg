SPECIFICATION FairSpec
CONSTANTS
  n1 = n1
  n2 = n2
  Nodes = {n1, n2}
  Assets = {"A", "B"}
  Threshold = 2
  Deposits <- MCQueue
  Opening = 0
  SpendLimit = 2
  PendingLimit = 2
  CashierBatch = 1
  PassLimit = 1
  MaxCrashes = 1
INVARIANTS
  NodesAgree
  NoPaymentDropped
PROPERTIES
  EveryTransferPassed
CHECK_DEADLOCK FALSE
