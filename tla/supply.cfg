SPECIFICATION Spec
CONSTANTS
  ONE = 64
  QUANTUM = 8
  BlocksPerYear = 2
  Assets <- MCAssets
  Users <- MCUsers
  Proposals = {1, 3, 5, 7}
  Members = {"mem"}
  Staff = {}
  Threshold = 1
  SysVersion = 5
  UserPages <- NoPages
  Genesis <- Genesis5
  Prefix <- SupplyPrefix
  Inputs <- SupplyInputs
  BatchLimit = 20
  MaxOutputs = 14
  MaxFaults = 0
INVARIANTS CashConserved CTokensConserved PledgeCapped
PROPERTIES RateNeverFalls
CHECK_DEADLOCK FALSE
