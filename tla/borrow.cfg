SPECIFICATION Spec
CONSTANTS
  ONE = 64
  QUANTUM = 8
  BlocksPerYear = 2
  Assets <- MCAssets
  Users <- MCUsers
  Proposals = {1, 3, 5, 7}
  Members = {"mem"}
  Staff = {}
  Threshold = 1
  SysVersion = 5
  UserPages <- NoPages
  Genesis <- Genesis5
  Prefix <- BorrowPrefix
  Inputs <- BorrowInputs
  BatchLimit = 20
  MaxOutputs = 15
  MaxFaults = 1
INVARIANTS NonNegative CashConserved CTokensConserved DebtConserved
PROPERTIES LiquidityKept SeizureBounded
CHECK_DEADLOCK FALSE
