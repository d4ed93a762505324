SPECIFICATION Spec
CONSTANTS
  ONE = 64
  QUANTUM = 8
  BlocksPerYear = 2
  Assets <- MCAssets
  Users <- MCUsers
  Proposals = {1, 3}
  Members = {"mem"}
  Staff = {}
  Threshold = 1
  SysVersion = 5
  UserPages <- NoPages
  Genesis <- Genesis5
  Prefix <- SameAssetPrefix
  Inputs <- SameAssetInputs
  BatchLimit = 20
  MaxOutputs = 8
  MaxFaults = 0
PROPERTY LiquidationReachesBorrowMarket
CHECK_DEADLOCK FALSE
