SPECIFICATION Spec
CONSTANTS
  ONE = 64
  QUANTUM = 8
  BlocksPerYear = 2
  Assets <- MCAssets
  Users <- MCUsers
  Proposals = {1, 3, 6, 7, 8, 9, 10}
  Members = {"mem"}
  Staff = {}
  Threshold = 1
  SysVersion = 5
  UserPages <- OnePageEach
  Genesis <- Genesis0
  Prefix <- UpgradePrefix
  Inputs <- UpgradeInputs
  BatchLimit = 1
  MaxOutputs = 10
  MaxFaults = 1
INVARIANTS OneOutcome AddressesMigrated
PROPERTIES AppliedInWhole
CHECK_DEADLOCK FALSE
