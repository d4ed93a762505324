SPECIFICATION Spec
CONSTANTS
  ONE = 64
  QUANTUM = 8
  BlocksPerYear = 2
  Assets <- MCAssets
  Users <- MCUsers
  Proposals = {1, 3, 6, 7}
  Members = {"mem"}
  Staff = {}
  Threshold = 1
  SysVersion = 5
  UserPages <- NoPages
  Genesis <- Genesis2
  Prefix <- DowngradePrefix
  Inputs <- DowngradeInputs
  BatchLimit = 2
  MaxOutputs = 9
  MaxFaults = 0

PROPERTY VersionNeverBack
CHECK_DEADLOCK FALSE
