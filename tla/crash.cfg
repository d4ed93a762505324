SPECIFICATION Spec
CONSTANTS
  ONE = 64
  QUANTUM = 8
  BlocksPerYear = 2
  Assets <- MCAssets
  Users <- MCUsers
  Proposals = {1, 3, 5, 7, 12, 13}
  Members = {"mem"}
  Staff = {}
  Threshold = 1
  SysVersion = 5
  UserPages <- NoPages
  Genesis <- Genesis5
  Prefix <- CrashPrefix
  Inputs <- CrashInputs
  BatchLimit = 3
  MaxOutputs = 16
  MaxFaults = 2
INVARIANTS TypeOK VersionsBounded OneOutcome
PROPERTIES EffectsAreAtomic AppliedOnce
CHECK_DEADLOCK FALSE
