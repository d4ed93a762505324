SPECIFICATION Spec
CONSTANTS
  ONE = 64
  QUANTUM = 8
  BlocksPerYear = 2
  Assets = {"usd", "cnb"}
  Users = {"bob", "m1", "m2", "m3", "mem", "st"}
  Proposals = {1, 4, 9, 11, 13, 15, 17, 19, 22, 23, 24}
  Members = {"m1", "m2", "m3"}
  Staff = {"st"}
  Threshold = 2
  SysVersion = 5
  UserPages <- NoPages
  Genesis <- Genesis3
  Prefix <- GovPrefix
  Inputs <- GovInputs
  BatchLimit = 20
  MaxOutputs = 24
  MaxFaults = 1
INVARIANTS CashConserved VotesBacked StatusFollowsVotes KnownVersionsOnly PriceIsFresh
PROPERTIES PriceIsSigned RulesNeverGoBack
CHECK_DEADLOCK FALSE
