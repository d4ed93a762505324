SPECIFICATION FairCouncil
CONSTANTS
  ONE = 64
  QUANTUM = 8
  BlocksPerYear = 2
  Assets <- MCAssets
  Users <- CouncilUsers
  Proposals = {1, 4, 9, 10, 11, 12, 13}
  Members = {"mem", "m2"}
  Staff = {"a1", "a2"}
  Threshold = 2
  SysVersion = 5
  UserPages <- NoPages
  Genesis <- Genesis4
  Prefix <- CouncilPrefix
  Inputs <- CouncilInputs
  BatchLimit = 1
  MaxOutputs = 13
  MaxFaults = 0
  Admins <- CouncilAdmins
  ClientID = "mem"
  Limit = 3
  Batch = 2
  MaxNetFaults = 1
  VoteAsset = "cnb"
  VoteAmount = 8
  Pressers = {"a2"}
  MaxPayments = 2
INVARIANTS EveryDecisionAnnounced QuotesFollowPosts MemosReadable
PROPERTIES EveryVoteTold StaffVoteCounts EveryOutputHandled
CHECK_DEADLOCK FALSE
