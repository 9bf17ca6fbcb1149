CONSTANTS
  a = a
  b = b
  B = B
  p = p
  NoAddr = NoAddr
  Spelling = {a, b, B, p}
  Lower <- MCLower
  MinInclusionDenominator = 2
  ThrottlingSlack = 0
  BanSlack = 1
  CrashPenalty = 4
  RepValues = {0, 2}
  MaxOps = 2
  UserOp <- KeptOps
  Staked = {}
  MaxPerSender = 1
  ThrottledCount = 1
  SameUnstakedCount = 1
  RoundedUp = {10}
  MaxCount = 2
SPECIFICATION KeptSpec
INVARIANTS MemTypeOK UniqueSenderNonce SenderCountCovers SenderLimit RoleSeparation
PROPERTY BoardSpec
