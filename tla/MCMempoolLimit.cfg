CONSTANTS
  a = a
  b = b
  B = B
  p = p
  NoAddr = NoAddr
  Spelling = {a, b, B, p}
  Lower <- MCLower
  MinInclusionDenominator = 10
  ThrottlingSlack = 0
  BanSlack = 1
  CrashPenalty = 20
  RepValues = {0}
  MaxOps = 5
  UserOp <- CrossedOps
  Staked = {}
  MaxPerSender = 2
  ThrottledCount = 2
  SameUnstakedCount = 1
  RoundedUp = {10}
  MaxCount = 4
SPECIFICATION CrossedSpec
INVARIANT SenderLimit
