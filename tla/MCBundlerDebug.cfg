CONSTANTS
  a = a
  b = b
  p = p
  NoAddr = NoAddr
  Spelling = {a, b, p}
  Lower <- MCLower
  MinInclusionDenominator = 2
  ThrottlingSlack = 1
  BanSlack = 2
  CrashPenalty = 16
  RepValues = {}
  MaxOps = 20
  UserOp <- TwoOps
  Staked = {}
  MaxPerSender = 4
  ThrottledCount = 4
  SameUnstakedCount = 4
  RoundedUp = {10}
  MaxCount = 4
  r1 = r1
  r2 = r2
  t1 = t1
  t2 = t2
  r3 = r3
  d1 = d1
  RpcTask = {r1, r2}
  TimerTask = {}
  DebugTask = {d1}
  NoOp = NoOp
  MaxBundleGas = 4
  Deposit = {1, 2}
  Modes <- AllModes
  Listening = FALSE
  DebugRpc = TRUE
  Window = 3
  MaxBlocks = 1
SPECIFICATION MCSpec
INVARIANT OneBundleAtATime
PROPERTY RemovedForCause
SYMMETRY Symmetry
CHECK_DEADLOCK FALSE
