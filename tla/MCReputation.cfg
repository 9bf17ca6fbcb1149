CONSTANTS
  a = a
  b = b
  B = B
  NoAddr = NoAddr
  Spelling = {a, b, B}
  Lower <- MCLower
  MinInclusionDenominator = 2
  ThrottlingSlack = 1
  BanSlack = 2
  CrashPenalty = 6
  RepValues = {0, 5}
  MaxOps = 7
SPECIFICATION RepSpec
INVARIANT RepTypeOK
PROPERTIES LiftedForCause CrashedIsBanned CronNeverWorsens
