CONSTANTS
  o1 = o1
  o2 = o2
  me = me
  other = other
  Op = {o1, o2}
  MaxNonce = 2
  NoNonce = NoNonce
  Given = {}
  Awaited = {o1}
  MaxBlocks = 2
  DeployTask = {me, other}
  Me = me
SPECIFICATION MCFairSpec
ACTION_CONSTRAINT Rival
INVARIANTS ClientTypeOK SettledByChain DeployedForGood CreatedFresh WaitedDeployed AddressForCause
PROPERTIES EveryCallEnds
CHECK_DEADLOCK FALSE
