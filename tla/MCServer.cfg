CONSTANTS
  o1 = o1
  o2 = o2
  h1 = h1
  h2 = h2
  me = me
  other = other
  Op = {o1, o2}
  NoOp = NoOp
  Window <- MCWindow
  Soon = 1
  MaxTime = 2
  MaxCode = 1
  Undefined = Undefined
  NoHashes = NoHashes
  Rest <- MCRest
  Conn = {h1, h2}
  Tx <- MCTx
  NoTx = NoTx
  DeployTask = {me, other}
  Me = me
SPECIFICATION MCFairSpec
INVARIANTS ServerTypeOK BootForCause RepliesSound CodeFrozen LogsComplete QuoteShort
PROPERTIES EveryRequestAnswered
CHECK_DEADLOCK FALSE
