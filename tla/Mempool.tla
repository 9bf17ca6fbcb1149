------------------------------ MODULE Mempool ------------------------------
(***************************************************************************)
(* MempoolManager: the pending user operations, the number of them every   *)
(* address takes part in, and the admission rules (replacement by fee,     *)
(* limits per entity by reputation and stake, one role per address).       *)
(*                                                                         *)
(* A user operation is a record; paymaster and factory stand for the       *)
(* address at the head of paymasterAndData and initCode (getAddr, which    *)
(* lower-cases it), tip and fee for the two maximal fees.  The array is    *)
(* the set of its elements: position only breaks ties between equal tips,  *)
(* which Bundler leaves open.  Aggregators never reach this module: the    *)
(* validation rejects them.                                                *)
(***************************************************************************)
EXTENDS Reputation

CONSTANTS
  UserOp,            \* the operations clients may send
  Staked,            \* addresses whose stake and unstake delay suffice
  MaxPerSender,      \* MAX_MEMPOOL_USEROPS_PER_SENDER
  ThrottledCount,    \* THROTTLED_ENTITY_MEMPOOL_COUNT
  SameUnstakedCount, \* SAME_UNSTAKED_ENTITY_MEMPOOL_COUNT
  RoundedUp,         \* fees whose product with the double 1.1 exceeds the real one
  MaxCount           \* BOUND on entryCount (rejected operations leak into it)

ASSUME UserOpAssumption ==
  /\ \A op \in UserOp :
       /\ op.sender \in Spelling
       /\ op.paymaster \in Addr \cup {NoAddr}
       /\ op.factory \in Addr \cup {NoAddr}
       /\ op.tip \in Nat
       /\ op.fee \in Nat
  /\ Staked \subseteq Addr

ASSUME LimitsAssumption ==
  /\ MaxPerSender \in Nat
  /\ ThrottledCount \in Nat
  /\ SameUnstakedCount \in Nat
  /\ RoundedUp \subseteq Nat
  /\ MaxCount \in Nat

VARIABLES
  mempool,       \* the elements of this.mempool
  entryCount     \* this._entryCount, a missing key being 0

memVars == <<mempool, entryCount>>

\* the account of an operation, however it is spelled
Account(op) == Lower[op.sender]

\* strict equality of strings: the spelling counts
SameSenderNonce(op1, op2) == op1.sender = op2.sender /\ op1.nonce = op2.nonce

\* the hash is computed by the EntryPoint, from addresses
Hash(op) == [op EXCEPT !.sender = Lower[@]]

\* mutants of FindBySenderNonce: only the operation itself; any nonce
FindIdentical(op) == {e \in mempool : e = op}
FindBySender(op) == {e \in mempool : e.sender = op.sender}

FindBySenderNonce(op) == {e \in mempool : SameSenderNonce(e, op)}

\* in how many roles an operation involves an address
Roles(op, a) == One(Account(op) = a) + One(op.paymaster = a) + One(op.factory = a)

\* a mutant of Incremented: the sender is forgotten
IncrementedEntities(op) ==
  [a \in Addr |-> entryCount[a] + One(op.paymaster = a) + One(op.factory = a)]

Incremented(op) == [a \in Addr |-> entryCount[a] + Roles(op, a)]

Minus(m, n) == IF m <= n THEN 0 ELSE m - n

\* a mutant of Decremented: once per key, without the test for zero
DecrementedTwice(count, op) == [a \in Addr |-> count[a] - 2 * Roles(op, a)]

Decremented(count, op) == [a \in Addr |-> Minus(count[a], Roles(op, a))]

KnownSenders == {Account(e) : e \in mempool}
KnownEntities == ({e.paymaster : e \in mempool} \cup {e.factory : e \in mempool}) \ {NoAddr}

MaxAllowedMempoolOpsUnstaked(a) ==
  LET rate == IF opsSeen[a] = 0 THEN 0 ELSE (opsIncluded[a] * 10) \div opsSeen[a]
  IN  SameUnstakedCount + rate
        + (IF opsIncluded[a] < 10000 THEN opsIncluded[a] ELSE 10000)

\* a mutant of CheckReputationStatus: the candidate is not counted
CheckStatusBefore(s, count, max) ==
  /\ GetStatus(s) # BANNED
  /\ count > ThrottledCount => GetStatus(s) # THROTTLED
  /\ count > max + 1 => CheckStake(s, Lower[s] \in Staked)

\* count: the entity's entries, the candidate included
CheckReputationStatus(s, count, max) ==
  /\ GetStatus(s) # BANNED
  /\ count > ThrottledCount => GetStatus(s) # THROTTLED
  /\ count > max => CheckStake(s, Lower[s] \in Staked)

CheckEntity(a) ==
  a # NoAddr => CheckReputationStatus(a, entryCount'[a], MaxAllowedMempoolOpsUnstaked(a))

CheckReputation(op) ==
  /\ CheckReputationStatus(op.sender, entryCount'[Account(op)], MaxPerSender)
  /\ CheckEntity(op.paymaster)
  /\ CheckEntity(op.factory)

\* a mutant of CheckMultipleRoles: the operation's own entities are not looked at
CheckSenderRole(op) == Account(op) \notin KnownEntities

CheckMultipleRoles(op) ==
  /\ Account(op) \notin KnownEntities
  /\ op.paymaster \notin KnownSenders
  /\ op.factory \notin KnownSenders

\* new >= old * 1.1, in floating point: 11 is not enough to replace 10
TenPercentMore(new, old) ==
  /\ 10 * new >= 11 * old
  /\ old \in RoundedUp => 10 * new > 11 * old

\* a mutant of CheckReplaceUserOp: the operands are swapped
CheckReplaceSwapped(old, op) ==
  TenPercentMore(old.tip, op.tip) /\ TenPercentMore(old.fee, op.fee)

CheckReplaceUserOp(old, op) ==
  TenPercentMore(op.tip, old.tip) /\ TenPercentMore(op.fee, old.fee)

\* an unstaked account is not counted as seen; the other entities always are
SeenRoles(op, a) ==
  One(Account(op) = a /\ CheckStake(op.sender, a \in Staked))
    + One(op.paymaster = a) + One(op.factory = a)

UpdateSeenRoles(op) ==
  /\ \A a \in Addr : opsSeen[a] + SeenRoles(op, a) <= MaxOps
  /\ opsSeen' = [a \in Addr |-> opsSeen[a] + SeenRoles(op, a)]
  /\ UNCHANGED <<opsIncluded, listVars>>

MemInit ==
  /\ RepInit
  /\ mempool = {}
  /\ entryCount = [a \in Addr |-> 0]

\* addUserOp, when an operation of this sender and nonce is there: the
\* replacement passes no other check and leaves the counts alone
ReplaceUserOp(op) ==
  \E old \in FindBySenderNonce(op) :
    /\ CheckReplaceUserOp(old, op)
    /\ mempool' = (mempool \ {old}) \cup {op}
    /\ UpdateSeenRoles(op)
    /\ UNCHANGED entryCount

\* a mutant of InsertUserOp: it does not look for an operation to replace
InsertBeside(op) ==
  /\ entryCount' = Incremented(op)
  /\ CheckReputation(op)
  /\ CheckMultipleRoles(op)
  /\ mempool' = mempool \cup {op}
  /\ UpdateSeenRoles(op)

\* addUserOp, when there is none and the checks pass
InsertUserOp(op) ==
  /\ FindBySenderNonce(op) = {}
  /\ entryCount' = Incremented(op)
  /\ CheckReputation(op)
  /\ CheckMultipleRoles(op)
  /\ mempool' = mempool \cup {op}
  /\ UpdateSeenRoles(op)

\* addUserOp, when a check throws: the counts are already incremented
RejectUserOp(op) ==
  /\ FindBySenderNonce(op) = {}
  /\ entryCount' = Incremented(op)
  /\ ~(CheckReputation(op) /\ CheckMultipleRoles(op))
  /\ \A a \in Addr : entryCount'[a] <= MaxCount
  /\ UNCHANGED <<mempool, repVars>>

\* checkReplaceUserOp throws: nothing has changed
RefuseReplacement(op) ==
  /\ \E old \in FindBySenderNonce(op) : ~CheckReplaceUserOp(old, op)
  /\ UNCHANGED <<memVars, repVars>>

\* removeUserOp(userOp), and then removeUserOp(hash); without effect when
\* there is no such entry
Remove(found) ==
  \/ \E e \in found :
       /\ mempool' = mempool \ {e}
       /\ entryCount' = Decremented(entryCount, e)
  \/ found = {} /\ UNCHANGED memVars

RemoveUserOp(op) ==
  Remove(FindBySenderNonce(op)) /\ UNCHANGED repVars

RemoveUserOpByHash(hash) ==
  Remove({e \in mempool : Hash(e) = hash}) /\ UNCHANGED repVars

ClearMempool ==
  /\ mempool' = {}
  /\ entryCount' = [a \in Addr |-> 0]
  /\ UNCHANGED repVars

MemNext ==
  \/ \E op \in UserOp :
       \/ ReplaceUserOp(op)
       \/ InsertUserOp(op)
       \/ RejectUserOp(op)
       \/ RefuseReplacement(op)
       \/ RemoveUserOp(op)
       \/ RemoveUserOpByHash(Hash(op))
  \/ ClearMempool
  \/ RepNext /\ UNCHANGED memVars

MemSpec == MemInit /\ [][MemNext]_<<memVars, repVars>>
-----------------------------------------------------------------------------
(* Properties                                                              *)

MemTypeOK ==
  /\ RepTypeOK
  /\ mempool \in SUBSET UserOp
  /\ entryCount \in [Addr -> Nat]

(* No two pending operations share sender and nonce as spelled: a second   *)
(* one replaces the first (addUserOp), whatever was removed meanwhile.     *)
UniqueSenderNonce ==
  \A e1, e2 \in mempool : SameSenderNonce(e1, e2) => e1 = e2

Pending(a) == {e \in mempool : Account(e) = a}

(* The premise under which the counts and the roles are kept: a client    *)
(* that bids an operation up changes neither its paymaster nor its factory *)
(* to an account, or back.  addUserOp does not check it of a replacement.  *)
RolesKept ==
  \A op1, op2, op \in UserOp :
    SameSenderNonce(op1, op2) =>
      /\ op1.paymaster = Account(op) <=> op2.paymaster = Account(op)
      /\ op1.factory = Account(op) <=> op2.factory = Account(op)

(* The count of an account never falls behind its pending operations, so   *)
(* that the limits which read entryCount bind: additions, replacements,    *)
(* refusals and removals by either key keep it so, under RolesKept.        *)
SenderCountCovers == \A a \in Addr : Cardinality(Pending(a)) <= entryCount[a]

(* The limit of MAX_MEMPOOL_USEROPS_PER_SENDER pending operations for an   *)
(* account that is neither staked nor whitelisted.                         *)
SenderLimit ==
  \A a \in Addr :
    (a \notin Staked /\ \A s \in whitelist : Lower[s] # a)
      => Cardinality(Pending(a)) <= MaxPerSender

(* checkMultipleRolesViolation: no pending operation's account is the      *)
(* paymaster or the factory of another pending operation.                  *)
RoleSeparation ==
  \A e1, e2 \in mempool :
    e1 # e2 => Account(e1) # e2.paymaster /\ Account(e1) # e2.factory

(* The mempool is a board of slots: whatever the checks decide and whoever *)
(* removes, a slot (sender, nonce) has one occupant, which gives way only  *)
(* to one that pays at least 10% more on both fees (addUserOp).            *)
Board == INSTANCE Slots WITH Offer <- UserOp, board <- mempool

BoardSpec == Board!Spec
=============================================================================
