------------------------------ MODULE Bundler ------------------------------
(***************************************************************************)
(* ExecutionManager, BundleManager and EventsManager over the mempool and  *)
(* the reputation: every call that reaches them is a task, every await a   *)
(* place where another task may run.                                       *)
(*                                                                         *)
(*   RpcTask    eth_sendUserOperation: validate, add, perhaps bundle, all  *)
(*              under ExecutionManager's mutex                             *)
(*   TimerTask  a tick of the auto-bundling interval: attemptBundle(true)  *)
(*   DebugTask  debug_bundler_sendBundleNow: attemptBundle(true), then a   *)
(*              scan of the events                                         *)
(*                                                                         *)
(* The last two do not take ExecutionManager's mutex; BundleManager's      *)
(* mutex is around sendNextBundle only.  The Ethereum node with its        *)
(* EntryPoint contract is external.                                        *)
(***************************************************************************)
EXTENDS Mempool, Sequences, Functions

CONSTANTS
  RpcTask, TimerTask, DebugTask,   \* BOUND: each task runs once
  NoOp,              \* an RpcTask that has not been called
  MaxBundleGas,      \* maxBundleGas of the configuration
  Deposit,           \* paymaster deposits balanceOf may return
  Modes,             \* arguments of setAutoBundler: <<ticking, maxMempoolSize>>
  Listening,         \* whether initEventListener was called
  DebugRpc,          \* whether the debug API is served
  Window,            \* how far the first scan looks back (1000 blocks)
  MaxBlocks          \* BOUND on the number of the last block

Task == RpcTask \cup TimerTask \cup DebugTask

ASSUME OpAssumption ==
  \A op \in UserOp :
    /\ op.sender = Lower[op.sender]    \* one spelling per account here
    /\ op.gas \in Nat                  \* preOpGas + callGasLimit
    /\ op.prefund \in Nat
    /\ op.touches \subseteq Addr       \* whose storage the validation accesses

ASSUME BundlerAssumption ==
  /\ RpcTask \cap TimerTask = {}
  /\ RpcTask \cap DebugTask = {}
  /\ TimerTask \cap DebugTask = {}
  /\ NoOp \notin UserOp
  /\ MaxBundleGas \in Nat
  /\ Deposit \subseteq Nat
  /\ Modes \subseteq BOOLEAN \X Nat
  /\ Listening \in BOOLEAN
  /\ DebugRpc \in BOOLEAN
  /\ Window \in Nat
  /\ MaxBlocks \in Nat

VARIABLES
  pc,                \* where each task awaits
  arg,               \* the operation of each RpcTask
  answer,            \* what each task's caller was told
  scan,              \* each task's call of handlePastEvents
  execQueue,         \* ExecutionManager.mutex: the holder, then the waiters
  bundleQueue,       \* BundleManager.mutex
  mode,              \* <<autoInterval # 0, maxMempoolSize>>
  build,             \* the locals of createBundle and sendBundle
  lastBlock,         \* EventsManager.lastBlock, 0 while undefined
  heard,             \* how many events of the log the listener was given
  head, log,         \* the chain: number of its last block, its events
  pendingTx,         \* the bundle in the node's pool, <<>> if none
  txCount            \* mined transactions of the signer

taskVars == <<pc, arg, answer, scan>>
lockVars == <<execQueue, bundleQueue>>
eventVars == <<lastBlock, heard>>
chainVars == <<head, log, pendingTx, txCount>>
poolVars == <<memVars, repVars>>
vars == <<poolVars, taskVars, lockVars, mode, build, eventVars, chainVars>>

Unread == -1

NoBuild == [todo |-> <<>>,     \* entries still to look at
            known |-> {},      \* knownSenders
            bundle |-> <<>>,
            gas |-> 0,         \* totalGas
            deposit |-> [a \in Addr |-> Unread],   \* paymasterDeposit
            balance |-> [a \in Addr |-> Unread],   \* (what was read there)
            nonce |-> 0]

NoScan == [from |-> 0, at |-> 0, then |-> "none"]

Goto(t, label) == pc' = [pc EXCEPT ![t] = label]

SameSlot(op1, op2) == Account(op1) = Account(op2) /\ op1.nonce = op2.nonce

OnChain(op) == \E i \in DOMAIN log : Hash(log[i].op) = Hash(op)
SlotUsed(op) == \E i \in DOMAIN log : SameSlot(log[i].op, op)

Init ==
  /\ MemInit
  /\ pc = [t \in Task |-> "idle"]
  /\ arg = [t \in RpcTask |-> NoOp]
  /\ answer = [t \in Task |-> "none"]
  /\ scan = [t \in Task |-> NoScan]
  /\ execQueue = <<>>
  /\ bundleQueue = <<>>
  /\ mode \in Modes
  /\ build = NoBuild
  /\ lastBlock = 0
  /\ heard = 0
  /\ head = 1
  /\ log = <<>>
  /\ pendingTx = <<>>
  /\ txCount = 0
-----------------------------------------------------------------------------
(* EventsManager                                                           *)

\* removes entries from the mempool, and what they count from the counts
RemoveEntries(S) ==
  /\ mempool' = mempool \ S
  /\ entryCount' = [a \in Addr |->
       Minus(entryCount[a], Cardinality({e \in S : Account(e) = a})
                              + Cardinality({e \in S : e.paymaster = a})
                              + Cardinality({e \in S : e.factory = a}))]

\* how often the operations with these indices of the log involve an address
Involving(a, I) ==
  Cardinality({i \in I : Account(log[i].op) = a})
    + Cardinality({i \in I : log[i].op.paymaster = a})

\* the AccountDeployed events among them
Deploying(a, I) == Cardinality({i \in I : log[i].op.factory = a})

\* a mutant of HandleEvents: the next scan starts at the same block
HandleEventsAgain(I, deployed) ==
  LET times(a) == Involving(a, I) + IF deployed THEN Deploying(a, I) ELSE 0
  IN  /\ RemoveEntries({e \in mempool : \E i \in I : Hash(e) = Hash(log[i].op)})
      /\ \A a \in Addr : opsIncluded[a] + times(a) <= MaxOps
      /\ opsIncluded' = [a \in Addr |-> opsIncluded[a] + times(a)]
      /\ lastBlock' = IF I = {} THEN lastBlock
                      ELSE log[CHOOSE i \in I : \A j \in I : j <= i].block
      /\ UNCHANGED <<opsSeen, listVars>>

\* handleEvent on the UserOperationEvents of the operations with these indices,
\* in order, and on the AccountDeployed events when they are queried too
HandleEvents(I, deployed) ==
  LET times(a) == Involving(a, I) + IF deployed THEN Deploying(a, I) ELSE 0
  IN  /\ RemoveEntries({e \in mempool : \E i \in I : Hash(e) = Hash(log[i].op)})
      /\ \A a \in Addr : opsIncluded[a] + times(a) <= MaxOps
      /\ opsIncluded' = [a \in Addr |-> opsIncluded[a] + times(a)]
      /\ lastBlock' = IF I = {} THEN lastBlock
                      ELSE log[CHOOSE i \in I : \A j \in I : j <= i].block + 1
      /\ UNCHANGED <<opsSeen, listVars>>

\* the node's answer to a query is about to be awaited
Query(t, from) ==
  /\ scan' = [scan EXCEPT ![t] = [@ EXCEPT !.from = from, !.at = head]]
  /\ Goto(t, "query")

\* mutants of HandlePastEvents: it does not wait for the mutex; it looks back the
\* whole window every time
ScanUnlocked(t) ==
  /\ pc[t] = "scan"
  /\ IF lastBlock = 0 THEN Goto(t, "number") /\ UNCHANGED scan
     ELSE Query(t, lastBlock)
  /\ UNCHANGED <<poolVars, arg, answer, lockVars, mode, build, eventVars, chainVars>>

ScanWindow(t) ==
  /\ pc[t] = "scan"
  /\ scan[t].then = "create" => bundleQueue[1] = t
  /\ Goto(t, "number")
  /\ UNCHANGED <<poolVars, arg, answer, scan, lockVars, mode, build, eventVars, chainVars>>

\* handlePastEvents is called: by sendNextBundle under the mutex, by
\* attemptBundle and by sendBundleNow without it
HandlePastEvents(t) ==
  /\ pc[t] = "scan"
  /\ scan[t].then = "create" => bundleQueue[1] = t
  /\ IF lastBlock = 0 THEN Goto(t, "number") /\ UNCHANGED scan
     ELSE Query(t, lastBlock)
  /\ UNCHANGED <<poolVars, arg, answer, lockVars, mode, build, eventVars, chainVars>>

\* a mutant of BlockNumber: the maximum with 1 is missing
BlockNumberUnbounded(t) ==
  /\ pc[t] = "number"
  /\ lastBlock' = head - Window
  /\ Query(t, lastBlock')
  /\ UNCHANGED <<poolVars, arg, answer, lockVars, mode, build, heard, chainVars>>

\* getBlockNumber has answered: lastBlock is assigned, whoever has moved it since
BlockNumber(t) ==
  /\ pc[t] = "number"
  /\ lastBlock' = IF head - Window < 1 THEN 1 ELSE head - Window
  /\ Query(t, lastBlock')
  /\ UNCHANGED <<poolVars, arg, answer, lockVars, mode, build, heard, chainVars>>

\* queryFilter has answered, from the chain as it was at some time since
PastEvents(t) ==
  /\ pc[t] = "query"
  /\ \E upto \in scan[t].at .. head :
       HandleEvents({i \in DOMAIN log : log[i].block \in scan[t].from .. upto}, TRUE)
  /\ scan' = [scan EXCEPT ![t] = NoScan]
  /\ Goto(t, scan[t].then)
  /\ UNCHANGED <<arg, answer, lockVars, mode, build, heard, chainVars>>

\* the node answers either with an error
PastEventsFail(t) ==
  /\ pc[t] \in {"number", "query"}
  /\ scan' = [scan EXCEPT ![t] = NoScan]
  /\ Goto(t, IF scan[t].then = "create" THEN "throw" ELSE "fail")
  /\ UNCHANGED <<poolVars, arg, answer, lockVars, mode, build, eventVars, chainVars>>

\* the listener of initEventListener is given the next UserOperationEvent
Listen ==
  /\ Listening
  /\ heard < Len(log)
  /\ heard' = heard + 1
  /\ HandleEvents({heard'}, FALSE)
  /\ UNCHANGED <<taskVars, lockVars, mode, build, chainVars>>
-----------------------------------------------------------------------------
(* ExecutionManager                                                        *)

\* sendUserOperation is called and asks for the mutex
Submit(t, op) ==
  /\ t \in RpcTask
  /\ pc[t] = "idle"
  /\ Goto(t, "validate")
  /\ arg' = [arg EXCEPT ![t] = op]
  /\ execQueue' = Append(execQueue, t)
  /\ UNCHANGED <<poolVars, answer, scan, bundleQueue, mode, build, eventVars, chainVars>>

\* the answer of the first validation, once t holds the mutex
Validate(t) ==
  /\ pc[t] = "validate"
  /\ execQueue[1] = t
  /\ \/ ~SlotUsed(arg[t]) /\ Goto(t, "admit")
     \/ Goto(t, "fail")
  /\ UNCHANGED <<poolVars, arg, answer, scan, lockVars, mode, build, eventVars, chainVars>>

\* sendNextBundle is called and asks for BundleManager's mutex
SendNextBundle(t) ==
  /\ Goto(t, "scan")
  /\ scan' = [scan EXCEPT ![t].then = "create"]
  /\ bundleQueue' = Append(bundleQueue, t)

\* addUserOp, and the test of attemptBundle(false) when it has not thrown
Admit(t) ==
  /\ pc[t] = "admit"
  /\ \/ /\ InsertUserOp(arg[t]) \/ ReplaceUserOp(arg[t])
        /\ IF Cardinality(mempool') >= mode[2] THEN SendNextBundle(t)
           ELSE Goto(t, "finish") /\ UNCHANGED <<scan, bundleQueue>>
     \/ /\ RejectUserOp(arg[t]) \/ RefuseReplacement(arg[t])
        /\ Goto(t, "fail")
        /\ UNCHANGED <<scan, bundleQueue>>
  /\ UNCHANGED <<arg, answer, execQueue, mode, build, eventVars, chainVars>>

\* attemptBundle(true), by the interval or by sendBundleNow
ForceBundle(t) ==
  /\ pc[t] = "idle"
  /\ (t \in DebugTask /\ DebugRpc) \/ (t \in TimerTask /\ mode[1])
  /\ SendNextBundle(t)
  /\ UNCHANGED <<poolVars, arg, answer, execQueue, mode, build, eventVars, chainVars>>

\* a mutant of LeaveBundle: no finally, so that an exception keeps the mutex
LeaveOnReturn(t) ==
  /\ pc[t] \in {"return", "throw"}
  /\ IF pc[t] = "return" /\ mode[2] = 0
     THEN /\ Goto(t, "scan")
          /\ scan' = [scan EXCEPT ![t].then = "finish"]
     ELSE /\ Goto(t, IF pc[t] = "return" THEN "finish" ELSE "fail")
          /\ UNCHANGED scan
  /\ bundleQueue' = IF pc[t] = "return" THEN Tail(bundleQueue) ELSE bundleQueue
  /\ build' = NoBuild
  /\ UNCHANGED <<poolVars, arg, answer, execQueue, mode, eventVars, chainVars>>

\* sendNextBundle returns or throws, and its mutex is released either way
LeaveBundle(t) ==
  /\ pc[t] \in {"return", "throw"}
  /\ IF pc[t] = "return" /\ mode[2] = 0
     THEN /\ Goto(t, "scan")
          /\ scan' = [scan EXCEPT ![t].then = "finish"]
     ELSE /\ Goto(t, IF pc[t] = "return" THEN "finish" ELSE "fail")
          /\ UNCHANGED scan
  /\ bundleQueue' = Tail(bundleQueue)
  /\ build' = NoBuild
  /\ UNCHANGED <<poolVars, arg, answer, execQueue, mode, eventVars, chainVars>>

\* the call is over, and so is ExecutionManager's critical section
Reply(t, told) ==
  /\ Goto(t, "done")
  /\ answer' = [answer EXCEPT ![t] = told]
  /\ execQueue' = IF t \in RpcTask THEN Tail(execQueue) ELSE execQueue
  /\ UNCHANGED scan

\* attemptBundle is over; sendBundleNow scans once more
Finish(t) ==
  /\ \/ pc[t] = "fail" /\ Reply(t, "error")
     \/ pc[t] = "flushed" /\ Reply(t, "ok")
     \/ pc[t] = "finish" /\ t \notin DebugTask /\ Reply(t, "ok")
     \/ /\ pc[t] = "finish" /\ t \in DebugTask
        /\ Goto(t, "scan")
        /\ scan' = [scan EXCEPT ![t].then = "flushed"]
        /\ UNCHANGED <<answer, execQueue>>
  /\ UNCHANGED <<poolVars, arg, bundleQueue, mode, build, eventVars, chainVars>>

\* debug_bundler_setBundlingMode and setBundleInterval
SetAutoBundler ==
  /\ DebugRpc
  /\ mode' \in Modes \ {mode}
  /\ UNCHANGED <<poolVars, taskVars, lockVars, build, eventVars, chainVars>>
-----------------------------------------------------------------------------
(* BundleManager                                                           *)

BannedEntity(e) == GetStatus(e.paymaster) = BANNED \/ GetStatus(e.factory) = BANNED

\* "??" never looks at the count: a throttled entity gets no operation at all
ThrottledEntity(e) ==
  GetStatus(e.paymaster) = THROTTLED \/ GetStatus(e.factory) = THROTTLED

InBundle(sender, bundle) == \E i \in DOMAIN bundle : bundle[i].sender = sender

\* a mutant of Skipped: senders that are in the bundle are not remembered
SkippedByStatus(e, bundle) == BannedEntity(e) \/ ThrottledEntity(e)

Skipped(e, bundle) ==
  BannedEntity(e) \/ ThrottledEntity(e) \/ InBundle(e.sender, bundle)

\* createBundle goes on with the entries of b.todo: without an await it
\* passes over those it skips, removing the banned ones, and stops at the next
\* it validates.  The slots of the operations in judged are removed as well.
Loop(t, b, judged) ==
  LET len == Len(b.todo)
      kept == {i \in 1 .. len : ~Skipped(b.todo[i], b.bundle)}
      next == CHOOSE i \in kept \cup {len + 1} : \A j \in kept : i <= j
      banned == {b.todo[i] : i \in {j \in 1 .. next - 1 : BannedEntity(b.todo[j])}}
  IN  /\ RemoveEntries(UNION {FindBySenderNonce(e) : e \in judged \cup banned})
      /\ build' = [b EXCEPT !.todo = SubSeq(b.todo, next, len)]
      /\ Goto(t, IF next <= len THEN "revalidate"
                 ELSE IF b.bundle # <<>> THEN "prepare" ELSE "return")

buildUnchanged == <<repVars, arg, answer, scan, lockVars, mode, eventVars, chainVars>>

\* getSortedForInclusion: ascending by tip, equal tips as they come
SortedForInclusion ==
  {s \in [1 .. Cardinality(mempool) -> mempool] :
     /\ \A e \in mempool : \E i \in DOMAIN s : s[i] = e
     /\ \A i, j \in DOMAIN s : i < j => s[i].tip <= s[j].tip}

CreateBundle(t) ==
  /\ pc[t] = "create"
  /\ \E entries \in SortedForInclusion :
       Loop(t, [NoBuild EXCEPT !.todo = entries, !.known = KnownSenders], {})
  /\ UNCHANGED buildUnchanged

Candidate == Head(build.todo)
Rest == [build EXCEPT !.todo = Tail(@)]

\* the second validation fails: the slot of the operation is removed, whatever
\* it holds by now
RevalidateFails(t) ==
  /\ pc[t] = "revalidate"
  /\ Loop(t, Rest, {Candidate})
  /\ UNCHANGED buildUnchanged

\* a mutant of TouchesKnownSender: only the senders already in the bundle
TouchesBundled(op) ==
  \E i \in DOMAIN build.bundle :
    Account(build.bundle[i]) \in op.touches \ {Account(op)}

TouchesKnownSender(op) == (op.touches \ {Account(op)}) \cap build.known # {}

\* the rest of an iteration, when the paymaster's deposit is known
Include(t, op, b) ==
  IF op.paymaster = NoAddr \/ b.deposit[op.paymaster] >= op.prefund
  THEN Loop(t, [b EXCEPT !.bundle = Append(@, op),
                         !.gas = @ + op.gas,
                         !.deposit = [a \in Addr |->
                            IF a = op.paymaster THEN @[a] - op.prefund ELSE @[a]]], {})
  ELSE Loop(t, b, {})

RevalidateSucceeds(t) ==
  /\ pc[t] = "revalidate"
  /\ ~SlotUsed(Candidate)
  /\ LET op == Candidate IN
       IF TouchesKnownSender(op) THEN Loop(t, Rest, {})
       ELSE IF build.gas + op.gas > MaxBundleGas THEN Loop(t, [build EXCEPT !.todo = <<>>], {})
       ELSE IF op.paymaster # NoAddr /\ build.deposit[op.paymaster] = Unread
       THEN Goto(t, "balance") /\ UNCHANGED <<memVars, build>>
       ELSE Include(t, op, Rest)
  /\ UNCHANGED buildUnchanged

\* balanceOf has answered
BalanceOf(t) ==
  /\ pc[t] = "balance"
  /\ \E d \in Deposit :
       Include(t, Candidate, [Rest EXCEPT !.deposit[Candidate.paymaster] = d,
                                          !.balance[Candidate.paymaster] = d])
  /\ UNCHANGED buildUnchanged

\* balanceOf or getBalance (_selectBeneficiary) fails: createBundle throws
BuildFails(t) ==
  /\ pc[t] \in {"balance", "prepare"}
  /\ Goto(t, "throw")
  /\ UNCHANGED <<memVars, build, buildUnchanged>>

\* sendBundle up to the submission: the fee data, the nonce, the signature
Prepare(t) ==
  /\ pc[t] = "prepare"
  /\ build' = [build EXCEPT !.nonce = txCount]
  /\ Goto(t, "send")
  /\ UNCHANGED <<memVars, buildUnchanged>>

\* the node takes the transaction: a first one with its nonce, or in place
\* of a cheaper one
NodeAccepts(b) ==
  /\ b.nonce = txCount
  /\ pendingTx' = b.bundle
  /\ UNCHANGED <<head, log, txCount>>

sendUnchanged == <<arg, answer, scan, lockVars, mode, build, eventVars>>

\* eth_sendRawTransaction has answered, with the hash or with an error that is
\* not a FailedOp; the transaction may have been taken all the same
Send(t) ==
  /\ pc[t] = "send"
  /\ NodeAccepts(build) \/ UNCHANGED chainVars
  /\ Goto(t, "return")
  /\ UNCHANGED <<poolVars, sendUnchanged>>

\* the code of a missing method: checkFatal throws it on
SendFatal(t) ==
  /\ pc[t] = "send"
  /\ Goto(t, "throw")
  /\ UNCHANGED <<poolVars, sendUnchanged, chainVars>>

\* FailedOp(opIndex, reason) with reason AA1, AA2 or AA3: the entity that it
\* blames is discredited and its operation stays
SendBlames(t) ==
  /\ pc[t] = "send"
  /\ \E i \in DOMAIN build.bundle :
       LET op == build.bundle[i] IN
       \E blamed \in {op.sender, op.factory, op.paymaster} :
         IF blamed = NoAddr THEN UNCHANGED repVars ELSE CrashedHandleOps(blamed)
  /\ Goto(t, "return")
  /\ UNCHANGED <<memVars, sendUnchanged, chainVars>>

\* a mutant of SendDrops: opIndex is looked up among the pending operations
SendDropsPending(t) ==
  /\ pc[t] = "send"
  /\ \E op \in mempool : RemoveUserOp(op)
  /\ Goto(t, "return")
  /\ UNCHANGED <<sendUnchanged, chainVars>>

\* FailedOp with another reason: the operation is dropped
SendDrops(t) ==
  /\ pc[t] = "send"
  /\ \E i \in DOMAIN build.bundle : RemoveUserOp(build.bundle[i])
  /\ Goto(t, "return")
  /\ UNCHANGED <<sendUnchanged, chainVars>>
-----------------------------------------------------------------------------
(* The rest of the node, and the debug calls                               *)

Events(ops) == [i \in DOMAIN ops |-> [op |-> ops[i], block |-> head + 1]]

envUnchanged == <<poolVars, taskVars, lockVars, mode, build, eventVars>>

\* the pending bundle is mined: all of its operations, or it reverts
Mine ==
  /\ pendingTx # <<>>
  /\ head < MaxBlocks
  /\ \/ /\ \A i, j \in DOMAIN pendingTx : i # j => ~SameSlot(pendingTx[i], pendingTx[j])
        /\ \A i \in DOMAIN pendingTx : ~SlotUsed(pendingTx[i])
        /\ log' = log \o Events(pendingTx)
     \/ UNCHANGED log
  /\ head' = head + 1
  /\ txCount' = txCount + 1
  /\ pendingTx' = <<>>
  /\ UNCHANGED envUnchanged

\* another bundler includes an operation
MineElsewhere ==
  /\ head < MaxBlocks
  /\ \E op \in UserOp : ~SlotUsed(op) /\ log' = log \o Events(<<op>>)
  /\ head' = head + 1
  /\ UNCHANGED <<envUnchanged, pendingTx, txCount>>

\* debug_bundler_clearState, or clearMempool
DebugClearState ==
  /\ DebugRpc
  /\ mempool' = {} /\ entryCount' = [a \in Addr |-> 0]
  /\ ClearReputation \/ UNCHANGED repVars
  /\ UNCHANGED <<taskVars, lockVars, mode, build, eventVars, chainVars>>

Step(t) ==
  \/ HandlePastEvents(t) \/ BlockNumber(t) \/ PastEvents(t) \/ PastEventsFail(t)
  \/ Validate(t) \/ Admit(t) \/ LeaveBundle(t) \/ Finish(t)
  \/ CreateBundle(t) \/ RevalidateFails(t) \/ RevalidateSucceeds(t)
  \/ BalanceOf(t) \/ BuildFails(t) \/ Prepare(t)
  \/ Send(t) \/ SendFatal(t) \/ SendBlames(t) \/ SendDrops(t)

Next ==
  \/ \E t \in RpcTask, op \in UserOp : Submit(t, op)
  \/ \E t \in TimerTask \cup DebugTask : ForceBundle(t)
  \/ \E t \in Task : Step(t)
  \/ Listen
  \/ SetAutoBundler
  \/ Mine
  \/ MineElsewhere
  \/ DebugClearState

Spec == Init /\ [][Next]_vars

\* every call of the node is answered (ethers gives up after two minutes), and
\* the event loop runs what has been answered
Fairness == \A t \in Task : WF_vars(Step(t))

FairSpec == Spec /\ Fairness
-----------------------------------------------------------------------------
(* Properties                                                              *)

Waits == {"idle", "validate", "admit", "scan", "number", "query", "create",
          "revalidate", "balance", "prepare", "send", "return", "throw",
          "finish", "flushed", "fail", "done"}

TypeOK ==
  /\ MemTypeOK
  /\ pc \in [Task -> Waits]
  /\ arg \in [RpcTask -> UserOp \cup {NoOp}]
  /\ answer \in [Task -> {"none", "ok", "error"}]
  /\ scan \in [Task -> [from : Nat, at : Nat, then : {"none", "create", "finish", "flushed"}]]
  /\ execQueue \in Seq(RpcTask)
  /\ bundleQueue \in Seq(Task)
  /\ mode \in Modes
  /\ lastBlock \in Nat /\ heard \in Nat /\ head \in Nat /\ txCount \in Nat
  /\ pendingTx \in Seq(UserOp) /\ build.bundle \in Seq(UserOp) /\ build.todo \in Seq(UserOp)
  /\ \A i \in DOMAIN log : log[i].op \in UserOp /\ log[i].block \in 1 .. head

\* where a task is inside sendNextBundle's critical section
Building == {"create", "revalidate", "balance", "prepare", "send", "return", "throw"}

InSection(t) == pc[t] \in Building \/ (pc[t] \in {"number", "query"} /\ scan[t].then = "create")

(* One bundle at a time: a task inside sendNextBundle is the only one, so  *)
(* that no two bundles are built from the same mempool or sent with the    *)
(* same nonce; and the two mutexes are never lost or left twice, whatever  *)
(* throws inside them (runExclusive of both managers).                     *)
OneBundleAtATime ==
  /\ \A t1, t2 \in Task : InSection(t1) /\ InSection(t2) => t1 = t2
  /\ \A t \in Task : InSection(t) => Head(bundleQueue) = t
  /\ Range(execQueue) = {t \in RpcTask : pc[t] \notin {"idle", "done"}}
  /\ Range(bundleQueue) = {t \in Task : InSection(t) \/ (pc[t] = "scan" /\ scan[t].then = "create")}

Total(amounts) ==
  LET sum[n \in 0 .. Len(amounts)] == IF n = 0 THEN 0 ELSE sum[n - 1] + amounts[n]
  IN  sum[Len(amounts)]

GasOf(ops) == Total([i \in DOMAIN ops |-> ops[i].gas])
PrefundOf(a, ops) ==
  Total([i \in DOMAIN ops |-> IF ops[i].paymaster = a THEN ops[i].prefund ELSE 0])

(* A bundle has one operation per sender, never more gas than maxBundleGas,*)
(* and every paymaster's deposit, as read while it was built, covers the   *)
(* prefunds of all of its operations (createBundle).                       *)
BundleSound ==
  LET ops == build.bundle IN
  /\ \A i, j \in DOMAIN ops : ops[i].sender = ops[j].sender => i = j
  /\ GasOf(ops) = build.gas /\ build.gas <= MaxBundleGas
  /\ \A i \in DOMAIN ops :
       ops[i].paymaster # NoAddr =>
         PrefundOf(ops[i].paymaster, ops) <= build.balance[ops[i].paymaster]

(* No operation of a bundle reads the storage of another one's account,    *)
(* whichever of the two was taken first (the knownSenders test).           *)
NoForeignStorage ==
  \A i, j \in DOMAIN build.bundle :
    i # j => Account(build.bundle[j]) \notin build.bundle[i].touches

\* t's step in the bundle builder judges op, and drops its sender and nonce
Judges(t, op) ==
  /\ <<pc, build>>' # <<pc, build>>
  /\ \/ pc[t] = "create" /\ op \in mempool /\ BannedEntity(op)
     \/ pc[t] \in {"revalidate", "balance"} /\ op \in Range(build.todo)
          /\ (op = Candidate \/ BannedEntity(op))
     \/ pc[t] = "send" /\ op \in Range(build.bundle)

Outbid(e) == \E e2 \in mempool' : SameSenderNonce(e, e2) /\ CheckReplaceUserOp(e, e2)

(* An operation leaves the mempool for a cause: its inclusion was seen, it *)
(* was outbid, the bundle builder judged an operation of the same sender   *)
(* and nonce (failed validation, banned entity, FailedOp), or the operator *)
(* cleared the pool.  No interleaving of handlers loses one otherwise.  What *)
(* was judged may be the operation that e replaced during the await.       *)
RemovedForCause ==
  [][\A e \in mempool \ mempool' :
       \/ OnChain(e) \/ Outbid(e) \/ DebugClearState
       \/ \E t \in Task, op \in UserOp :
            Judges(t, op) /\ SameSenderNonce(op, e)]_mempool

Inclusions(a, I) == Involving(a, I) + Deploying(a, I)

(* Every event before lastBlock has been counted, exactly once, and none   *)
(* after it: holds where scans run under the mutex only, nothing listens   *)
(* and nobody resets the counters (handlePastEvents, handleEvent).         *)
CountedExactly ==
  \A a \in Addr :
    opsIncluded[a] = Inclusions(a, {i \in DOMAIN log : log[i].block < lastBlock})

(* Under the same conditions lastBlock never moves back.                   *)
ScansAdvance == [][lastBlock' >= lastBlock]_lastBlock

(* What the comment on handlePastEvents says: it processes the new events  *)
(* since the last run, so that no inclusion is counted twice.              *)
CountedAtMostOnce ==
  \A a \in Addr : opsIncluded[a] <= Inclusions(a, DOMAIN log)

(* What the comment on handlePastEvents also says: it processes all of the *)
(* new events, so that no inclusion before lastBlock stays uncounted.      *)
CountedAtLeastOnce ==
  \A a \in Addr :
    opsIncluded[a] >= Inclusions(a, {i \in DOMAIN log : log[i].block < lastBlock /\ i <= heard})

(* Every call is answered: no failure of the node, exception or            *)
(* interleaving leaves a mutex taken or a waiter forgotten.                *)
EveryCallEnds == \A t \in Task : pc[t] # "idle" ~> pc[t] = "done"
=============================================================================
