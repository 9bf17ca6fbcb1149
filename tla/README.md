# Bundlr in TLA+

Models, model checks and proofs for the ERC-4337 bundler of this repository
(`src/packages/bundler`, `validation-manager`, `sdk`, `utils`). Paths below
are relative to `src/packages` unless they begin with `src/`.

## 1. The system

A client sends a *user operation* by `eth_sendUserOperation`. The bundler
validates it, keeps it in a *mempool*, from time to time builds a *bundle* of
pending operations, validates each a second time, and submits the bundle as one
transaction `EntryPoint.handleOps`. It learns from the EntryPoint's events which
operations were included, and keeps a *reputation* of every account, paymaster
and factory from what it saw and what was included.

| component | state | operations | talks to |
|---|---|---|---|
| `ReputationManager` | `entries` (opsSeen, opsIncluded per address), black and white list | updateSeen/IncludedStatus, crashedHandleOps, hourlyCron, getStatus, checkStake, debug calls | called by the mempool, the bundle builder, the events |
| `MempoolManager` | `mempool`, `_entryCount` | addUserOp (insert, replace, refuse), removeUserOp by slot or hash, clearState, queries | ReputationManager |
| `EventsManager` | `lastBlock`, the aggregator of the current transaction | listener, handlePastEvents, handleEvent | node; MempoolManager, ReputationManager |
| `BundleManager` | a mutex, the locals of createBundle and sendBundle across awaits | sendNextBundle, createBundle, sendBundle | node; EventsManager, MempoolManager, ReputationManager, ValidationManager |
| `ExecutionManager` | a mutex, the bundling mode, the interval | sendUserOperation, attemptBundle, setAutoBundler, setReputationCron | ValidationManager, MempoolManager, BundleManager |
| `DebugMethodHandler` | none | debug_bundler_* | all of the above |
| `runBundler`, `BundlerServer` | where the start is, the options | start, deploy and fund on a local chain, preflight check, one request of one or more calls per connection | node; the handlers |
| `UserOpMethodHandler` | none; the await each call is at | eth_sendUserOperation, eth_estimateUserOperationGas, eth_getUserOperationReceipt, eth_getUserOperationByHash, eth_chainId | ExecutionManager, ValidationManager, node |
| `ValidationManager` | none; the locals of a validation across awaits | validateInputParameters, validateUserOp, getCodeHashes | node; tracer and parser |
| `TracerResultParser`, `BundlerCollectorTracer` | the tracer's levels, while a call is traced | the opcode and storage rules | the node's virtual machine |
| SDK: account classes | `isPhantom`, `senderAddress`; each creation's locals | create and sign operations, ask for nonce and address, poll for a receipt | node |
| SDK: `UserOperationEventListener`, `ERC4337EthersProvider`, `HttpRpcClient` | a promise and a time-out per awaited operation; the pending check of the chain id | send an operation, wait for its inclusion | node, the bundler's RPC |
| SDK: `DeterministicDeployer` | none; where a deployment is | deploy a proxy and a contract through it | node |
| `utils` | none | packing, hashing, getAddr, mergeStorageMap | |

JavaScript runs one thread: a handler is atomic between two `await`s, and
everything else may happen at an `await`. **The hard behaviours** follow from it:

* `createBundle` works on a copy of the mempool across many awaits, while
  operations are added, replaced, removed and cleared;
* `ExecutionManager`'s mutex covers `sendUserOperation` only, `BundleManager`'s
  `sendNextBundle` only; scans for events are also called outside both, and the
  listener takes neither;
* every call to the node may fail, be late, or take effect and fail;
* a replacement skips the checks that an insertion passes;
* the counts of the mempool are kept apart from the mempool itself;
* the server answers requests while it still checks whether it can work, and
  neither waits for the transactions its own start has sent;
* a second validation trusts code hashes which the first took in another request
  than the trace they vouch for;
* the SDK's listener lets a query, a subscription and a time-out race for one
  promise, and never clears the time-out;
* several operations of one account are created at once, while its deployment
  is found out by answers that may overtake each other.

What makes each component correct:

* reputation: standing improves for a cause only, a crash bans at once, the
  decay condemns nobody;
* mempool: one operation per sender and nonce, which gives way only to a better
  one; the counts which the limits read cover the pool; roles stay separate;
* bundles: one at a time; one operation per sender, gas and deposits within
  limits, no operation that reads another one's account;
* an operation leaves the mempool for a cause only;
* events: every inclusion is counted, once;
* calls: every one is answered, and with what became of it;
* validation: a second one that succeeds has seen the code of the first;
* the process stops for a cause, and runs only with what it needs;
* the SDK: what the client believes of account and operations is, or was, so on
  the chain, and whoever waits gets an end.

## 2. The modules

| module | models | kind |
|---|---|---|
| `Reputation` | ReputationManager, the debug calls on it | component |
| `Slots` | what the mempool promises to its users: a board of slots | abstract specification |
| `Mempool` (extends Reputation) | MempoolManager | component |
| `Bundler` (extends Mempool) | ExecutionManager, BundleManager, EventsManager, sendBundleNow, and the node as environment | composition |
| `Tracer` | BundlerCollectorTracer, and the virtual machine it watches as environment | component |
| `Rules` (extends Tracer) | tracerResultParser, parseCallStack, the storage map | pure algorithm on a trace |
| `Validation` | validateUserOp, for both of its callers, over changing contracts | component |
| `Gas` | calcPreVerificationGas and its own field | pure algorithm |
| `Handler` (extends Validation, Gas) | UserOpMethodHandler, ExecutionManager's mutex around a call, the debug proxy, `_filterLogs` | component |
| `Deployer` | DeterministicDeployer, several at once, and the chain it deploys on | component |
| `Server` (extends Handler, Deployer) | runBundler, initServer, BundlerServer | composition |
| `Account` | BaseAccountAPI and its subclasses: deployment phase, creation of operations | component |
| `Listener` (extends Account) | UserOperationEventListener, getUserOpReceipt | component |
| `Client` (extends Listener, Deployer) | wrapProvider, ERC4337EthersProvider and -Signer, HttpRpcClient; bundler and chain as environment | composition |
| `MCReputation`, `MCMempool`, `MCBundler`, `MCRules`, `MCServer`, `MCClient` | instances for TLC | |
| `ReputationProofs`, `MempoolProofs`, `BundlerProofs`, `RulesProofs`, `ServerProofs`, `ClientProofs` | theorems, each on the module it is named after and on those that one extends | proofs |
| `DeployerProofs` | lemmas on deployments, for `ServerProofs` and `ClientProofs` | proofs |
| `SequenceProofs` | lemmas on a mutex's queue, on sums, and on functions defined by recursion | proofs |

Definitions whose comment says "a mutant of it" are changed forms of the action
below them; no specification uses them.

**Reputation.** `opsSeen`, `opsIncluded` are total functions on the lower-cased
addresses: an entry of two zeros answers every query as a missing one does, so
creating (`_getOrCreate`) and deleting entries is invisible. Spellings are kept:
`Lower` is `toLowerCase`, and `GetStatus` lower-cases its argument but not the
lists, as lines 143-147 do. `CheckStake` takes whether the stake suffices
as a parameter.

**Mempool.** An operation is a record with sender, nonce, paymaster, factory and
the two fees; `entryCount` is `_entryCount` with 0 for a missing key. `addUserOp`
is four actions, by its branches: `InsertUserOp`, `ReplaceUserOp`,
`RefuseReplacement` (nothing changed yet) and `RejectUserOp` (the increments
stay: `checkReputation` and `checkMultipleRolesViolation` throw after them).
Increments and seen counts are part of the same actions. `removeUserOp` is
`RemoveUserOp` (by sender and nonce) and `RemoveUserOpByHash`. The fee comparison
`new >= old * 1.1` is in doubles: `RoundedUp` holds the old fees whose product is
rounded above the real one (10 is such: 11 does not replace it).

**Bundler.** Each call is a *task* with a program counter that names the await it
is at:

| `pc` | awaiting | code |
|---|---|---|
| `validate` | ExecutionManager's mutex, then the first validation | ExecutionManager.ts:39-48 |
| `admit` | (addUserOp and attemptBundle's test run next) | :49-59 |
| `scan` | BundleManager's mutex, or nothing when outside it | BundleManager.ts:61-65, ExecutionManager.ts:116-118, DebugMethodHandler.ts:43 |
| `number`, `query` | getBlockNumber, queryFilter | EventsManager.ts:38-40 |
| `create`, `revalidate`, `balance` | (start), second validation, balanceOf | BundleManager.ts:173-319 |
| `prepare`, `send` | balance, fee data, nonce and signature; the submission | :71-72, 93-144 |
| `return`, `throw` | leaving sendNextBundle | :60-77 |
| `finish`, `flushed`, `fail` | the caller's continuation | ExecutionManager.ts:115-121, DebugMethodHandler.ts:38-45 |

`Loop` is the part of `createBundle`'s loop between two awaits: it passes over
entries to skip, removes those of banned entities, and stops at the next one to
revalidate. The environment mines, reverts or forgets the pending transaction
(`Mine`), and other bundlers include operations (`MineElsewhere`). A submission
is taken by the node or not, whatever it answers; `FailedOp` answers name any
operation of the bundle (`SendBlames`, `SendDrops`); other errors and a missing
method are `Send` and `SendFatal`, which also stands for an exception while
the answer is parsed.

**Tracer.** The environment is the virtual machine: the EntryPoint calls the
entities in their order, each of which executes instructions of `Instr` in any
nesting of calls, creations, failures and ends of gas. `Collect` is the whole of
`step()` below the EntryPoint's frame, in the order of the code: history, out of
gas, EXT* addresses, code sizes, opcodes, storage, hashes. `CallEntity` is
`step()` at depth 1, which opens a level; `EndTrace` reconstructs the exit that
the tracer is not told of. A slot is a record: the padded address of somebody, a
hash of a block that begins with it plus an offset, or neither; only opcodes
that the rules tell apart are named. `steps` and `left` are history: what was executed, and the
frames in the order they were left. The properties speak of them, and the
operators of the parser only of what was collected.

**Rules.** `tracerResultParser`, where `S` is the set of staked
entities, accepts what is `Unconditional`, that is what no stake waives, and keeps `StakeSuffices(S)`, the storage
rules and the paymaster's context. A context has a number of words (`Contexts`): the tracer cuts what a
frame returned to 4000 characters (`Cut`), and the parser sees no context in what it cannot decode
(`Decoded`). `ResultParsed` is ValidationManager's decoding of what simulateValidation reverts with, which
has the context once more and is cut by the same line. The order in which the code throws is left out:
it decides the message only. `SlotNeeds` is the chain of lines 379-415. `Parse` is
parseCallStack's loop as a function defined by recursion on the number of records read, so
that theorems can be proved about it.

**Validation.** `val[t]` is the validation of a caller `t`: eth_sendUserOperation
(`"send"`, one at a time under ExecutionManager's mutex) or createBundle (`"bundle"`,
one at a time under BundleManager's). Its `at` names the await: `codes` (the hashes
of the contracts recorded before are compared), `simulate` (the trace, or the
`eth_call` of the unsafe mode), `hash` (the hashes of the contracts the trace
touched). `code[o]` is the version of everything that the validation of `o` touches; `Finish`
is the checks of the result, in the order of ValidationManager.ts:236-275. The time
range is that of `Window`, compared with the clock `now`. What the tracer and the
parser find is a nondeterministic choice here; it is the subject of `Tracer` and `Rules`.

**Handler.** A connection `h` has one request, the calls `todo[h]`, answered one
after another (`replies[h]`). `pc[h]` is the await the current call is at: `queue`
(ExecutionManager's mutex, `RunExclusive`), `validate`, `hash` (getUserOpHash, then
addUserOp), `attempt` (attemptBundle), `rehash` (the handler asks for the hash
again, outside the mutex), `simulate` and `estimate`, `event`, `receipt` and `tx`,
`network`. The mempool is what this needs of it: `rec[o]`, the hashes recorded with
`o`, or that it has no entry. `HandlerFails` is a failed request of the node at any
await, with what the code makes of it there; an exception always releases the mutex.
`FilterLogs` is `_filterLogs`, on logs that are told apart by kind and operation; `Scan` is a
turn of its loop, and `Found` the indices after all turns. `Grouped` says which logs the EntryPoint leaves in a transaction.

**Deployer.** `dep[t]` is the request to the node that `deterministicDeploy` of
program `t` is at. The node mines a transaction when it is sent (`instant`) or later
(`MineTx`), and takes none that would fail. It ends with `found` (there was code), `sent`, `refused` (the
creation reverts, since the contract is there by now: `CreationRefused`) or `failed` (`DeployFails`: any other exception).

**Server.** `phase` is where the process is, from `getNetwork` to `running`; `cfg` are
the options and what the node supports. `Listening` holds from the moment the
server is made, so requests are handled during the preflight check. `Exit` names
why the process stops. `CodeThere` is the answer of the preflight check at `config.entryPoint`, an option: the
address that the EntryPoint is deployed to, another one with code, or one without. An exception of the preflight check is caught by nobody and
ends the process, as one of `runBundler` does in `exec.ts`.

**Account.** `step[o]` is what the creation of `o` awaits: `code`/`coded` (initCode:
the account's code is asked for, and the answer has come), `gas`, `nonce`/`nonced`/`read`,
`sign`. `saw[o]` is the answer that is on its way: `checkAccountPhantom` stores it
when it arrives, after other creations may have stored theirs. `begun[o]` is
history, the account when the creation of `o` began.

**Listener.** `lsn[o]` is the listener's place, `timer[o]` whether its time-out is
still to come, `promise[o]` how the promise was settled: `Settle` has an effect once.
The query looks at the latest block only, and the subscription hears of blocks after
it was made; an event in between is lost, which the time-out ends. `poll[o]` is
getUserOpReceipt.

**Client.** wrapProvider deploys the factory, connects, and asks for the address,
without waiting for the creation to be mined; `rpc` is the check of the chain id, which
every later call of HttpRpcClient awaits. The chain executes an operation with the account's nonce, and
with code if and only if the account has none; blocks with other operations of the
account (`MineOther`) and empty ones are interleaved.

## 3. What is checked

Twelve runs; eight pass, four show a disagreement of the code with its comments.

| run | properties | shows |
|---|---|---|
| `reputation` | RepTypeOK, LiftedForCause, CrashedIsBanned, CronNeverWorsens | all sequences of calls, all lists over 3 spellings of 2 addresses |
| `mempool` | MemTypeOK, UniqueSenderNonce, SenderCountCovers, SenderLimit, RoleSeparation, BoardSpec | all orders of operations on a pool of 5 candidates, one of them in another spelling, reputation changing underneath |
| `bundler` | TypeOK, OneBundleAtATime, BundleSound, NoForeignStorage, RemovedForCause, BoardSpec | two RPC calls race with two ticks, a listener, the chain and failures |
| `bundler_debug` | OneBundleAtATime, RemovedForCause | sendBundleNow, clearState, changes between automatic, interval and manual mode; auto-mining's unlocked scan |
| `bundler_live` | CountedExactly, ScansAdvance, EveryCallEnds | exactly-once counting when only locked scans run; every call answered |
| `validation` | TracerTypeOK, AcceptedKeepsRules, RejectedBreaksRule, StorageMapSound, CallStackSound | the parser accepts exactly the validations whose every instruction was lawful, but for named corner cases; the storage map and the call stack are right |
| `server` | ServerTypeOK, BootForCause, RepliesSound, CodeFrozen, LogsComplete, QuoteShort, EveryRequestAnswered | every start on every kind of node; every method with every flaw while the server starts; two connections that send, clear and validate at once |
| `client` | ClientTypeOK, SettledByChain, DeployedForGood, CreatedFresh, WaitedDeployed, AddressForCause, EveryCallEnds | two operations of one account race with each other, with time-outs, failures and blocks; another program deploys the factory while the client starts |
| `sender_limit` | SenderLimit | violated when a replacement changes roles (MempoolManager.ts:86-91) |
| `counted_twice` | CountedAtMostOnce | violated by listener and scans (EventsManager.ts:36-59) |
| `factory_missed` | CountedAtLeastOnce | violated: the listener moves lastBlock past AccountDeployed (EventsManager.ts:27, 58) |
| `foreign_logs` | LogsOnlyOwn | violated: a receipt has the logs of the operations before it in the bundle (UserOpMethodHandler.ts:253) |

**Bounds.** `MaxOps` bounds the reputation counters and `MaxCount` the entry
counts (only refused operations raise these without end); the parameters are
scaled down so that each of the three standings and each limit is reached
within them. Each task runs once: two RPC calls, two ticks and one debug call
suffice for every pair of concurrent calls and for a call that waits on either
mutex while another is inside. `MaxBlocks` bounds the chain, which begins with block 1: one further block
lets an event fall before, in and after a scan; `bundler_debug`, whose subject is the pool, has none. `Window` (1000 in the code) is
larger than the chain, as on a young chain, which is where the maximum with 1
matters. Timers stop and tasks end, so
`CHECK_DEADLOCK FALSE` is set in the Bundler runs; that no call waits for ever is
`EveryCallEnds`, not a deadlock check. Tasks of one kind are interchangeable:
`Symmetry` is used in the safety runs only.

In `validation`, `MaxSteps` = 3 instructions beside those that end frames
let a hash be computed, a token be called and its slot be accessed, by an
operation with a paymaster and by one with a factory as well (`Operations`); `OneFamily` keeps storage accesses, special calls
and other opcodes apart in one validation, since no rule relates them. The
corner cases which the two properties on rules name are what the code does: the
history is emptied when a frame ends, so that an `EXT*` opcode just before is not
looked at and an `EXTCODESIZE` just after is; and the name of a failed plain
call is lost (`TracerResultParser.ts:108`), so that of the EntryPoint it is taken for a
forbidden one. Such a call is known in `steps` by the `callee` of the frame that reverts:
where the frame's code runs (`at`) would not do, for a `DELEGATECALL` of the
EntryPoint runs it at the caller's address. A validation ends, hence
`CHECK_DEADLOCK FALSE`. `Contexts` are 0, 48 and 60 words: none; one that the parser still sees although
the result of simulateValidation is cut already; and one that the parser does not see (from 60 words on).

In `bundler_live`, `CrashPenalty` exceeds `MaxOps`, so that `SendBlames` is enabled
only when it blames nobody: a crash sets opsIncluded to 0 and `CountedExactly`
speaks of its value. `Listening` is `FALSE` there and the mode never asks for an
unlocked scan: those are the conditions under which counting is exact, and
`counted_twice` and `factory_missed` drop them.

In `server`, `MCInit` is a part of `Init` and of the states it leads to, in three
scenarios: `Booting` (no request, all options and networks, an EntryPoint at each kind of address, two programs deploying),
`Starting` (a request with one call of each method with each flaw, or one of two
batches, from the start on, with the debug methods disabled too) and `Concurrent` (two connections to a server that
runs, one that sends and one that sends the same or another operation or clears
the pool, while bundles revalidate). Their product would be too large, and what
they leave apart does not interact: the start shares no state with the calls but
`phase` and `debugRpc`. `MaxCode` = 1 change of a contract is enough for each
validation to see an old and a new one; `MaxTime` = 2 with `Soon` = 1 makes the time
ranges of `Window` begin, hold and come too close to their end; the
values of `Rest` (46000 and 65770) put the cost of one operation below and of the other above
2^16, where the field of the quote gets its third byte; the estimates sent back are of operations without
the field, with an earlier estimate in it (65770) and with the one after that (65794), which suffices; `MCTx` are a transaction
of `handleOps` with two operations of two logs each, and one of another contract that calls
`handleOps` twice. `foreign_logs` is the same instance. A request may be answered and the process may end, hence
`CHECK_DEADLOCK FALSE`.

In `client`, `MaxNonce` = 2 lets the account be used by both operations or by one and
elsewhere; two blocks (`MaxBlocks`) let an event fall before, between and
after query and subscription; one operation is awaited or polled for and the other
competes with it. How the node mines is varied only if there is something to
deploy. Another program deploys the factory too; it starts while the client does (`Rival`), and no block with operations
follows then, since it touches nothing but the factory and the address. Operations and blocks run out, hence `CHECK_DEADLOCK FALSE`.

**Fairness.** In `Bundler`, `FairSpec` has weak fairness of each task's steps: the event loop runs
a continuation whose promise has settled, and every promise awaited is settled,
since ethers' JSON-RPC provider rejects a request after 120 seconds. The mutexes
are FIFO (async-mutex), which the queues model. No fairness is assumed of clients,
ticks, the chain or the listener. `Server` has it of the start, of each
connection's calls and of each validation, for the same reason: every request to the
node ends in an answer or an error. `EveryRequestAnswered` then also needs
that the mutex goes round, which the queue gives. `Client` has it of wrapProvider,
of each operation's creation, listener and poll: timers fire, and node and bundler
answer or fail (an error is a step too). It has none of the chain: nothing need
ever be mined, and `EveryCallEnds` holds because the time-out does.

## 4. What is proved

For every value of the constants that satisfies the named assumptions
(`LowerAssumption`, `ParamsAssumption`, `UserOpAssumption`, `LimitsAssumption`, `OpAssumption`,
`BundlerAssumption`, `ValidationAssumption`, `GasAssumption`, `HandlerAssumption`, `InstrAssumption`,
`ServerAssumption`, `ClientAssumption`: kinds and bounds of the parameters, all of which TLC
evaluates in the runs). Four say more than a kind:

* `ParamsAssumption`: the crash penalty divided by the denominator exceeds the ban slack (10000/10 > 50);
* `GasAssumption`: an operation's pre-verification gas without its own field is at least the fixed
  overheads 21000 + 18300 (calcPreVerificationGas.ts) and below 2^31, so that the four varying bytes
  of the field suffice;
* `HandlerAssumption`: the logs of a transaction are `Grouped`, as handleOps emits them: validations,
  `BeforeExecution`, executions, each closed by its operation's event;
* `InstrAssumption`: the EntryPoint is none of the entities' contracts.

Every invariant and every action property that a passing run checks is stated by a theorem, some
under a further premise, which is then part of the theorem.

* `RepTypeCorrect`, `LiftedForCauseAlways`, `CrashedIsBannedAlways`,
  `CronNeverWorsensAlways`. The type invariant is inductive. The two last need
  arithmetic of `\div`: monotonicity of division, and that the cron's decayed
  opsIncluded is at least 22/24 of the decayed opsSeen, more than any
  denominator of at least 2 expects.
* `MemTypeCorrect`, `UniqueSenderNonceAlways`, and `MempoolImplementsBoard`: every
  step of the mempool is a step of `Slots` or leaves the board alone. The proof
  needs `UniqueSenderNonce` as invariant: with two operations in one slot, a
  replacement would leave one of them beside the new one.
* `RoleSeparationAlways`, `SenderCountCoversAlways`, `SenderLimitAlways`, under
  `RolesKept`: a replacement changes neither paymaster nor factory from or to an
  account. `SenderLimit` is not inductive. `CoverInv` strengthens it: the type
  invariant, a finite pool, `RoleSeparation`, and for each account that its
  roles *as a sender* never outnumber `entryCount`. An insertion adds one to both;
  a removal of an operation in which the address is a paymaster or a factory
  decrements the count but not the left side, and there `RoleSeparation` shows
  that the address then has no pending operations of its own; the leak of rejected
  operations only raises the count. The limit follows because an insertion is
  admitted only when the incremented count is within it. Without
  `RolesKept` it is false: run `sender_limit`.
* `OneBundleAtATimeAlways`, for any set of tasks. The property speaks of program
  counters and is not inductive. `MutexInv` ties them to the queues: the queue of
  BundleManager's mutex is duplicate-free and holds exactly the tasks that wait
  for it or are inside, and only its head is inside; the same for ExecutionManager's. A scan
  outside the mutex is told from one inside by what follows it (`scan[t].then`).
* `NoForeignStorageAlways`, for any set of operations. `BuildInv` says of
  createBundle's locals that every sender taken or still to be looked at is among
  `knownSenders`, that no operation taken reads an account of these but its own, that the
  senders taken are distinct, and that the candidate under revalidation is of none of them. The locals belong to the task inside the
  mutex, so the proof rests on `MutexInv`: no other task changes them during an await.
* `BundlerTypeCorrect`. `DataInv` has the parts that the invariants of the two proofs above lack:
  counts, log, scans, prefunds. The type of `build` alone needs the mutex, since
  `RevalidateSucceeds` takes the candidate that only the task inside has set.
* `BundleSoundAlways`, for any number of operations and any deposits. `CostInv` relates the running
  totals in createBundle's locals to the bundle: the gas is the sum over what was taken, what is
  left of a paymaster's deposit is what was read less the prefunds of its operations, and none of these is
  taken before the deposit is read. While a balance is awaited, the deposit is unread and the candidate's gas still
  fits. The sums (`Total`) are recursive functions; that they exist and are unique is `SumExists` and `SumUnique`.
* `BundlerImplementsBoard`: the refinement of `Slots` holds of the composition as well, with all tasks
  interleaved. Each step of `Bundler` that touches the mempool is one of its calls, a removal of several
  operations at once included.
* `RemovedForCauseAlways`: an action property, so proved of one step from the invariants above. The
  case that needs them is a removal after an await: the operation named is one the bundle
  builder took from the pool, hence an operation it judges.
* `ScansAdvanceLocked` and `CountedAtMostOnceLocked` under `ScansLocked` (no listener, no debug
  method, no mode that scans outside the mutex), and `CountedExactlyLocked` if, besides, the chain is not
  longer than the window of a query and no bundle is blamed for a crash. `ScanInv` says that every scan is the beginning of a
  sendNextBundle, hence inside the mutex, and that a query under way begins where `lastBlock` still is. So an
  event is credited when `lastBlock` passes it: the counts are at most (or exactly) those of
  the events before `lastBlock` (`Counted`). The
  premises are needed: runs `counted_twice` and `factory_missed` show what happens without.
* `ServerTypeCorrect`, `RepliesSoundAlways`, `CodeFrozenAlways`, for any connections,
  batches, operations, transactions and numbers of changes. `ServInv` has five
  parts. `MutexInv` as above: without it the head of the queue might not be there
  when it is removed. `CallInv`: a call in progress has had no effect unless it is
  between addUserOp and its answer, and each answer given fits what the call did.
  `ValInv`: the version a validation saw first is not newer than what it read later, so
  equality at the comparison means that nothing changed before. `SendInv`: the
  validation of eth_sendUserOperation is of the operation of the call that holds
  the mutex, hence what it records belongs to that operation. `RecInv`: no entry of the
  mempool has recorded a version the contracts have not reached.
* `BootForCauseAlways`, for any number of programs that deploy at once, and any EntryPoint. `BootInv`
  follows the start phase by phase: past the deployment it is done, past the funding
  the signer has its balance if the chain mines at once. It rests on `DoneInv`: a
  deployment that is done has left its contract on the chain or in the node's pool.
* `QuoteShortAlways`: an estimate of an operation without the field never adds that operation when it is sent back; one of an
  operation that has the field is too low only if it has more bytes that are not 0 than the field had; and a quote of the SDK
  is too low only if it has a third byte. `PaidInv` says of each call inside eth_sendUserOperation, past its first
  checks, and of each that has added an operation, that what it offers suffices (`Paid`). The arithmetic is that of base 256: the weights of `Place`, the four
  digits of a number below 2^32, and which of them differ from those of 21000.
* `LogsCompleteAlways`, for any `Grouped` logs of any length: no log of the operation is lost, and what is added is of the
  execution of operations before it. `FoundIs` says what the loop of `_filterLogs` has found after
  each log; it is proved by induction over the logs, and `ChainInv` says that only a transaction with the
  operation's event is ever asked for.
* `ClientTypeCorrect`, `SettledByChainAlways`, `DeployedForGoodAlways`,
  `CreatedFreshAlways`, `WaitedDeployedAlways`, `AddressForCauseAlways`, for any number
  of operations, nonces and blocks. `AccInv` relates each answer on its way to the
  account as it was when it was asked for (`Fresh`); it needs that
  deployment is never undone and that the address is set before any creation. `LsnInv` adds
  to `SettledByChain` that a listener past the query has an event (`Heard`).
  `WaitInv` adds that an operation on the chain was sent, with a nonce below the
  account's (`Included`), so no two have the same.

* `TracerTypeCorrect`, for any instructions, in any nesting of frames and of any number. `TypeInv` has, beside the
  types, what the tracer's code takes for granted: a level is there whenever one is written to, the frames are
  those of one entity, the history has at most three opcodes.
* `CallStackAlways`: parseCallStack pairs every exit with its entry. `StackInv` relates the parser to the machine
  before the trace ends: the parser's stack has one entry per open frame, of that frame's
  address, and its output one per frame that was left. The outermost frame of an entity, which has no
  entry of its own, is the case that needs the shift by one.
* `StorageMapAlways`. `OrderInv` says that the entities come in their order and so do their steps; `AccessInv` says
  what a level keeps of the storage: the slots read before they were written, and the slots written, at each address.
* `RejectedAlways` and `AcceptedAlways`: the rules of the parser on what was collected are the rules on
  the instructions that were executed, for every trace and every set of staked entities. `RuleInv` is the conjunction of the
  above with one invariant for each thing the tracer collects: `OogInv`, `CountInv` and
  `GasInv` (opcodes; GAS is counted by the opcode that follows), `EmptyInv` (addresses without code when first met),
  `KeccakInv` (hashed blocks), `WindowInv` and `ExtInv` (the history of three opcodes, and what is recorded of EXT* opcodes from it),
  `EntryInv` (the entry of each frame against the instruction that opened it). Each says that a record is there if
  *and* only if there is a step that explains it; one direction gives acceptance, the other rejection. TLC checked `EntryInv` and `ContextInv`
  on the instance of `MCRules` before they were proved.
* `AcceptedAlways` has the premise `OnlyEntryPointValidates`: no traced contract calls the paymaster's
  validatePaymasterUserOp. The parser takes the first call of that name for the EntryPoint's own
  (TracerResultParser.ts:440-444), so it would look at another call's context. `ContextInv` shows that the entry it finds is then
  the right one. A context that the parser does not see (`Decoded`) is too long for `ResultParsed`, whatever its length. The instance of `MCRules` satisfies the premise; `RejectedAlways` does not need it.

**Recursion.** Theorems about recursive functions (`Total`, `Found`, `Parse`) rest on
`SequenceProofs`: a set of natural numbers that has 0 and with each number the next one has
all (`AllBelow`, from the well-foundedness of the natural numbers by way of the smallest number outside the set), and the function
that satisfies a recursion exists (`RecursionExists`). Both are stated with sets and functions, not with
operators as parameters, so that they can be instantiated.

**What the proofs corrected.** Three definitions had `CASE` arms that overlap (`CallEntry` in `Rules`, `Pop` in
`Tracer`, `Refusal` in `Validation`), of which TLC takes the first and the logic leaves the choice
open; they are chains of conditions as in the code now. The exception for failed plain calls in `RejectedBreaksRule`
named the wrong address (see *Bounds*), which the instance did not reach until it had a `DELEGATECALL` of the EntryPoint.

**Only model-checked.** Liveness: `EveryCallEnds` (of `Bundler` and of `Client`) and
`EveryRequestAnswered`, since the prover cannot express `ENABLED`, by which fairness is defined.
`CountedAtLeastOnce` and `LogsOnlyOwn` are refuted by their runs; `SenderLimit`
and `CountedAtMostOnce` are refuted without the premises of their theorems.

## 5. Abstractions, and what is not modelled

* In `Bundler` the validation is nondeterministic, but for one fact: an operation whose nonce
  was used on chain does not pass. The storage an operation's validation touches is
  part of the operation (`Op.touches`); that the storage map names all of it is
  `StorageMapSound`.
* `RemovedForCause` speaks of sender and nonce, as the code does: an operation that
  replaced another one during an await of the second validation leaves the pool
  with the judgement of the one it replaced (BundleManager.ts:249).
* Of the tracer: log records, the aggregator's part of a simulation, CALLCODE,
  STATICCALL and EXTCODECOPY (as the other calls and EXT* opcodes), and blocks hashed outside
  the lengths 21 to 511.
* Aggregators: the validation rejects operations that have one, so the code for
  them in mempool, reputation and events is unreachable.
* The storage map of `eth_sendRawTransactionConditional` and the merging to
  root hashes (BundleManager.ts:299-312); wording, logging and hexlifying.
* The node's reorganisations: events are never taken back in the code either.
* A nonce's spelling (`===` on strings): as for senders, `Mempool` checks one
  spelling aspect (the sender's), `Bundler` assumes one spelling per account.
* `setReputationCron` has no caller in the repository, so `HourlyCron` is an action
  of `Reputation` and `Mempool` but not of `Bundler`.
* Restart: nothing is persisted; the bundler starts again from `Init`.
* `Server` has its own, smaller view of the mempool (which operations have an entry,
  with which hashes), since `Mempool` and `Bundler` have the whole; replacement,
  reputation and limits appear there as the refusals `addUserOp` may throw.
* `code[o]` counts changes of all contracts an operation touches as one version, and never returns
  to an old one: a contract that is destroyed and created anew with the same code counts
  as changed. Hashes are taken as injective.
* `Gas` takes everything but the field itself as a number (`Rest`) and has four
  varying bytes of its 32.
* Several listeners, addresses and chain ids of one client: one account per client.

Not modelled:

* SDK intents and constants: the encoding of call data, and tables.
* What HttpRpcClient asks for and this bundler does not have (`eth_deleteUserOperation`,
  `eth_getUserOperations`, `eth_getValidNonceKey`): every such call is the `other`
  method of `Handler`, which is refused with -32601.
* The encodings and signatures of SimpleAccountAPI and SafeAccountAPI, and of `utils`: data.
* Configuration (reading files and the command line), `--createMnemonic`, the runner (a
  command-line example over the SDK): I/O before or around what is modelled.
* Contracts: external; build, deployment and docker: no program logic.

Differences between code and text that were met and that no run shows:

* ReputationManager.ts:84 computes the decayed opsIncluded from opsSeen; the comment at
  line 78 speaks of a backoff of both values. `HourlyCron` does what the code does; that it worsens
  no standing all the same is `CronNeverWorsens`.
* ReputationManager.ts:16 and BundleManager.ts:179 allow throttled entities a few operations per bundle; `=== THROTTLED ??`
  (BundleManager.ts:206, 219) never evaluates its right side, so they are allowed none, and `ThrottledEntity` skips them all. In
  particular an operation that is alone in the mempool is never looked at.
* BundlerCollectorTracer.ts:283 counts GAS "only if not followed by "CALL""; line 282 takes every opcode with CALL in its
  name for a call, so GAS before CALLER, CALLVALUE or CALLDATALOAD is accepted. `LawfulOpcode` wants a call there;
  `LooksLikeCall` names the exception in `AcceptedKeepsRules` and `RejectedBreaksRule`.
* BaseAccountAPI.ts:234 says of the account's address that it "is valid even before deploying the contract"; on a chain that mines
  later, wrapProvider asks for it before the factory's creation is mined and keeps the zero address.
  `AddressForCause` says that this is the only case.
* DeterministicDeployer.ts:25 says "deploy the contract, unless already deployed"; the code is looked for several requests before
  the creation is sent, and a program that another one has overtaken meanwhile throws (`CreationRefused`).
* BundleManager.ts:85 says that sendBundle removes what it has sent; it removes
  nothing until the event arrives, so a bundle may be sent again while it is pending.
* `_filterLogs` gives an operation no logs at all if `handleOps` is called again later in its transaction, since the second
  BeforeExecution moves both indices behind its event. `FilterLogs` does so too; `LogsComplete` speaks of one call of
  `handleOps`, `LogsOnlyOwn` of logs that do not belong.
* A paymaster's context of more than 48 words makes the trace's copy of simulateValidation's result too long for line 164 of
  BundlerCollectorTracer.ts; its decoding throws, and the operation is refused, also if the paymaster is staked. So
  the parser's own blindness for contexts from 60 words on (TracerResultParser.ts:113-116) lets no operation
  pass, which `AcceptedKeepsRules` states and `AcceptedAlways` proves for every length.
* ValidationManager.ts:78-98 expects a paymaster in `FailedOp`; the EntryPoint's error of
  version 0.6.0 has none, so that -32501 is never answered.
* The first estimate of an operation that has no preVerificationGas is too low when it is sent back, since it counts that field as
  0; an estimate made with an earlier one in the field has fewer bytes to add: `QuoteShort`.
* On a chain that mines later the server may stop for a missing EntryPoint or an empty signer, since its start waits for
  neither transaction; an `--entryPoint` other than the one it deploys is not deployed at all: `BootForCause`.
* A rejected preflight check is handled by nobody, and ends the process.
* The listener's `stop()` names another event key than `once()` has registered
  (UserOperationEventListener.ts): the subscription stays.

## 6. Plan

Done: Reputation, Mempool, Bundler, Tracer, Rules; Validation, Gas, Handler, Server; Deployer, Account,
Listener, Client; the theorems above.

Left, in order:

1. The merged storage map of the conditional submission (`mergeStorageMap`,
   BundleManager.ts:299-312) as a pure algorithm, checked against a definition.
2. `Handler`'s mempool as a refinement: that each of its steps is one of `Mempool`'s.
3. The lists' spelling and the standing of accounts in bundles, if the code or a doc
   comes to promise something about them.
