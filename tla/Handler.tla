------------------------------- MODULE Handler -------------------------------
(***************************************************************************)
(* UserOpMethodHandler: what the methods of the RPC interface do between   *)
(* a call and its answer, over ExecutionManager's mutex, the validation,   *)
(* the mempool and the chain.  A connection has one call in progress.      *)
(***************************************************************************)
EXTENDS Validation, Gas, SequencesExt

CONSTANTS
  Conn,      \* HTTP connections; BOUND: each carries one request
  Tx,        \* the transactions the chain may come to hold
  NoTx

\* External: the logs of the EntryPoint in a transaction, each call of handleOps with
\* its validations first, then the executions, each closed by its operation's event
Grouped(logs) ==
  /\ logs \in Seq([kind : {"deploy", "begin", "exec", "event"}, op : Op \cup {NoOp}])
  /\ \A i, j \in DOMAIN logs : logs[i].kind = "event" /\ logs[j].kind = "event" /\ logs[i].op = logs[j].op => i = j
  /\ \A j, e \in DOMAIN logs : logs[e].kind = "event" /\ j <= e /\ logs[j].kind = "deploy"
       => \E b \in j .. e : logs[b].kind = "begin"
  /\ \A e \in DOMAIN logs : logs[e].kind = "event" => \E b \in 1 .. e : logs[b].kind = "begin"
  /\ \A j \in DOMAIN logs : logs[j].kind = "exec" =>
       \E e \in DOMAIN logs : /\ j < e /\ logs[e].kind = "event" /\ logs[e].op = logs[j].op
                            /\ \A i \in j .. e - 1 : logs[i] = logs[j]

ASSUME HandlerAssumption == /\ Op \subseteq DOMAIN Rest
                            /\ \A tx \in Tx : Grouped(tx.logs)

VARIABLES
  todo,      \* todo[h]: the calls of the request h carries, one or a batch
  replies,   \* replies[h]: the answers so far
  pc,        \* pc[h]: what its current call awaits
  queue,     \* ExecutionManager.mutex: the holder, then the waiters
  rec,       \* rec[o]: the code hashes of o's mempool entry, Undefined if it has none
  mined,     \* mined[o]: the transaction with the UserOperationEvent of o
  debugRpc,  \* the configuration's debugRpc
  did        \* history: the calls <<h, i>> that added to, or cleared, the mempool

poolVars == <<rec, did>>
inputVars == <<todo, debugRpc>>
handlerVars == <<todo, replies, pc, queue, rec, mined, debugRpc, did>>

Call == [method : {"eth_sendUserOperation", "eth_estimateUserOperationGas",
                   "eth_getUserOperationReceipt", "eth_getUserOperationByHash",
                   "eth_chainId", "web3_clientVersion", "debug_bundler_clearState", "other"},
         op : Op,
         gas : {"ample", "estimate", "sdk"},   \* where its preVerificationGas is from
         from : Nat,   \* if an estimate: that of the operation that was estimated
         flaw : {"", "noPoint", "otherPoint", "noOp", "field", "short"}]

HandlerTypeOK ==
  /\ todo \in [Conn -> Seq(Call)]
  /\ replies \in [Conn -> Seq({"ok", "null"} \cup ErrorCode)]
  /\ pc \in [Conn -> {"idle", "next", "queue", "validate", "hash", "attempt", "rehash", "simulate",
                      "estimate", "event", "receipt", "tx", "network", "answered"}]
  /\ queue \in Seq(Conn)
  /\ rec \in [Op -> Recorded]
  /\ mined \in [Op -> Tx \cup {NoTx}]
  /\ debugRpc \in BOOLEAN
  /\ did \subseteq Conn \X Nat

\* the operations a transaction executes
OpsOf(tx) == {tx.logs[i].op : i \in {j \in DOMAIN tx.logs : tx.logs[j].kind = "event"}}

HandlerInit == /\ replies = [h \in Conn |-> <<>>]
               /\ pc = [h \in Conn |-> "idle"]
               /\ queue = <<>>
               /\ rec = [o \in Op |-> Undefined]
               /\ mined \in {[o \in Op |-> NoTx]} \cup
                            {[o \in Op |-> IF o \in OpsOf(tx) THEN tx ELSE NoTx] : tx \in Tx}
               /\ did = {}

-----------------------------------------------------------------------------
Now(h) == todo[h][Len(replies[h]) + 1]    \* the call in progress
Calls(h, method) == pc[h] = "next" /\ Len(replies[h]) < Len(todo[h]) /\ Now(h).method = method
Move(h, from, to) == pc[h] = from /\ pc' = [pc EXCEPT ![h] = to]
Reply(h, x) == /\ replies' = [replies EXCEPT ![h] = Append(@, x)]
               /\ pc' = [pc EXCEPT ![h] = "next"]
Await(h, from, to) == Move(h, from, to) /\ UNCHANGED replies
Done(h) == did' = did \cup {<<h, Len(replies[h]) + 1>>}
Release == queue' = Tail(queue)
OnlyCall == UNCHANGED <<valVars, inputVars, poolVars, queue, mined>>

\* methods answered at once
ClientVersion(h) == Calls(h, "web3_clientVersion") /\ Reply(h, "ok") /\ OnlyCall
Unsupported(h) == Calls(h, "other") /\ Reply(h, "-32601") /\ OnlyCall

\* the debug handler, or the proxy that stands for it when it is not enabled
ClearState(h) ==
  /\ Calls(h, "debug_bundler_clearState")
  /\ IF debugRpc THEN Reply(h, "ok") /\ rec' = [o \in Op |-> Undefined] /\ Done(h)
                 ELSE Reply(h, "-32601") /\ UNCHANGED poolVars
  /\ UNCHANGED <<valVars, inputVars, queue, mined>>

ChainId(h) == /\ \/ Calls(h, "eth_chainId") /\ Await(h, "next", "network")
                 \/ pc[h] = "network" /\ Reply(h, "ok")
              /\ OnlyCall

-----------------------------------------------------------------------------
\* _validateParameters, in its order; "" when there is nothing to say
ParametersError(c) == CASE c.flaw \in {"noPoint", "field"} -> "-32602"
                        [] c.flaw \in {"otherPoint", "noOp"} -> "none"
                        [] OTHER -> ""
\* validateInputParameters: what it checks that the handler has not
GasOf(c) == CASE c.gas = "estimate" -> Estimate(c.op, c.from)
              [] c.gas = "sdk" -> SdkQuote(c.op)
              [] OTHER -> SdkQuote(c.op) + 48
\* (a mutant of it: the gas is not checked)
InputShort(c) == c.flaw = "short"
InputError(c) == c.flaw = "short" \/ TooLow(c.op, GasOf(c))

\* sendUserOperation: parameters, then all the rest under the mutex
SendUserOperation(h) ==
  /\ Calls(h, "eth_sendUserOperation")
  /\ IF ParametersError(Now(h)) # ""
       THEN Reply(h, ParametersError(Now(h))) /\ UNCHANGED queue
       ELSE Await(h, "next", "queue") /\ queue' = Append(queue, h)
  /\ UNCHANGED <<valVars, inputVars, poolVars, mined>>
RunExclusive(h) ==
  /\ pc[h] = "queue" /\ Head(queue) = h
  /\ IF InputError(Now(h))
       THEN Reply(h, "-32602") /\ Release /\ UNCHANGED valVars
       ELSE Await(h, "queue", "validate") /\ Validate("send", Now(h).op, Undefined) /\ UNCHANGED queue
  /\ UNCHANGED <<inputVars, poolVars, mined>>
\* (a mutant of it: an exception keeps the mutex)
ValidatedKeeps(h) ==
  /\ pc[h] = "validate"
  /\ \/ In("send", "valid") /\ Await(h, "validate", "hash") /\ UNCHANGED <<queue, valVars>>
     \/ In("send", "refused") /\ Reply(h, val["send"].error) /\ UNCHANGED queue /\ Return("send")
  /\ UNCHANGED <<inputVars, poolVars, mined>>
Validated(h) ==
  /\ pc[h] = "validate"
  /\ \/ In("send", "valid") /\ Await(h, "validate", "hash") /\ UNCHANGED <<queue, valVars>>
     \/ In("send", "refused") /\ Reply(h, val["send"].error) /\ Release /\ Return("send")
  /\ UNCHANGED <<inputVars, poolVars, mined>>
\* the hash is known; addUserOp adds the operation, or refuses it: it has the
\* operation already, or for reputation, or for the sender's limit
\* (a mutant of it: the checks come after the addition)
AddThenCheck(h) ==
  /\ pc[h] = "hash" /\ Return("send")
  /\ rec' = [rec EXCEPT ![Now(h).op] = val["send"].hashes]
  /\ Done(h)
  /\ \/ Await(h, "hash", "attempt") /\ UNCHANGED queue
     \/ Reply(h, "-32504") /\ Release
  /\ UNCHANGED <<inputVars, mined>>
AddUserOp(h) ==
  /\ pc[h] = "hash" /\ Return("send")
  /\ \/ /\ rec[Now(h).op] = Undefined
        /\ rec' = [rec EXCEPT ![Now(h).op] = val["send"].hashes]
        /\ Done(h)
        /\ Await(h, "hash", "attempt") /\ UNCHANGED queue
     \/ /\ \/ rec[Now(h).op] = Undefined /\ Reply(h, "-32504")
           \/ rec[Now(h).op] # Undefined /\ Reply(h, "-32602")
        /\ Release /\ UNCHANGED poolVars
  /\ UNCHANGED <<inputVars, mined>>
\* attemptBundle(false) returns; getUserOpHash is then asked for again
AttemptBundle(h) == /\ Await(h, "attempt", "rehash") /\ Release
                    /\ UNCHANGED <<valVars, inputVars, poolVars, mined>>
UserOpHash(h) == pc[h] = "rehash" /\ Reply(h, "ok") /\ OnlyCall

-----------------------------------------------------------------------------
\* estimateUserOperationGas; a missing operation fails before the parameters' check
EstimateGas(h) ==
  /\ \/ /\ Calls(h, "eth_estimateUserOperationGas")
        /\ IF ParametersError(Now(h)) # "" THEN Reply(h, ParametersError(Now(h)))
                                           ELSE Await(h, "next", "simulate")
     \/ Await(h, "simulate", "estimate")
     \/ pc[h] = "simulate" /\ Reply(h, "-32500")
     \/ pc[h] = "estimate" /\ \E x \in {"ok", "-32521"} : Reply(h, x)
  /\ OnlyCall

\* _getUserOperationEvent, all blocks; then the transaction or its receipt
QueryEvent(h, method, to) ==
  /\ \/ Calls(h, method) /\ IF Now(h).flaw = "field" THEN Reply(h, "-32601")
                                                     ELSE Await(h, "next", "event")
     \/ /\ pc[h] = "event" /\ Now(h).method = method
        /\ IF mined[Now(h).op] = NoTx THEN Reply(h, "null") ELSE Await(h, "event", to)
  /\ OnlyCall
GetUserOperationReceipt(h) == \/ QueryEvent(h, "eth_getUserOperationReceipt", "receipt")
                              \/ pc[h] = "receipt" /\ Reply(h, "ok") /\ OnlyCall
\* the operation is read from the arguments of a call of handleOps
GetUserOperationByHash(h) ==
  \/ QueryEvent(h, "eth_getUserOperationByHash", "tx")
  \/ /\ pc[h] = "tx"
     /\ Reply(h, IF mined[Now(h).op].call = "handleOps" THEN "ok" ELSE "none")
     /\ OnlyCall

\* the node fails a request; the mutex is released; a failed estimateGas is read
\* as a revert of the operation
HandlerFails(h) ==
  /\ pc[h] \in {"hash", "attempt", "rehash", "simulate", "estimate", "event", "receipt", "tx", "network"}
  /\ Reply(h, IF pc[h] = "estimate" THEN "-32521" ELSE "node")
  /\ IF pc[h] \in {"hash", "attempt"} THEN Release ELSE UNCHANGED queue
  /\ IF pc[h] = "hash" THEN Return("send") ELSE UNCHANGED valVars
  /\ UNCHANGED <<inputVars, poolVars, mined>>

HandlerStep(h) ==
  \/ ClientVersion(h) \/ Unsupported(h) \/ ClearState(h) \/ ChainId(h) \/ SendUserOperation(h)
  \/ RunExclusive(h) \/ Validated(h) \/ AddUserOp(h) \/ AttemptBundle(h) \/ UserOpHash(h)
  \/ EstimateGas(h) \/ GetUserOperationReceipt(h) \/ GetUserOperationByHash(h) \/ HandlerFails(h)

-----------------------------------------------------------------------------
\* createBundle validates an entry again; whatever goes wrong removes it
Revalidate(o) == /\ rec[o] # Undefined /\ Validate("bundle", o, rec[o])
                 /\ UNCHANGED handlerVars
Revalidated == /\ Return("bundle")
               /\ rec' = IF In("bundle", "valid") THEN rec ELSE [rec EXCEPT ![val["bundle"].op] = Undefined]
               /\ UNCHANGED <<todo, replies, pc, queue, mined, debugRpc, did>>

\* External: a transaction with operations of this or of another bundler
Mine(tx) == /\ \A o \in OpsOf(tx) : mined[o] = NoTx
            /\ mined' = [o \in Op |-> IF o \in OpsOf(tx) THEN tx ELSE mined[o]]
            /\ UNCHANGED <<valVars, todo, replies, pc, queue, rec, debugRpc, did>>
\* the event of a mined operation reaches EventsManager
Forget(o) == /\ mined[o] # NoTx /\ rec[o] # Undefined
             /\ rec' = [rec EXCEPT ![o] = Undefined]
             /\ UNCHANGED <<valVars, todo, replies, pc, queue, mined, debugRpc, did>>

-----------------------------------------------------------------------------
\* _filterLogs: start and end are the positions of two logs, 0 while not found
Scan(o, logs, i, found) ==
  CASE logs[i].kind = "begin" -> [start |-> i, end |-> i]
    [] logs[i].kind = "event" /\ logs[i].op = o -> [found EXCEPT !.end = i]
    [] logs[i].kind = "event" /\ logs[i].op # o /\ found.end = 0 -> [found EXCEPT !.start = i]
    [] OTHER -> found
Found(o, logs) ==
  LET at[i \in 0 .. Len(logs)] == IF i = 0 THEN [start |-> 0, end |-> 0] ELSE Scan(o, logs, i, at[i - 1])
  IN  at[Len(logs)]
\* (a mutant of it: the event itself is included)
FilterToEvent(o, logs) == SubSeq(logs, Found(o, logs).start + 1, Found(o, logs).end)
FilterLogs(o, logs) == SubSeq(logs, Found(o, logs).start + 1, Found(o, logs).end - 1)
=============================================================================
