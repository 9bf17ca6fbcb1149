-------------------------------- MODULE Server --------------------------------
(***************************************************************************)
(* The bundler as a process: runBundler from its options to a listening    *)
(* server, BundlerServer's preflight check, which runs while requests      *)
(* already arrive, and the requests, one call or a batch each.             *)
(***************************************************************************)
EXTENDS Handler, Deployer

CONSTANTS Me      \* this process, among those that deploy the EntryPoint

ASSUME ServerAssumption == Me \in DeployTask /\ NoTx \notin Tx

VARIABLES
  phase,   \* where the process is
  cfg,     \* the options and the network it was started with
  signer,  \* the signer's balance: "empty", "pending" (a transfer) or "funded"
  why      \* why the process has exited

bootVars == <<phase, cfg, signer, why>>
vars == <<valVars, handlerVars, depVars, bootVars>>

Boot == {"network", "deploy", "balance", "fund", "conditional", "trace"}
Alive == phase # "exited"
Listening == phase \in {"preflight", "simulate", "signer", "announce", "running"}

Config == [local : BOOLEAN,          \* chain id 1337 or 31337
           debugRpc : {"unset", "yes", "no"},
           conditional : BOOLEAN,    \* conditionalRpc
           hasConditional : BOOLEAN, \* what the node supports
           hasTrace : BOOLEAN,
           entryPoint : {"usual", "other", "nowhere"},  \* its address: the one deployed to,
                                     \* another with code, or another without
           version : BOOLEAN]        \* whether the EntryPoint there is of the right version

ServerTypeOK ==
  /\ ValTypeOK /\ HandlerTypeOK /\ DepTypeOK
  /\ phase \in Boot \cup {"preflight", "simulate", "signer", "announce", "running", "exited"}
  /\ cfg \in Config
  /\ signer \in {"empty", "pending", "funded"}
  /\ why \in {"", "node", "deploy", "conditional", "trace", "code", "version", "balance"}

Init == /\ ValInit /\ HandlerInit /\ DepInit
        /\ todo \in [Conn -> Seq(Call)]
        /\ cfg \in Config
        /\ debugRpc = (cfg.debugRpc = "yes")
        /\ phase = "network"
        /\ signer \in {"empty", "funded"}
        /\ why = ""

-----------------------------------------------------------------------------
Enter(from, to) == phase = from /\ phase' = to /\ UNCHANGED <<cfg, signer, why>>
Exit(from, cause) == /\ phase = from /\ phase' = "exited" /\ why' = cause
                     /\ UNCHANGED <<cfg, signer>>
OnlyBoot == UNCHANGED <<valVars, handlerVars, depVars>>

\* getNetwork: on a local chain the debug methods are enabled unless an option
\* says otherwise, and the EntryPoint is deployed
GetNetwork == /\ Enter("network", IF cfg.local THEN "deploy" ELSE "conditional")
              /\ debugRpc' = (cfg.debugRpc = "yes" \/ (cfg.local /\ cfg.debugRpc = "unset"))
              /\ UNCHANGED <<valVars, todo, replies, pc, queue, rec, mined, did, depVars>>
Deployment(t) == /\ Alive
                 /\ \/ DeployStep(t)
                    \/ (t = Me => phase = "deploy") /\ Deploy(t)
                 /\ UNCHANGED <<valVars, handlerVars, bootVars>>
EntryPointDeployed == dep[Me] \in Finished /\ Enter("deploy", "balance") /\ OnlyBoot

\* the signer is given 1 ETH if it has nothing; the transfer is not waited for
WalletBalance == /\ Enter("balance", IF signer = "empty" THEN "fund" ELSE "conditional")
              /\ OnlyBoot
\* (a mutant of it: nothing is sent)
FundNothing == Enter("fund", "conditional") /\ OnlyBoot
FundWallet == /\ phase = "fund" /\ phase' = "conditional"
              /\ signer' = IF instant THEN "funded" ELSE "pending"
              /\ UNCHANGED <<cfg, why>> /\ OnlyBoot

\* what the options require of the node; an error stands for a node without it
CheckConditional == /\ \/ cfg.conditional /\ Exit("conditional", "conditional")
                       \/ (cfg.conditional => cfg.hasConditional) /\ Enter("conditional", "trace")
                    /\ OnlyBoot
\* the server listens as soon as it is made; then the preflight check starts
CheckTrace == /\ \/ ~unsafe /\ Exit("trace", "trace")
                 \/ (~unsafe => cfg.hasTrace) /\ Enter("trace", "preflight")
              /\ OnlyBoot

\* config.entryPoint need not be the address that the EntryPoint was deployed to
CodeThere == \/ cfg.entryPoint = "usual" /\ "contract" \in onChain
             \/ cfg.entryPoint = "other"
PreflightCode == /\ IF CodeThere THEN Enter("preflight", "simulate") ELSE Exit("preflight", "code")
                 /\ OnlyBoot
\* an error is read as the answer of another version
PreflightSimulate == /\ \/ Exit("simulate", "version")
                        \/ cfg.version /\ Enter("simulate", "signer")
                     /\ OnlyBoot
PreflightBalance == /\ IF signer = "funded" THEN Enter("signer", "announce")
                                            ELSE Exit("signer", "balance")
                    /\ OnlyBoot
\* the network is asked for once more, only to be printed
Announce == Enter("announce", "running") /\ OnlyBoot

\* an exception: of the deployment, or of a request to the node.  runBundler's is
\* caught in exec.ts, that of the preflight check and of what follows by nobody;
\* either ends the process
Undeployed == dep[Me] \in Failed /\ Exit("deploy", "deploy") /\ OnlyBoot
BootFails == /\ phase \in {"network", "balance", "fund", "trace", "preflight", "signer", "announce"}
             /\ phase = "trace" => ~unsafe
             /\ Exit(phase, "node") /\ OnlyBoot

BootStep == \/ GetNetwork \/ EntryPointDeployed \/ WalletBalance \/ FundWallet \/ CheckConditional
            \/ CheckTrace \/ PreflightCode \/ PreflightSimulate \/ PreflightBalance
            \/ Announce \/ Undeployed \/ BootFails

-----------------------------------------------------------------------------
\* rpc: the calls of a request one after the other, then the response
Request(h) == /\ Listening /\ Move(h, "idle", "next")
              /\ UNCHANGED <<replies, valVars, inputVars, poolVars, queue, mined, depVars, bootVars>>
Response(h) == /\ Alive /\ Len(replies[h]) = Len(todo[h]) /\ Move(h, "next", "answered")
               /\ UNCHANGED <<replies, valVars, inputVars, poolVars, queue, mined, depVars, bootVars>>
Handle(h) == Alive /\ HandlerStep(h) /\ UNCHANGED <<depVars, bootVars>>
Validating(t) == Alive /\ ValidationStep(t) /\ UNCHANGED <<handlerVars, depVars, bootVars>>

Bundling == /\ Listening
            /\ Revalidated \/ \E o \in Op : Revalidate(o) \/ Forget(o)
            /\ UNCHANGED <<depVars, bootVars>>
\* External: the chain, and other contracts
Execute == Alive /\ (\E tx \in Tx : Mine(tx)) /\ UNCHANGED <<depVars, bootVars>>
Elsewhere == /\ Alive
             /\ Tick \/ \E o \in Op : ChangeCode(o)
             /\ UNCHANGED <<handlerVars, depVars, bootVars>>
MineTxs == Alive /\ (\E x \in Txs : MineTx(x)) /\ UNCHANGED <<valVars, handlerVars, bootVars>>
MineTransfer == /\ Alive /\ signer = "pending" /\ signer' = "funded"
                /\ UNCHANGED <<valVars, handlerVars, depVars, phase, cfg, why>>

Next == \/ BootStep \/ Bundling \/ Execute \/ Elsewhere \/ MineTxs \/ MineTransfer
        \/ \E t \in DeployTask : Deployment(t)
        \/ \E h \in Conn : Request(h) \/ Response(h) \/ Handle(h)
        \/ \E t \in Caller : Validating(t)
Spec == Init /\ [][Next]_vars

\* The event loop runs every continuation, and each request of the process to the
\* node ends in an answer or an error.
Fairness == /\ WF_vars(BootStep)
            /\ \A h \in Conn : WF_vars(Response(h) \/ Handle(h))
            /\ \A t \in Caller : WF_vars(Validating(t))
FairSpec == Spec /\ Fairness

-----------------------------------------------------------------------------
\* On a local chain that mines at once the process never stops for an empty signer,
\* and for a missing EntryPoint only if it was told of an address that the deployment
\* does not fill, whoever else deploys there; on a chain that mines later it may, since
\* neither transaction is waited for (runBundler.ts:137-155, BundlerServer.ts:62-104).
\* A server that runs has code at the EntryPoint it was told of, and what else it needs.
BootForCause ==
  /\ cfg.local /\ instant => /\ why # "balance"
                             /\ why = "code" => cfg.entryPoint = "nowhere"
  /\ phase = "running" => /\ CodeThere /\ signer = "funded"
                          /\ cfg.conditional => cfg.hasConditional

\* What a caller is told of eth_sendUserOperation is what became of the operation,
\* though the handler asks the node for its hash again after the mempool has
\* accepted it: only the node's error can hide an acceptance
\* (UserOpMethodHandler.ts:225-226, ExecutionManager.ts:39-60).  A debug method has
\* an effect exactly when it answers so, and no answer is found for an operation
\* that is not on the chain.
RepliesSound ==
  \A h \in Conn : \A i \in DOMAIN replies[h] :
    LET c == todo[h][i]   reply == replies[h][i] IN
    /\ c.method = "eth_sendUserOperation" =>
         /\ reply = "ok" => <<h, i>> \in did
         /\ <<h, i>> \in did => reply \in {"ok", "node"}
    /\ c.method = "debug_bundler_clearState" =>
         (reply = "ok" <=> <<h, i>> \in did) /\ (reply = "ok" <=> debugRpc)
    /\ c.method \in {"eth_getUserOperationReceipt", "eth_getUserOperationByHash"} /\ reply = "ok" =>
         mined[c.op] # NoTx

\* The second validation of an operation, with what the first has recorded, finds
\* every change of its contracts between the two: it succeeds only if the code was
\* still the recorded one when it began (ValidationManager.ts:224-234,254-256; a
\* change between the trace and the recording of one validation goes unseen).
CodeFrozen == In("bundle", "valid") /\ val["bundle"].prev \in Code
                => val["bundle"].began = val["bundle"].prev

\* "leave only logs for the given userOpHash" (UserOpMethodHandler.ts:239): every log
\* of a receipt that was returned is one of the execution of its operation.
Own(o) == [kind |-> "exec", op |-> o]
LogsOnlyOwn ==
  \A h \in Conn : \A i \in DOMAIN replies[h] :
    LET o == todo[h][i].op IN
    todo[h][i].method = "eth_getUserOperationReceipt" /\ replies[h][i] = "ok" =>
      ToSet(FilterLogs(o, mined[o].logs)) \subseteq {Own(o)}

\* What of that holds.  In the logs of one bundle, that is of one call of handleOps, no
\* log of the operation is lost, and no other one comes with them but those of the
\* execution of operations before it; so for the first of a bundle exactly its own logs
\* are left, in their number (UserOpMethodHandler.ts:239-271).
Positions(kind, logs) == {i \in DOMAIN logs : logs[i].kind = kind}
Before(e, logs) == {logs[i].op : i \in {j \in Positions("event", logs) : j < e}}
LogsComplete ==
  \A o \in Op : mined[o] # NoTx =>
    LET logs == mined[o].logs
        got == FilterLogs(o, logs)
        own == {i \in Positions("exec", logs) : logs[i].op = o}
    IN \A b \in Positions("begin", logs), e \in Positions("event", logs) :
         Positions("begin", logs) = {b} /\ logs[e].op = o =>
           /\ {logs[i] : i \in own} \subseteq ToSet(got) /\ Cardinality(own) <= Len(got)
           /\ \A l \in ToSet(got) : l = Own(o) \/ (l.kind # "deploy" /\ l.op \in Before(e, logs))
           /\ Before(e, logs) = {} => Len(got) = Cardinality(own)

\* An operation is never accepted with less preVerificationGas than it costs with that
\* value in its field.  So the first quote that eth_estimateUserOperationGas gives for
\* an operation without the field is always refused when it is sent back; one made for
\* an operation that has the field, as after an earlier quote, only if it has more bytes
\* that are not 0 than that field, so that after at most four refusals one is high
\* enough; one of the SDK only if it has a third byte, and a larger value by as much as
\* that byte costs never (calcPreVerificationGas.ts:61-85,
\* UserOpMethodHandler.ts:149-199, ValidationManager.ts:391-402).
QuoteShort ==
  \A h \in Conn : \A i \in DOMAIN replies[h] :
    LET c == todo[h][i] IN
    c.method = "eth_sendUserOperation" /\ c.flaw = "" =>
      /\ c.gas = "estimate" /\ c.from = 0 => <<h, i>> \notin did
      /\ TooLow(c.op, GasOf(c)) =>
           /\ <<h, i>> \notin did
           /\ \/ c.gas = "estimate" /\ NonZeroBytes(c.from) < NonZeroBytes(GasOf(c))
              \/ c.gas = "sdk" /\ GasOf(c) >= Place[3]

\* Every request is answered, each of its calls once, unless the process ends.
EveryRequestAnswered ==
  \A h \in Conn : pc[h] # "idle" ~> pc[h] = "answered" \/ phase = "exited"
=============================================================================
