---------------------------- MODULE ServerProofs ----------------------------
(* Theorems about the bundler's process: its start, the answers to its     *)
(* requests and the validations, for any number of connections, of calls   *)
(* in a batch, of operations, transactions and deploying programs.         *)
EXTENDS Server, DeployerProofs, SequenceProofs, FiniteSetTheorems

-----------------------------------------------------------------------------
(* The validations: their types, and that the code a validation has seen   *)
(* is not newer than the contracts                                         *)

Valid == [at : {"idle", "codes", "simulate", "hash", "valid", "refused"},
          op : Op \cup {NoOp}, prev : Recorded, result : Result,
          hashes : Recorded, began : Code, error : ErrorCode]

\* Contracts only change, they never return to what they were: what was read
\* first is not newer than what was read later; past the comparison the code was
\* the recorded one when the validation began.
Sound(v) ==
  /\ v.at # "idle" => v.op \in Op
  /\ v.op \in Op => /\ v.hashes \in Code => v.hashes <= code[v.op]
                    /\ v.prev \in Code => v.prev <= v.began /\ v.began <= code[v.op]
  /\ v.at \in {"simulate", "hash", "valid"} /\ v.prev \in Code => v.began = v.prev

ValInv == ValTypeOK /\ \A t \in Caller : Sound(val[t])

LEMMA ValTypes ==
  ValTypeOK = /\ unsafe \in BOOLEAN /\ now \in Time /\ code \in [Op -> Code]
              /\ val \in [Caller -> Valid]
  BY DEF ValTypeOK, Valid

\* What a step of caller t leaves alone
Others(t) == /\ \A u \in Caller \ {t} : val'[u] = val[u]
             /\ unsafe' = unsafe /\ now' = now /\ code' = code

LEMMA SetSound ==
  ASSUME ValInv, NEW t \in Caller, NEW v \in Valid, Sound(v), Set(t, v)
  PROVE  ValInv' /\ Others(t) /\ val'[t] = v
<1>1. val \in [Caller -> Valid]
  BY ValTypes DEF ValInv
<1>2. val' = [val EXCEPT ![t] = v] /\ unsafe' = unsafe /\ now' = now /\ code' = code
  BY DEF Set
<1>3. val' \in [Caller -> Valid] /\ val'[t] = v /\ \A u \in Caller \ {t} : val'[u] = val[u]
  BY <1>1, <1>2
<1>4. ValTypeOK'
  BY <1>2, <1>3 DEF ValInv, ValTypeOK, Valid
<1>5. \A u \in Caller : Sound(val[u])'
  BY <1>2, <1>3 DEF ValInv, Sound
<1>. QED
  BY <1>2, <1>3, <1>4, <1>5 DEF ValInv, Others

LEMMA IdleSound == Idle \in Valid /\ Sound(Idle) /\ Idle.at = "idle"
  BY ValidationAssumption DEF Idle, Valid, Sound, Recorded, Result, Code, ErrorCode

LEMMA StopSound ==
  ASSUME ValInv, NEW t \in Caller, val[t].at # "idle", NEW error \in ErrorCode, Stop(t, error)
  PROVE  ValInv' /\ Others(t) /\ val'[t].op = val[t].op /\ val'[t].at = "refused"
<1>. DEFINE v == [val[t] EXCEPT !.at = "refused", !.result = "",
                                !.error = IF t = "send" THEN error ELSE "none"]
<1>1. val[t] \in Valid /\ Sound(val[t])
  BY ValTypes DEF ValInv
<1>2. /\ v \in Valid /\ v.at = "refused" /\ v.op = val[t].op /\ v.hashes = val[t].hashes
      /\ v.prev = val[t].prev /\ v.began = val[t].began
  BY <1>1 DEF Valid, Result, ErrorCode
<1>3. Sound(v)
  BY <1>1, <1>2 DEF Sound
<1>4. Set(t, v)
  BY DEF Stop
<1>. HIDE DEF v
<1>. QED
  BY <1>2, <1>3, <1>4, SetSound

\* The checks of the result refuse or confirm, with hashes that are not newer
LEMMA FinishSound ==
  ASSUME ValInv, NEW t \in Caller, val[t].at \in {"simulate", "hash"}, NEW result \in Result,
         NEW hashes \in Recorded, hashes \in Code => hashes <= code[val[t].op],
         Finish(t, result, hashes)
  PROVE  ValInv' /\ Others(t) /\ val'[t].op = val[t].op /\ val'[t].at \in {"valid", "refused"}
<1>. DEFINE v == [val[t] EXCEPT !.at = "valid", !.hashes = hashes]
<1>1. val[t] \in Valid /\ Sound(val[t])
  BY ValTypes DEF ValInv
<1>2. CASE result = "" /\ TimeRange(val[t].op)
  <2>1. /\ v \in Valid /\ v.at = "valid" /\ v.op = val[t].op /\ v.hashes = hashes
        /\ v.prev = val[t].prev /\ v.began = val[t].began
    BY <1>1 DEF Valid
  <2>2. Sound(v)
    BY <1>1, <2>1 DEF Sound
  <2>3. Set(t, v)
    BY <1>2 DEF Finish
  <2>. HIDE DEF v
  <2>. QED
    BY <2>1, <2>2, <2>3, SetSound
<1>3. CASE ~(result = "" /\ TimeRange(val[t].op))
  <2>1. Refusal(val[t].op, result) \in ErrorCode
    BY <1>3 DEF Refusal, ErrorCode, Result
  <2>2. Stop(t, Refusal(val[t].op, result))
    BY <1>3 DEF Finish
  <2>. QED
    BY <2>1, <2>2, StopSound
<1>. QED
  BY <1>2, <1>3

\* The validation of t goes on, whatever it awaits
LEMMA ValidationSound ==
  ASSUME ValInv, NEW t \in Caller, ValidationStep(t)
  PROVE  ValInv' /\ Others(t) /\ val'[t].op = val[t].op /\ val[t].at # "idle" /\ val'[t].at # "idle"
<1>1. val[t] \in Valid /\ Sound(val[t]) /\ code \in [Op -> Code]
  BY ValTypes DEF ValInv
<1>2. CASE CompareCodes(t)
  <2>. DEFINE v == [val[t] EXCEPT !.at = "simulate"]
  <2>1. CASE code[val[t].op] = val[t].prev
    <3>1. /\ v \in Valid /\ v.at = "simulate" /\ v.op = val[t].op /\ v.hashes = val[t].hashes
          /\ v.prev = val[t].prev /\ v.began = val[t].began
      BY <1>1 DEF Valid
    <3>2. val[t].op \in Op /\ val[t].began \in Nat
      BY <1>1, <1>2 DEF CompareCodes, In, Sound, Valid, Code
    <3>3. v.prev \in Code => v.began = v.prev
      BY <1>1, <2>1, <3>1, <3>2, ValidationAssumption, SMTT(30) DEF Sound, Code
    <3>4. Sound(v)
      BY <1>1, <3>1, <3>2, <3>3 DEF Sound
    <3>5. Set(t, v) /\ val[t].at = "codes"
      BY <1>2, <2>1 DEF CompareCodes, In
    <3>. HIDE DEF v
    <3>. QED
      BY <3>1, <3>4, <3>5, SetSound
  <2>2. CASE code[val[t].op] # val[t].prev
    BY <1>2, <2>2, StopSound DEF CompareCodes, In, ErrorCode
  <2>. QED
    BY <2>1, <2>2
<1>3. CASE SimulationFails(t)
  BY <1>3, StopSound DEF SimulationFails, In, ErrorCode
<1>4. CASE Trace(t)
  <2>1. val[t].at = "simulate"
    BY <1>4 DEF Trace, In
  <2>2. CASE \E error \in {"111", "BUFFER_OVERRUN", "-32502"} : Stop(t, error)
    BY <2>1, <2>2, StopSound DEF ErrorCode
  <2>3. ASSUME NEW result \in Result, val[t].prev = Undefined,
               Set(t, [val[t] EXCEPT !.at = "hash", !.result = result])
        PROVE  ValInv' /\ Others(t) /\ val'[t].op = val[t].op /\ val'[t].at # "idle"
    <3>. DEFINE v == [val[t] EXCEPT !.at = "hash", !.result = result]
    <3>1. /\ v \in Valid /\ v.at = "hash" /\ v.op = val[t].op /\ v.hashes = val[t].hashes
          /\ v.prev = val[t].prev /\ v.began = val[t].began
      BY <1>1 DEF Valid
    <3>2. Sound(v)
      BY <1>1, <2>1, <2>3, <3>1 DEF Sound
    <3>3. Set(t, v)
      BY <2>3
    <3>. HIDE DEF v
    <3>. QED
      BY <3>1, <3>2, <3>3, SetSound
  <2>4. ASSUME NEW result \in Result, Finish(t, result, NoHashes)
        PROVE  ValInv' /\ Others(t) /\ val'[t].op = val[t].op /\ val'[t].at # "idle"
    BY <2>1, <2>4, FinishSound, ValidationAssumption DEF Recorded
  <2>. QED
    BY <1>4, <2>1, <2>2, <2>3, <2>4 DEF Trace
<1>5. CASE CallSimulation(t)
  BY <1>5, FinishSound, ValidationAssumption DEF CallSimulation, In, Recorded
<1>6. CASE GetCodeHashes(t)
  <2>1. val[t].op \in Op /\ val[t].at = "hash" /\ val[t].result \in Result
    BY <1>1, <1>6 DEF GetCodeHashes, In, Sound, Valid
  <2>2. code[val[t].op] \in Recorded /\ code[val[t].op] <= code[val[t].op]
    BY <1>1, <2>1, ValidationAssumption DEF Recorded, Code
  <2>. QED
    BY <1>6, <2>1, <2>2, FinishSound DEF GetCodeHashes
<1>7. CASE NodeFails(t)
  BY <1>7, StopSound DEF NodeFails, ErrorCode
<1>. QED
  BY <1>2, <1>3, <1>4, <1>5, <1>6, <1>7 DEF ValidationStep

\* A validation begins with hashes that are not newer than the contracts
LEMMA ValidateSound ==
  ASSUME ValInv, NEW t \in Caller, NEW o \in Op, NEW prev \in Recorded,
         prev \in Code => prev <= code[o], Validate(t, o, prev)
  PROVE  ValInv' /\ Others(t) /\ val'[t].op = o /\ val[t].at = "idle" /\ val'[t].at # "idle"
<1>. DEFINE v == [Idle EXCEPT !.at = IF prev \in Code THEN "codes" ELSE "simulate",
                              !.op = o, !.prev = prev, !.began = code[o]]
<1>1. code \in [Op -> Code]
  BY DEF ValInv, ValTypeOK
<1>2. /\ v \in Valid /\ v.op = o /\ v.prev = prev /\ v.hashes = NoHashes /\ v.began = code[o]
      /\ v.at = IF prev \in Code THEN "codes" ELSE "simulate"
  BY <1>1, IdleSound DEF Idle, Valid
<1>3. Sound(v)
  BY <1>1, <1>2, ValidationAssumption DEF Sound, Code
<1>4. Set(t, v) /\ val[t].at = "idle"
  BY DEF Validate, In
<1>. HIDE DEF v
<1>. QED
  BY <1>2, <1>3, <1>4, SetSound

LEMMA ReturnSound ==
  ASSUME ValInv, NEW t \in Caller, Return(t)
  PROVE  ValInv' /\ Others(t)
  BY SetSound, IdleSound DEF Return

\* Time passes, and a contract changes
LEMMA EnvironmentSound ==
  ASSUME ValInv, Tick \/ \E o \in Op : ChangeCode(o)
  PROVE  ValInv' /\ val' = val /\ \A o \in Op : code[o] <= code'[o]
<1>. USE DEF ValInv, ValTypeOK
<1>1. CASE Tick
  BY <1>1, ValidationAssumption DEF Tick, Time, Sound, Code
<1>2. ASSUME NEW o \in Op, ChangeCode(o)
      PROVE  ValInv' /\ val' = val /\ \A p \in Op : code[p] <= code'[p]
  <2>1. code' = [code EXCEPT ![o] = @ + 1] /\ val' = val /\ unsafe' = unsafe /\ now' = now
    BY <1>2 DEF ChangeCode
  <2>2. code' \in [Op -> Code] /\ \A p \in Op : code[p] <= code'[p]
    BY <1>2, <2>1, ValidationAssumption DEF ChangeCode, Code
  <2>3. ASSUME NEW t \in Caller
        PROVE  Sound(val[t])'
    <3>1. val[t] \in Valid /\ Sound(val[t])
      BY ValTypes
    <3>. QED
      BY <2>1, <2>2, <3>1, ValidationAssumption DEF Sound, Valid, Code
  <2>. QED
    BY <2>1, <2>2, <2>3
<1>. QED
  BY <1>1, <1>2

-----------------------------------------------------------------------------
(* The start                                                               *)

Funded == {"conditional", "trace", "preflight", "simulate", "signer", "announce", "running"}

(* What the process has made sure of, phase by phase                       *)
BootInv ==
  /\ DepTypeOK /\ DoneInv /\ signer \in {"empty", "pending", "funded"}
  /\ cfg.local /\ phase \in {"balance", "fund"} \cup Funded => dep[Me] \in Finished
  /\ cfg.local /\ instant => signer # "pending" /\ (phase \in Funded => signer = "funded")
  /\ cfg.entryPoint \in {"usual", "other", "nowhere"}
  /\ cfg.local /\ instant => why # "balance" /\ (why = "code" => cfg.entryPoint = "nowhere")
  /\ phase \in {"simulate", "signer", "announce", "running"} => CodeThere
  /\ phase \in {"announce", "running"} => signer = "funded"
  /\ phase \in Funded \ {"conditional"} /\ cfg.conditional => cfg.hasConditional

LEMMA BootOf ==
  ASSUME BootInv, DepTypeOK', DoneInv', Kept, UNCHANGED bootVars
  PROVE  BootInv'
  BY ServerAssumption DEF BootInv, Kept, bootVars, Funded, Finished, CodeThere

LEMMA BootSteps ==
  ASSUME BootInv, BootStep
  PROVE  BootInv'
<1>1. UNCHANGED depVars
  BY DEF BootStep, GetNetwork, EntryPointDeployed, WalletBalance, FundWallet, CheckConditional, CheckTrace,
         PreflightCode, PreflightSimulate, PreflightBalance, Announce, Undeployed, BootFails, OnlyBoot
<1>2. DepTypeOK' /\ DoneInv'
  BY <1>1 DEF BootInv, DepTypeOK, DoneInv, depVars
<1>. USE <1>1, <1>2 DEF BootInv, DoneInv, Funded, Finished, CodeThere, depVars, Enter, Exit
<1>3. CASE GetNetwork
  <2>1. CASE cfg.local
    BY <1>3, <2>1 DEF GetNetwork
  <2>2. CASE ~cfg.local
    BY <1>3, <2>2 DEF GetNetwork
  <2>. QED
    BY <2>1, <2>2
<1>4. CASE EntryPointDeployed
  BY <1>4, ServerAssumption DEF EntryPointDeployed
<1>5. CASE Undeployed
  BY <1>5 DEF Undeployed
<1>6. CASE WalletBalance
  BY <1>6 DEF WalletBalance
<1>7. CASE FundWallet
  BY <1>7 DEF FundWallet
<1>8. CASE CheckConditional \/ CheckTrace
  BY <1>8 DEF CheckConditional, CheckTrace
<1>9. CASE PreflightCode
  BY <1>9, ServerAssumption DEF PreflightCode
<1>10. CASE PreflightSimulate \/ Announce
  BY <1>10 DEF PreflightSimulate, Announce
<1>11. CASE PreflightBalance
  BY <1>11 DEF PreflightBalance
<1>12. CASE BootFails
  BY <1>12 DEF BootFails
<1>. QED
  BY <1>3, <1>4, <1>5, <1>6, <1>7, <1>8, <1>9, <1>10, <1>11, <1>12 DEF BootStep

LEMMA BootInvStep ==
  ASSUME BootInv, [Next]_vars
  PROVE  BootInv'
<1>1. CASE UNCHANGED <<depVars, bootVars>>
  BY <1>1 DEF BootInv, DepTypeOK, DoneInv, CodeThere, depVars, bootVars
<1>2. ASSUME NEW t \in DeployTask, Deployment(t)
      PROVE  BootInv'
  BY <1>2, DeployType, DeployKeeps, BootOf DEF Deployment, BootInv
<1>3. CASE MineTxs
  BY <1>3, MineTxType, MineKeeps, BootOf DEF MineTxs, BootInv
<1>4. CASE MineTransfer
  BY <1>4 DEF MineTransfer, BootInv, DepTypeOK, DoneInv, CodeThere, depVars, Funded
<1>5. CASE Bundling \/ Execute \/ Elsewhere
  BY <1>1, <1>5 DEF Bundling, Execute, Elsewhere
<1>6. CASE \/ \E h \in Conn : Request(h) \/ Response(h) \/ Handle(h)
           \/ \E t \in Caller : Validating(t)
  BY <1>1, <1>6 DEF Request, Response, Handle, Validating
<1>7. CASE UNCHANGED vars
  BY <1>1, <1>7 DEF vars
<1>. QED
  BY <1>2, <1>3, <1>4, <1>5, <1>6, <1>7, BootSteps DEF Next

(* On a local chain that mines at once the process never stops for an      *)
(* empty signer, and for a missing EntryPoint only if its options name an  *)
(* address without code other than the one deployed to; and it runs only   *)
(* with what it needs (runBundler.ts:137-155, BundlerServer.ts:62-104),    *)
(* however many others deploy on the chain.                                *)
THEOREM BootForCauseAlways == Spec => []BootForCause
<1>1. Init => BootInv
  BY DEF Init, Config, DepInit, BootInv, DepTypeOK, DoneInv, Steps, Txs, Funded
<1>2. BootInv /\ [Next]_vars => BootInv'
  BY BootInvStep
<1>3. BootInv => BootForCause
  BY DEF BootInv, BootForCause, Funded
<1>. QED
  BY <1>1, <1>2, <1>3, PTL DEF Spec

-----------------------------------------------------------------------------
(* The calls                                                               *)

Inside == {"validate", "hash", "attempt"}
Holding == {"queue"} \cup Inside

(* The mutex of ExecutionManager: its queue holds once each connection     *)
(* that waits for it or has it, and only the first is inside.              *)
MutexInv == /\ queue \in Seq(Conn) /\ Distinct(queue)
            /\ Range(queue) = {h \in Conn : pc[h] \in Holding}
            /\ \A h \in Conn : pc[h] \in Inside => queue[1] = h

\* The methods whose calls may be at p
Methods(p) == CASE p \in Holding \cup {"rehash"} -> {"eth_sendUserOperation"}
                [] p \in {"simulate", "estimate"} -> {"eth_estimateUserOperationGas"}
                [] p = "event" -> {"eth_getUserOperationReceipt", "eth_getUserOperationByHash"}
                [] p = "receipt" -> {"eth_getUserOperationReceipt"}
                [] p = "tx" -> {"eth_getUserOperationByHash"}
                [] p = "network" -> {"eth_chainId"}
                [] OTHER -> {}
Pending == Holding \cup {"rehash", "simulate", "estimate", "event", "receipt", "tx", "network"}
Stage == Pending \cup {"idle", "next", "answered"}
Answers == {"ok", "null"} \cup ErrorCode

(* A call in progress has had no effect unless it has just added to the    *)
(* mempool, and what it has found on the chain is there.                   *)
Progress(h) ==
  /\ Len(replies[h]) <= Len(todo[h])
  /\ pc[h] \in Pending => Len(replies[h]) < Len(todo[h]) /\ Now(h).method \in Methods(pc[h])
  /\ pc[h] \in {"receipt", "tx"} => mined[Now(h).op] # NoTx
  /\ pc[h] \in {"attempt", "rehash"} => <<h, Len(replies[h]) + 1>> \in did
  /\ \A i \in Nat : <<h, i>> \in did =>
       i <= Len(replies[h]) \/ (i = Len(replies[h]) + 1 /\ pc[h] \in {"attempt", "rehash"})

CallTypes == /\ todo \in [Conn -> Seq(Call)] /\ replies \in [Conn -> Seq(Answers)]
             /\ pc \in [Conn -> Stage] /\ mined \in [Op -> Tx \cup {NoTx}]
             /\ did \subseteq Conn \X Nat /\ debugRpc \in BOOLEAN

\* x may be the answer to the call c, the i-th of connection h, when those of d had an effect
Fits(c, h, i, x, d) ==
  /\ c.method = "eth_sendUserOperation" =>
       (x = "ok" => <<h, i>> \in d) /\ (<<h, i>> \in d => x \in {"ok", "node"})
  /\ c.method = "debug_bundler_clearState" =>
       (x = "ok" <=> <<h, i>> \in d) /\ (x = "ok" <=> debugRpc)
  /\ c.method \in {"eth_getUserOperationReceipt", "eth_getUserOperationByHash"} /\ x = "ok" =>
       mined[c.op] # NoTx

CallInv == /\ CallTypes
           /\ \A h \in Conn : Progress(h)
           /\ \A h \in Conn : \A i \in DOMAIN replies[h] : Fits(todo[h][i], h, i, replies[h][i], did)

LEMMA CurrentCall ==
  ASSUME CallTypes, NEW h \in Conn, Len(replies[h]) < Len(todo[h])
  PROVE  Now(h) \in Call /\ Now(h).op \in Op
<1>1. todo[h] \in Seq(Call) /\ replies[h] \in Seq(Answers)
  BY DEF CallTypes
<1>2. Len(replies[h]) + 1 \in 1 .. Len(todo[h]) /\ DOMAIN todo[h] = 1 .. Len(todo[h])
  BY <1>1
<1>3. Now(h) \in Call
  BY <1>1, <1>2 DEF Now
<1>. QED
  BY <1>3 DEF Call

\* What a step of h leaves of the rest, and what it may do to the mempool
Steady(h) == /\ UNCHANGED <<todo, mined, debugRpc>>
             /\ did' \in {did, did \cup {<<h, Len(replies[h]) + 1>>}}

LEMMA AnswerKeeps ==
  ASSUME CallInv, NEW h \in Conn, NEW x \in Answers, Len(replies[h]) < Len(todo[h]),
         Reply(h, x), Steady(h), Fits(Now(h), h, Len(replies[h]) + 1, x, did')
  PROVE  CallInv'
<1>. DEFINE k == Len(replies[h]) + 1
<1>1. /\ todo' = todo /\ mined' = mined /\ debugRpc' = debugRpc
      /\ replies' \in [Conn -> Seq(Answers)] /\ pc' \in [Conn -> Stage]
      /\ \A g \in Conn \ {h} : replies'[g] = replies[g] /\ pc'[g] = pc[g]
      /\ replies'[h] = Append(replies[h], x) /\ pc'[h] = "next"
  BY DEF CallInv, CallTypes, Reply, Steady, Stage
<1>2. /\ k \in Nat /\ Len(replies[h]) \in Nat /\ Len(replies'[h]) = k
      /\ DOMAIN replies'[h] = 1 .. k /\ DOMAIN replies[h] = 1 .. k - 1
      /\ replies'[h][k] = x
      /\ \A i \in 1 .. k - 1 : replies'[h][i] = replies[h][i]
  <2>1. replies[h] \in Seq(Answers)
    BY DEF CallInv, CallTypes
  <2>. QED
    BY <1>1, <2>1
<1>3. /\ did \subseteq did' /\ did' \subseteq Conn \X Nat
      /\ \A g \in Conn : \A i : <<g, i>> \in did' => <<g, i>> \in did \/ (g = h /\ i = k)
  BY <1>2 DEF Steady, CallInv, CallTypes
<1>4. CallTypes'
  BY <1>1, <1>3 DEF CallInv, CallTypes
<1>5. ASSUME NEW g \in Conn
      PROVE  Progress(g)'
  <2>. Progress(g)
    BY DEF CallInv
  <2>1. CASE g # h
    BY <1>1, <1>3, <2>1 DEF Progress, Now
  <2>2. CASE g = h
    <3>1. todo[h] \in Seq(Call) /\ Len(todo[h]) \in Nat
      BY DEF CallInv, CallTypes
    <3>2. \A i \in Nat : <<h, i>> \in did' => i <= k
      BY <1>2, <1>3, <2>2 DEF Progress
    <3>. QED
      BY <1>1, <1>2, <2>2, <3>1, <3>2 DEF Progress, Pending, Holding, Inside
  <2>. QED
    BY <2>1, <2>2
<1>6. ASSUME NEW g \in Conn, NEW i \in DOMAIN replies'[g]
      PROVE  Fits(todo[g][i], g, i, replies'[g][i], did')
  <2>1. CASE g # h \/ i # k
    <3>1. i \in DOMAIN replies[g] /\ replies'[g][i] = replies[g][i]
      BY <1>1, <1>2, <2>1
    <3>2. <<g, i>> \in did' <=> <<g, i>> \in did
      BY <1>3, <2>1
    <3>3. Fits(todo[g][i], g, i, replies[g][i], did)
      BY <3>1 DEF CallInv
    <3>. QED
      BY <3>1, <3>2, <3>3 DEF Fits
  <2>2. CASE g = h /\ i = k
    BY <1>2, <2>2 DEF Now
  <2>. QED
    BY <2>1, <2>2
<1>. QED
  BY <1>1, <1>4, <1>5, <1>6 DEF CallInv, Fits

\* h waits for something else, or has not yet begun or has ended its request
LEMMA MoveKeeps ==
  ASSUME CallInv, NEW h \in Conn, NEW to \in Stage, pc' = [pc EXCEPT ![h] = to], UNCHANGED replies,
         Steady(h),
         did' # did => to \in {"attempt", "rehash"} /\ Now(h).method = "eth_sendUserOperation",
         to \in Pending => Len(replies[h]) < Len(todo[h]) /\ Now(h).method \in Methods(to),
         to \in {"receipt", "tx"} => mined[Now(h).op] # NoTx,
         to \in {"attempt", "rehash"} => <<h, Len(replies[h]) + 1>> \in did',
         pc[h] \in {"attempt", "rehash"} => to \in {"attempt", "rehash"}
  PROVE  CallInv'
<1>. DEFINE k == Len(replies[h]) + 1
<1>1. /\ todo' = todo /\ mined' = mined /\ debugRpc' = debugRpc /\ replies' = replies
      /\ pc' \in [Conn -> Stage] /\ pc'[h] = to /\ \A g \in Conn \ {h} : pc'[g] = pc[g]
  BY DEF CallInv, CallTypes, Steady
<1>2. k \in Nat /\ replies[h] \in Seq(Answers) /\ DOMAIN replies[h] = 1 .. k - 1
  BY DEF CallInv, CallTypes
<1>3. /\ did \subseteq did' /\ did' \subseteq Conn \X Nat
      /\ \A g \in Conn : \A i : <<g, i>> \in did' => <<g, i>> \in did \/ (did' # did /\ g = h /\ i = k)
  BY <1>2 DEF Steady, CallInv, CallTypes
<1>4. CallTypes'
  BY <1>1, <1>3 DEF CallInv, CallTypes
<1>5. ASSUME NEW g \in Conn
      PROVE  Progress(g)'
  <2>. Progress(g)
    BY DEF CallInv
  <2>1. CASE g # h
    BY <1>1, <1>3, <2>1 DEF Progress, Now
  <2>2. CASE g = h
    <3>1. \A i \in Nat : <<h, i>> \in did' => i <= Len(replies[h]) \/ (i = k /\ to \in {"attempt", "rehash"})
      BY <1>2, <1>3, <2>2 DEF Progress
    <3>2. Now(h)' = Now(h)
      BY <1>1 DEF Now
    <3>. QED
      BY <1>1, <2>2, <3>1, <3>2 DEF Progress
  <2>. QED
    BY <2>1, <2>2
<1>6. ASSUME NEW g \in Conn, NEW i \in DOMAIN replies[g]
      PROVE  Fits(todo[g][i], g, i, replies[g][i], did')
  <2>1. <<g, i>> \in did' <=> <<g, i>> \in did
    BY <1>2, <1>3
  <2>. QED
    BY <2>1 DEF CallInv, Fits
<1>. QED
  BY <1>1, <1>4, <1>5, <1>6 DEF CallInv, Fits

-----------------------------------------------------------------------------
(* The mutex                                                               *)

LEMMA QueueKeeps ==
  ASSUME MutexInv, pc \in [Conn -> Stage], NEW h \in Conn, NEW to, pc' = [pc EXCEPT ![h] = to],
         queue' = queue, pc[h] \in Holding <=> to \in Holding, to \in Inside => queue[1] = h
  PROVE  MutexInv'
  BY DEF MutexInv

LEMMA QueueEnter ==
  ASSUME MutexInv, pc \in [Conn -> Stage], NEW h \in Conn, pc[h] \notin Holding,
         pc' = [pc EXCEPT ![h] = "queue"], queue' = Append(queue, h)
  PROVE  MutexInv'
<1>1. h \notin Range(queue)
  BY DEF MutexInv
<1>2. /\ queue' \in Seq(Conn) /\ Distinct(queue') /\ Range(queue') = Range(queue) \cup {h}
      /\ \A g \in Range(queue) : queue[1] = g => queue'[1] = g
  BY <1>1, Enqueued DEF MutexInv
<1>3. \A g \in Conn : pc'[g] = IF g = h THEN "queue" ELSE pc[g]
  OBVIOUS
<1>4. Range(queue') = {g \in Conn : pc'[g] \in Holding}
  BY <1>2, <1>3 DEF MutexInv, Holding
<1>5. \A g \in Conn : pc'[g] \in Inside => queue'[1] = g
  BY <1>2, <1>3 DEF MutexInv, Holding, Inside
<1>. QED
  BY <1>2, <1>4, <1>5 DEF MutexInv

LEMMA QueueLeave ==
  ASSUME MutexInv, pc \in [Conn -> Stage], NEW h \in Conn, pc[h] \in Holding, queue[1] = h,
         NEW to, to \notin Holding, pc' = [pc EXCEPT ![h] = to], Release
  PROVE  MutexInv'
<1>1. h \in Range(queue)
  BY DEF MutexInv
<1>2. queue' \in Seq(Conn) /\ Distinct(queue') /\ Range(queue') = Range(queue) \ {h}
  BY <1>1, Dequeued DEF MutexInv, Release
<1>3. \A g \in Conn : pc'[g] = IF g = h THEN to ELSE pc[g]
  OBVIOUS
<1>4. Range(queue') = {g \in Conn : pc'[g] \in Holding}
  BY <1>2, <1>3 DEF MutexInv
<1>5. \A g \in Conn : pc'[g] \notin Inside
  BY <1>3 DEF MutexInv, Holding
<1>. QED
  BY <1>2, <1>4, <1>5 DEF MutexInv

(* The validation of eth_sendUserOperation is of the operation of the call *)
(* that is inside, and what a mempool entry has recorded is not newer than *)
(* the contracts.                                                          *)
AtWork == {"validate", "hash"}
SendInv == \A h \in Conn : pc[h] \in AtWork => val["send"].op = Now(h).op
RecInv == rec \in [Op -> Recorded] /\ \A o \in Op : rec[o] \in Code => rec[o] <= code[o]

ReqInv == CallInv /\ MutexInv /\ ValInv /\ SendInv /\ RecInv

\* A step of a call that neither waits for the mutex nor has it
LEMMA Aside ==
  ASSUME ReqInv, NEW h \in Conn, NEW to, pc[h] \notin Holding, to \notin Holding,
         pc' = [pc EXCEPT ![h] = to], \A g \in Conn \ {h} : replies'[g] = replies[g],
         UNCHANGED <<valVars, queue, todo>>, rec' \in {rec, [o \in Op |-> Undefined]}, CallInv'
  PROVE  ReqInv'
<1>1. pc \in [Conn -> Stage] /\ \A g \in Conn : pc'[g] = IF g = h THEN to ELSE pc[g]
  BY DEF ReqInv, CallInv, CallTypes
<1>2. MutexInv'
  BY <1>1, QueueKeeps DEF ReqInv, Holding
<1>3. ValInv'
  BY DEF ReqInv, ValInv, ValTypeOK, Sound, valVars
<1>4. SendInv'
  BY <1>1 DEF ReqInv, SendInv, Now, AtWork, Holding, Inside, valVars
<1>5. RecInv'
  BY ValidationAssumption DEF ReqInv, RecInv, valVars, Recorded
<1>. QED
  BY <1>2, <1>3, <1>4, <1>5 DEF ReqInv

\* An answer of a call that does not have the mutex, and has done nothing
LEMMA PlainAnswer ==
  ASSUME ReqInv, NEW h \in Conn, NEW x \in Answers, pc[h] \notin Holding, Len(replies[h]) < Len(todo[h]),
         Reply(h, x), OnlyCall, Fits(Now(h), h, Len(replies[h]) + 1, x, did)
  PROVE  ReqInv'
<1>1. CallInv'
  BY AnswerKeeps DEF ReqInv, OnlyCall, inputVars, poolVars, Steady
<1>2. /\ pc' = [pc EXCEPT ![h] = "next"] /\ \A g \in Conn \ {h} : replies'[g] = replies[g]
      /\ UNCHANGED <<valVars, queue, todo, rec>>
  BY DEF Reply, OnlyCall, inputVars, poolVars, ReqInv, CallInv, CallTypes
<1>. QED
  BY <1>1, <1>2, Aside DEF Holding, Inside

LEMMA PlainAwait ==
  ASSUME ReqInv, NEW h \in Conn, NEW from, NEW to \in Stage \ Holding,
         from \notin Holding \cup {"rehash"}, to # "rehash",
         Await(h, from, to), OnlyCall, Len(replies[h]) < Len(todo[h]), Now(h).method \in Methods(to),
         to \in {"receipt", "tx"} => mined[Now(h).op] # NoTx
  PROVE  ReqInv'
<1>1. pc[h] = from /\ pc' = [pc EXCEPT ![h] = to] /\ UNCHANGED <<replies, valVars, queue, todo, rec>>
  BY DEF Await, Move, OnlyCall, inputVars, poolVars
<1>2. Steady(h) /\ did' = did
  BY DEF OnlyCall, inputVars, poolVars, Steady
<1>3. to \notin {"attempt", "rehash"} /\ pc[h] \notin {"attempt", "rehash"}
  BY <1>1 DEF Holding, Inside
<1>4. CallInv'
  BY <1>1, <1>2, <1>3, MoveKeeps DEF ReqInv
<1>. QED
  BY <1>1, <1>4, Aside

-----------------------------------------------------------------------------
(* Each step of a call                                                     *)

\* A call at its start, and one that is pending
LEMMA Calling ==
  ASSUME ReqInv, NEW h \in Conn, NEW method, Calls(h, method)
  PROVE  /\ pc[h] = "next" /\ Len(replies[h]) < Len(todo[h]) /\ Now(h).method = method
         /\ Now(h) \in Call /\ Now(h).op \in Op /\ <<h, Len(replies[h]) + 1>> \notin did
<1>1. pc[h] = "next" /\ Len(replies[h]) < Len(todo[h]) /\ Now(h).method = method
  BY DEF Calls
<1>2. replies[h] \in Seq(Answers) /\ Len(replies[h]) + 1 \in Nat
  BY DEF ReqInv, CallInv, CallTypes
<1>. QED
  BY <1>1, <1>2, CurrentCall DEF ReqInv, CallInv, Progress

LEMMA AtPending ==
  ASSUME ReqInv, NEW h \in Conn, pc[h] \in Pending
  PROVE  /\ Len(replies[h]) < Len(todo[h]) /\ Now(h).method \in Methods(pc[h])
         /\ Now(h) \in Call /\ Now(h).op \in Op
         /\ <<h, Len(replies[h]) + 1>> \in did <=> pc[h] \in {"attempt", "rehash"}
<1>1. Len(replies[h]) < Len(todo[h]) /\ Now(h).method \in Methods(pc[h])
  BY DEF ReqInv, CallInv, Progress
<1>2. replies[h] \in Seq(Answers) /\ Len(replies[h]) + 1 \in Nat
  BY DEF ReqInv, CallInv, CallTypes
<1>. QED
  BY <1>1, <1>2, CurrentCall DEF ReqInv, CallInv, Progress

\* An answer that needs nothing but the call
LEMMA StartAnswer ==
  ASSUME ReqInv, NEW h \in Conn, NEW method, Calls(h, method), NEW x \in Answers, Reply(h, x), OnlyCall,
         method = "debug_bundler_clearState" => x # "ok" /\ ~debugRpc,
         x = "ok" => method \notin {"eth_sendUserOperation", "eth_getUserOperationReceipt",
                                    "eth_getUserOperationByHash"}
  PROVE  ReqInv'
<1>1. /\ pc[h] = "next" /\ Len(replies[h]) < Len(todo[h]) /\ Now(h).method = method
      /\ <<h, Len(replies[h]) + 1>> \notin did
  BY Calling
<1>2. Fits(Now(h), h, Len(replies[h]) + 1, x, did)
  BY <1>1 DEF Fits
<1>3. pc[h] \notin Holding
  BY <1>1 DEF Holding, Inside
<1>. QED
  BY <1>1, <1>2, <1>3, PlainAnswer

LEMMA AtOnceKeeps ==
  ASSUME ReqInv, NEW h \in Conn, ClientVersion(h) \/ Unsupported(h)
  PROVE  ReqInv'
<1>1. CASE ClientVersion(h)
  <2>1. Calls(h, "web3_clientVersion") /\ Reply(h, "ok") /\ OnlyCall
    BY <1>1 DEF ClientVersion
  <2>. QED
    BY <2>1, StartAnswer DEF Answers
<1>2. CASE Unsupported(h)
  <2>1. Calls(h, "other") /\ Reply(h, "-32601") /\ OnlyCall
    BY <1>2 DEF Unsupported
  <2>. QED
    BY <2>1, StartAnswer DEF Answers, ErrorCode
<1>. QED
  BY <1>1, <1>2

LEMMA ClearStateKeeps ==
  ASSUME ReqInv, NEW h \in Conn, ClearState(h)
  PROVE  ReqInv'
<1>1. Calls(h, "debug_bundler_clearState") /\ UNCHANGED <<valVars, inputVars, queue, mined>>
  BY DEF ClearState
<1>2. /\ pc[h] = "next" /\ Len(replies[h]) < Len(todo[h]) /\ Now(h).method = "debug_bundler_clearState"
      /\ <<h, Len(replies[h]) + 1>> \notin did
  BY <1>1, Calling
<1>3. CASE debugRpc
  <2>1. Reply(h, "ok") /\ rec' = [o \in Op |-> Undefined] /\ Done(h)
    BY <1>3 DEF ClearState
  <2>2. Steady(h) /\ did' = did \cup {<<h, Len(replies[h]) + 1>>}
    BY <1>1, <2>1 DEF Steady, Done, inputVars
  <2>3. CallInv'
    BY <1>2, <1>3, <2>1, <2>2, AnswerKeeps DEF ReqInv, Fits, Answers
  <2>4. pc' = [pc EXCEPT ![h] = "next"] /\ \A g \in Conn \ {h} : replies'[g] = replies[g]
    BY <2>1 DEF Reply, ReqInv, CallInv, CallTypes
  <2>. QED
    BY <1>1, <1>2, <2>1, <2>3, <2>4, Aside DEF inputVars, Holding, Inside
<1>4. CASE ~debugRpc
  <2>1. Reply(h, "-32601") /\ OnlyCall
    BY <1>1, <1>4 DEF ClearState, OnlyCall
  <2>. QED
    BY <1>1, <1>4, <2>1, StartAnswer DEF Answers, ErrorCode
<1>. QED
  BY <1>3, <1>4

LEMMA ChainIdKeeps ==
  ASSUME ReqInv, NEW h \in Conn, ChainId(h)
  PROVE  ReqInv'
<1>1. CASE Calls(h, "eth_chainId") /\ Await(h, "next", "network") /\ OnlyCall
  BY <1>1, Calling, PlainAwait DEF Methods, Stage, Pending, Holding, Inside
<1>2. CASE pc[h] = "network" /\ Reply(h, "ok") /\ OnlyCall
  BY <1>2, AtPending, PlainAnswer DEF Fits, Answers, Methods, Pending, Holding, Inside
<1>. QED
  BY <1>1, <1>2 DEF ChainId

LEMMA UserOpHashKeeps ==
  ASSUME ReqInv, NEW h \in Conn, UserOpHash(h)
  PROVE  ReqInv'
<1>1. pc[h] = "rehash" /\ Reply(h, "ok") /\ OnlyCall
  BY DEF UserOpHash
<1>. QED
  BY <1>1, AtPending, PlainAnswer DEF Fits, Answers, Methods, Pending, Holding, Inside

LEMMA EstimateGasKeeps ==
  ASSUME ReqInv, NEW h \in Conn, EstimateGas(h)
  PROVE  ReqInv'
<1>0. OnlyCall
  BY DEF EstimateGas
<1>1. CASE /\ Calls(h, "eth_estimateUserOperationGas")
           /\ ParametersError(Now(h)) # "" /\ Reply(h, ParametersError(Now(h)))
  <2>1. PICK x \in {"-32602", "none"} : Reply(h, x)
    BY <1>1 DEF ParametersError
  <2>2. Calls(h, "eth_estimateUserOperationGas") /\ x \in Answers /\ x # "ok"
    BY <1>1 DEF Answers, ErrorCode
  <2>. QED
    BY <1>0, <2>1, <2>2, StartAnswer
<1>. USE DEF Pending, Stage, Holding, Inside, Methods, Answers, ErrorCode
<1>2. CASE Calls(h, "eth_estimateUserOperationGas") /\ Await(h, "next", "simulate")
  BY <1>0, <1>2, Calling, PlainAwait
<1>3. CASE Await(h, "simulate", "estimate")
  BY <1>0, <1>3, AtPending, PlainAwait DEF Await, Move
<1>4. CASE pc[h] = "simulate" /\ Reply(h, "-32500")
  BY <1>0, <1>4, AtPending, PlainAnswer DEF Fits
<1>5. ASSUME pc[h] = "estimate", NEW x \in {"ok", "-32521"}, Reply(h, x)
      PROVE  ReqInv'
  BY <1>0, <1>5, AtPending, PlainAnswer DEF Fits
<1>. QED
  BY <1>1, <1>2, <1>3, <1>4, <1>5 DEF EstimateGas

LEMMA QueryEventKeeps ==
  ASSUME ReqInv, NEW h \in Conn,
         \/ QueryEvent(h, "eth_getUserOperationReceipt", "receipt")
         \/ QueryEvent(h, "eth_getUserOperationByHash", "tx")
  PROVE  ReqInv'
<1>. USE DEF Pending, Stage, Holding, Inside, Methods, Answers, ErrorCode
<1>1. PICK method \in {"eth_getUserOperationReceipt", "eth_getUserOperationByHash"}, to \in {"receipt", "tx"} :
        /\ QueryEvent(h, method, to)
        /\ method = IF to = "receipt" THEN "eth_getUserOperationReceipt" ELSE "eth_getUserOperationByHash"
  OBVIOUS
<1>2. OnlyCall
  BY <1>1 DEF QueryEvent
<1>3. CASE Calls(h, method) /\ Reply(h, "-32601")
  BY <1>1, <1>2, <1>3, Calling, PlainAnswer DEF Fits
<1>4. CASE Calls(h, method) /\ Await(h, "next", "event")
  BY <1>1, <1>2, <1>4, Calling, PlainAwait
<1>5. CASE pc[h] = "event" /\ Now(h).method = method /\ Reply(h, "null")
  BY <1>1, <1>2, <1>5, AtPending, PlainAnswer DEF Fits
<1>6. CASE pc[h] = "event" /\ Now(h).method = method /\ mined[Now(h).op] # NoTx /\ Await(h, "event", to)
  BY <1>1, <1>2, <1>6, AtPending, PlainAwait
<1>. QED
  BY <1>1, <1>3, <1>4, <1>5, <1>6 DEF QueryEvent

LEMMA GetKeeps ==
  ASSUME ReqInv, NEW h \in Conn, GetUserOperationReceipt(h) \/ GetUserOperationByHash(h)
  PROVE  ReqInv'
<1>. USE DEF Pending, Stage, Holding, Inside, Methods, Answers, ErrorCode
<1>1. CASE pc[h] \in {"receipt", "tx"} /\ OnlyCall /\ \E x \in {"ok", "none"} : Reply(h, x)
  <2>1. mined[Now(h).op] # NoTx
    BY <1>1 DEF ReqInv, CallInv, Progress
  <2>. QED
    BY <1>1, <2>1, AtPending, PlainAnswer DEF Fits
<1>. QED
  BY <1>1, QueryEventKeeps DEF GetUserOperationReceipt, GetUserOperationByHash

\* A call enters, or its parameters are refused
LEMMA SendUserOperationKeeps ==
  ASSUME ReqInv, NEW h \in Conn, SendUserOperation(h)
  PROVE  ReqInv'
<1>1. Calls(h, "eth_sendUserOperation") /\ UNCHANGED <<valVars, inputVars, poolVars, mined>>
  BY DEF SendUserOperation
<1>2. /\ pc[h] = "next" /\ Len(replies[h]) < Len(todo[h]) /\ Now(h).method = "eth_sendUserOperation"
  BY <1>1, Calling
<1>3. CASE ParametersError(Now(h)) # ""
  <2>1. PICK x \in {"-32602", "none"} : Reply(h, x)
    BY <1>3 DEF SendUserOperation, ParametersError
  <2>2. OnlyCall
    BY <1>1, <1>3 DEF SendUserOperation, OnlyCall
  <2>. QED
    BY <1>1, <2>1, <2>2, StartAnswer DEF Answers, ErrorCode
<1>4. CASE ParametersError(Now(h)) = ""
  <2>1. /\ pc' = [pc EXCEPT ![h] = "queue"] /\ replies' = replies /\ queue' = Append(queue, h)
        /\ UNCHANGED <<todo, rec, did, mined, debugRpc, valVars>>
    BY <1>1, <1>4 DEF SendUserOperation, Await, Move, inputVars, poolVars
  <2>2. pc \in [Conn -> Stage] /\ \A g \in Conn : pc'[g] = IF g = h THEN "queue" ELSE pc[g]
    BY <2>1 DEF ReqInv, CallInv, CallTypes
  <2>3. CallInv'
    BY <1>2, <2>1, MoveKeeps DEF ReqInv, Steady, Methods, Stage, Pending, Holding, Inside
  <2>4. MutexInv'
    BY <1>2, <2>1, <2>2, QueueEnter DEF ReqInv, Holding, Inside
  <2>5. ValInv'
    BY <2>1 DEF ReqInv, ValInv, ValTypeOK, Sound, valVars
  <2>6. SendInv' /\ RecInv'
    BY <2>1, <2>2 DEF ReqInv, SendInv, RecInv, Now, AtWork, valVars
  <2>. QED
    BY <2>3, <2>4, <2>5, <2>6 DEF ReqInv
<1>. QED
  BY <1>3, <1>4

\* A call that has the mutex answers and leaves
LEMMA LeaveAnswer ==
  ASSUME ReqInv, NEW h \in Conn, NEW x \in Answers, pc[h] \in Holding, queue[1] = h,
         Reply(h, x), Release, UNCHANGED <<inputVars, poolVars, mined>>,
         x = "ok" => pc[h] = "attempt", pc[h] = "attempt" => x \in {"ok", "node"},
         ValInv', code' = code
  PROVE  ReqInv'
<1>1. /\ Len(replies[h]) < Len(todo[h]) /\ Now(h).method = "eth_sendUserOperation"
      /\ <<h, Len(replies[h]) + 1>> \in did <=> pc[h] = "attempt"
  BY AtPending DEF Methods, Pending, Holding, Inside
<1>2. Fits(Now(h), h, Len(replies[h]) + 1, x, did)
  BY <1>1 DEF Fits
<1>3. Steady(h) /\ did' = did /\ rec' = rec /\ todo' = todo
  BY DEF Steady, inputVars, poolVars
<1>4. CallInv'
  BY <1>1, <1>2, <1>3, AnswerKeeps DEF ReqInv
<1>5. pc \in [Conn -> Stage] /\ pc' = [pc EXCEPT ![h] = "next"]
  BY DEF ReqInv, CallInv, CallTypes, Reply
<1>6. MutexInv'
  BY <1>5, QueueLeave DEF ReqInv, Holding, Inside
<1>7. \A g \in Conn : pc'[g] \notin AtWork
  BY <1>5 DEF ReqInv, MutexInv, AtWork, Holding, Inside
<1>. QED
  BY <1>3, <1>4, <1>6, <1>7 DEF ReqInv, SendInv, RecInv

\* A call that has the mutex goes on to what it awaits next
LEMMA InsideAwait ==
  ASSUME ReqInv, NEW h \in Conn, pc[h] \in Holding, queue[1] = h, NEW to \in Inside,
         Await(h, pc[h], to), queue' = queue, UNCHANGED <<inputVars, mined>>,
         did' \in {did, did \cup {<<h, Len(replies[h]) + 1>>}},
         to = "attempt" <=> <<h, Len(replies[h]) + 1>> \in did',
         ValInv', to \in AtWork => val'["send"].op = Now(h).op, RecInv'
  PROVE  ReqInv'
<1>1. /\ Len(replies[h]) < Len(todo[h]) /\ Now(h).method = "eth_sendUserOperation"
      /\ <<h, Len(replies[h]) + 1>> \in did <=> pc[h] = "attempt"
  BY AtPending DEF Methods, Pending, Holding, Inside
<1>2. Steady(h) /\ todo' = todo
  BY DEF Steady, inputVars
<1>3. pc \in [Conn -> Stage] /\ pc' = [pc EXCEPT ![h] = to] /\ replies' = replies
  BY DEF ReqInv, CallInv, CallTypes, Await, Move
<1>4. to \in Stage /\ Methods(to) = {"eth_sendUserOperation"} /\ to \notin {"receipt", "tx", "rehash"}
      /\ pc[h] # "rehash"
  BY DEF Stage, Pending, Holding, Inside, Methods
<1>5. CallInv'
  BY <1>1, <1>2, <1>3, <1>4, MoveKeeps DEF ReqInv
<1>6. MutexInv'
  BY <1>3, QueueKeeps DEF ReqInv, Holding
<1>7. SendInv'
  <2>. SUFFICES ASSUME NEW g \in Conn, pc'[g] \in AtWork
                PROVE  val'["send"].op = Now(g)'.op
    BY DEF SendInv
  <2>1. g = h
    BY <1>6 DEF MutexInv, AtWork, Inside, ReqInv
  <2>2. Now(h)' = Now(h)
    BY <1>2, <1>3 DEF Now
  <2>. QED
    BY <1>3, <2>1, <2>2
<1>. QED
  BY <1>5, <1>6, <1>7 DEF ReqInv

LEMMA RunExclusiveKeeps ==
  ASSUME ReqInv, NEW h \in Conn, RunExclusive(h)
  PROVE  ReqInv'
<1>1. /\ pc[h] = "queue" /\ Head(queue) = h /\ UNCHANGED <<inputVars, poolVars, mined>>
  BY DEF RunExclusive
<1>2. pc[h] \in Holding /\ h \in Range(queue) /\ queue \in Seq(Conn)
  BY <1>1 DEF ReqInv, MutexInv, Holding
<1>3. queue[1] = h
  BY <1>1, <1>2 DEF Range
<1>4. CASE InputError(Now(h))
  <2>1. Reply(h, "-32602") /\ Release /\ UNCHANGED valVars
    BY <1>1, <1>4 DEF RunExclusive
  <2>2. ValInv' /\ code' = code
    BY <2>1 DEF ReqInv, ValInv, ValTypeOK, Sound, valVars
  <2>. QED
    BY <1>1, <1>2, <1>3, <2>1, <2>2, LeaveAnswer DEF Answers, ErrorCode
<1>5. CASE ~InputError(Now(h))
  <2>1. Await(h, "queue", "validate") /\ Validate("send", Now(h).op, Undefined) /\ queue' = queue
    BY <1>1, <1>5 DEF RunExclusive
  <2>2. Now(h).op \in Op /\ <<h, Len(replies[h]) + 1>> \notin did
    BY <1>1, AtPending DEF Pending, Holding
  <2>3. ValInv' /\ val'["send"].op = Now(h).op /\ code' = code
    BY <2>1, <2>2, ValidateSound, ValidationAssumption DEF ReqInv, Recorded, Caller, Others
  <2>4. RecInv' /\ did' = did
    BY <1>1, <2>3 DEF ReqInv, RecInv, poolVars
  <2>. QED
    BY <1>1, <1>2, <1>3, <2>1, <2>2, <2>3, <2>4, InsideAwait DEF Inside
<1>. QED
  BY <1>4, <1>5

LEMMA ValidationEnds ==
  ASSUME ReqInv, NEW h \in Conn, Validated(h)
  PROVE  ReqInv'
<1>1. /\ pc[h] = "validate" /\ UNCHANGED <<inputVars, poolVars, mined>>
  BY DEF Validated
<1>2. pc[h] \in Holding /\ queue[1] = h
  BY <1>1 DEF ReqInv, MutexInv, Holding, Inside
<1>3. CASE Await(h, "validate", "hash") /\ UNCHANGED <<queue, valVars>>
  <2>1. <<h, Len(replies[h]) + 1>> \notin did
    BY <1>1, AtPending DEF Pending, Holding, Inside
  <2>2. ValInv' /\ val'["send"].op = Now(h).op /\ RecInv' /\ did' = did
    BY <1>1, <1>3 DEF ReqInv, ValInv, ValTypeOK, Sound, RecInv, SendInv, AtWork, valVars, poolVars
  <2>. QED
    BY <1>1, <1>2, <1>3, <2>1, <2>2, InsideAwait DEF Inside
<1>4. CASE Reply(h, val["send"].error) /\ Release /\ Return("send")
  <2>1. val["send"].error \in Answers /\ val["send"].error # "ok"
    BY ValTypes DEF ReqInv, ValInv, Caller, Valid, Answers, ErrorCode
  <2>2. ValInv' /\ code' = code
    BY <1>4, ReturnSound DEF ReqInv, Caller, Others
  <2>. QED
    BY <1>1, <1>2, <1>4, <2>1, <2>2, LeaveAnswer
<1>. QED
  BY <1>3, <1>4 DEF Validated

LEMMA AddUserOpKeeps ==
  ASSUME ReqInv, NEW h \in Conn, AddUserOp(h)
  PROVE  ReqInv'
<1>1. /\ pc[h] = "hash" /\ Return("send") /\ UNCHANGED <<inputVars, mined>>
  BY DEF AddUserOp
<1>2. /\ pc[h] \in Holding /\ queue[1] = h /\ Now(h).op \in Op
      /\ val["send"].op = Now(h).op /\ "send" \in Caller
  BY <1>1, AtPending DEF ReqInv, MutexInv, Pending, Holding, Inside, SendInv, AtWork, Caller
<1>3. ValInv' /\ code' = code
  BY <1>1, <1>2, ReturnSound DEF ReqInv, Others
<1>4. CASE /\ rec' = [rec EXCEPT ![Now(h).op] = val["send"].hashes] /\ Done(h)
           /\ Await(h, "hash", "attempt") /\ UNCHANGED queue
  <2>1. /\ val["send"].hashes \in Recorded
        /\ val["send"].hashes \in Code => val["send"].hashes <= code[Now(h).op]
    BY <1>2, ValTypes DEF ReqInv, ValInv, Valid, Sound
  <2>2. RecInv'
    <3>. DEFINE k == Now(h).op
                x == val["send"].hashes
    <3>1. k \in Op /\ x \in Recorded /\ (x \in Code => x <= code[k]) /\ rec' = [rec EXCEPT ![k] = x]
      BY <1>2, <1>4, <2>1
    <3>. HIDE DEF k, x
    <3>. QED
      BY <1>3, <3>1 DEF ReqInv, RecInv
  <2>3. <<h, Len(replies[h]) + 1>> \in did' /\ did' = did \cup {<<h, Len(replies[h]) + 1>>}
    BY <1>4 DEF Done
  <2>. QED
    BY <1>1, <1>2, <1>3, <1>4, <2>2, <2>3, InsideAwait DEF Inside, AtWork
<1>5. ASSUME NEW x \in {"-32504", "-32602"}, Reply(h, x), Release, UNCHANGED poolVars
      PROVE  ReqInv'
  <2>1. x \in Answers /\ x # "ok"
    BY DEF Answers, ErrorCode
  <2>. QED
    BY <1>1, <1>2, <1>3, <1>5, <2>1, LeaveAnswer
<1>. QED
  BY <1>4, <1>5 DEF AddUserOp

\* The mutex is left; the call goes on without it
LEMMA AttemptBundleKeeps ==
  ASSUME ReqInv, NEW h \in Conn, AttemptBundle(h)
  PROVE  ReqInv'
<1>1. /\ pc[h] = "attempt" /\ pc' = [pc EXCEPT ![h] = "rehash"] /\ replies' = replies /\ Release
      /\ UNCHANGED <<todo, debugRpc, rec, did, mined>> /\ UNCHANGED valVars
  BY DEF AttemptBundle, Await, Move, inputVars, poolVars
<1>2. /\ pc[h] \in Holding /\ queue[1] = h /\ Len(replies[h]) < Len(todo[h])
      /\ Now(h).method = "eth_sendUserOperation" /\ <<h, Len(replies[h]) + 1>> \in did
  BY <1>1, AtPending DEF ReqInv, MutexInv, Methods, Pending, Holding, Inside
<1>3. CallInv'
  BY <1>1, <1>2, MoveKeeps DEF ReqInv, Steady, Methods, Stage, Pending, Holding, Inside
<1>4. pc \in [Conn -> Stage]
  BY DEF ReqInv, CallInv, CallTypes
<1>5. MutexInv'
  BY <1>1, <1>2, <1>4, QueueLeave DEF ReqInv, Holding, Inside
<1>6. ValInv' /\ RecInv'
  BY <1>1 DEF ReqInv, ValInv, ValTypeOK, Sound, RecInv, valVars
<1>7. SendInv'
  BY <1>1, <1>4 DEF ReqInv, SendInv, Now, AtWork, valVars
<1>. QED
  BY <1>3, <1>5, <1>6, <1>7 DEF ReqInv

LEMMA HandlerFailsKeeps ==
  ASSUME ReqInv, NEW h \in Conn, HandlerFails(h)
  PROVE  ReqInv'
<1>1. UNCHANGED <<inputVars, poolVars, mined>>
  BY DEF HandlerFails
<1>2. PICK x \in {"-32521", "node"} : Reply(h, x) /\ (pc[h] # "estimate" => x = "node")
  BY DEF HandlerFails
<1>3. x \in Answers /\ x # "ok"
  BY DEF Answers, ErrorCode
<1>4. CASE pc[h] \in {"hash", "attempt"}
  <2>1. Release /\ pc[h] \in Holding /\ queue[1] = h /\ x = "node"
    BY <1>2, <1>4 DEF HandlerFails, ReqInv, MutexInv, Holding, Inside
  <2>2. ValInv' /\ code' = code
    <3>1. CASE pc[h] = "hash"
      BY <3>1, ReturnSound DEF HandlerFails, ReqInv, Caller, Others
    <3>2. CASE pc[h] = "attempt"
      BY <3>2 DEF HandlerFails, ReqInv, ValInv, ValTypeOK, Sound, valVars
    <3>. QED
      BY <1>4, <3>1, <3>2
  <2>. QED
    BY <1>1, <1>2, <1>3, <2>1, <2>2, LeaveAnswer
<1>5. CASE pc[h] \in {"rehash", "simulate", "estimate", "event", "receipt", "tx", "network"}
  <2>1. OnlyCall /\ pc[h] \notin Holding /\ pc[h] \in Pending
    BY <1>1, <1>5 DEF HandlerFails, OnlyCall, Pending, Holding, Inside
  <2>2. Len(replies[h]) < Len(todo[h]) /\ Now(h).method \in Methods(pc[h])
    BY <2>1, AtPending
  <2>3. Now(h).method # "debug_bundler_clearState"
    BY <1>5, <2>2 DEF Methods, Holding, Inside
  <2>4. pc[h] # "rehash" => Now(h).method # "eth_sendUserOperation"
    BY <1>5, <2>2 DEF Methods, Holding, Inside
  <2>5. Fits(Now(h), h, Len(replies[h]) + 1, x, did)
    BY <1>2, <1>3, <2>3, <2>4 DEF Fits
  <2>. QED
    BY <1>2, <1>3, <2>1, <2>2, <2>5, PlainAnswer
<1>. QED
  BY <1>4, <1>5 DEF HandlerFails

LEMMA HandlerKeeps ==
  ASSUME ReqInv, NEW h \in Conn, HandlerStep(h)
  PROVE  ReqInv'
  BY AtOnceKeeps, ClearStateKeeps, ChainIdKeeps, SendUserOperationKeeps, RunExclusiveKeeps, ValidationEnds,
     AddUserOpKeeps, AttemptBundleKeeps, UserOpHashKeeps, EstimateGasKeeps, GetKeeps, HandlerFailsKeeps
     DEF HandlerStep

-----------------------------------------------------------------------------
(* The whole process                                                       *)

\* No request is served before the server listens
NotYet == phase \in Boot => \A h \in Conn : pc[h] = "idle" /\ replies[h] = <<>>
ServInv == ReqInv /\ NotYet

\* A step of what is around the calls
LEMMA AroundKeeps ==
  ASSUME ReqInv, ValInv', RecInv', UNCHANGED <<todo, replies, pc, queue, debugRpc, did>>,
         val'["send"].op = val["send"].op, mined' \in [Op -> Tx \cup {NoTx}],
         \A o \in Op : mined[o] # NoTx => mined'[o] # NoTx
  PROVE  ReqInv'
<1>1. CallTypes'
  BY DEF ReqInv, CallInv, CallTypes
<1>2. ASSUME NEW h \in Conn
      PROVE  Progress(h)'
  <2>1. Progress(h) /\ (pc[h] \in Pending => Now(h).op \in Op)
    BY AtPending DEF ReqInv, CallInv
  <2>. QED
    BY <2>1 DEF Progress, Now, Pending
<1>3. ASSUME NEW h \in Conn, NEW i \in DOMAIN replies[h]
      PROVE  Fits(todo[h][i], h, i, replies[h][i], did)'
  <2>1. Fits(todo[h][i], h, i, replies[h][i], did)
    BY DEF ReqInv, CallInv
  <2>2. todo[h][i].op \in Op
    <3>1. /\ todo[h] \in Seq(Call) /\ replies[h] \in Seq(Answers) /\ Len(replies[h]) <= Len(todo[h])
      BY DEF ReqInv, CallInv, CallTypes, Progress
    <3>2. i \in 1 .. Len(todo[h])
      BY <3>1
    <3>3. todo[h][i] \in Call
      BY <3>1, <3>2
    <3>. QED
      BY <3>3 DEF Call
  <2>. QED
    BY <2>1, <2>2 DEF Fits
<1>4. CallInv'
  BY <1>1, <1>2, <1>3 DEF CallInv
<1>5. MutexInv' /\ SendInv'
  BY DEF ReqInv, MutexInv, SendInv, Now
<1>. QED
  BY <1>4, <1>5 DEF ReqInv

LEMMA ValStays == ASSUME ValInv, UNCHANGED valVars PROVE ValInv'
  BY DEF ValInv, ValTypeOK, Sound, valVars

LEMMA BundlingKeeps ==
  ASSUME ReqInv, Revalidated \/ \E o \in Op : Revalidate(o) \/ Forget(o)
  PROVE  ReqInv'
<1>. ValInv /\ RecInv /\ mined \in [Op -> Tx \cup {NoTx}]
  BY DEF ReqInv, CallInv, CallTypes
<1>1. CASE Revalidated
  <2>1. Return("bundle") /\ rec' \in {rec, [rec EXCEPT ![val["bundle"].op] = Undefined]}
        /\ UNCHANGED <<todo, replies, pc, queue, mined, debugRpc, did>>
    BY <1>1 DEF Revalidated
  <2>2. ValInv' /\ val'["send"] = val["send"] /\ code' = code
    BY <2>1, ReturnSound DEF Caller, Others
  <2>3. RecInv'
    BY <2>1, <2>2, ValidationAssumption DEF RecInv, Recorded
  <2>. QED
    BY <2>1, <2>2, <2>3, AroundKeeps
<1>2. ASSUME NEW o \in Op, Revalidate(o)
      PROVE  ReqInv'
  <2>1. rec[o] # Undefined /\ Validate("bundle", o, rec[o]) /\ UNCHANGED handlerVars
    BY <1>2 DEF Revalidate
  <2>2. rec[o] \in Recorded /\ (rec[o] \in Code => rec[o] <= code[o]) /\ "bundle" \in Caller
    BY DEF RecInv, Caller
  <2>3. ValInv' /\ val'["send"] = val["send"] /\ code' = code
    BY <2>1, <2>2, ValidateSound DEF Caller, Others
  <2>4. RecInv'
    BY <2>1, <2>3 DEF RecInv, handlerVars
  <2>. QED
    BY <2>1, <2>3, <2>4, AroundKeeps DEF handlerVars
<1>3. ASSUME NEW o \in Op, Forget(o)
      PROVE  ReqInv'
  <2>1. rec' = [rec EXCEPT ![o] = Undefined] /\ UNCHANGED valVars
        /\ UNCHANGED <<todo, replies, pc, queue, mined, debugRpc, did>>
    BY <1>3 DEF Forget, valVars
  <2>2. ValInv' /\ val' = val /\ code' = code
    BY <2>1, ValStays DEF valVars
  <2>3. RecInv'
    BY <2>1, <2>2, ValidationAssumption DEF RecInv, Recorded
  <2>. QED
    BY <2>1, <2>2, <2>3, AroundKeeps
<1>. QED
  BY <1>1, <1>2, <1>3

LEMMA ChainKeeps ==
  ASSUME ReqInv, NEW tx \in Tx, Mine(tx)
  PROVE  ReqInv'
<1>1. /\ mined \in [Op -> Tx \cup {NoTx}] /\ UNCHANGED valVars
      /\ mined' = [o \in Op |-> IF o \in OpsOf(tx) THEN tx ELSE mined[o]]
      /\ UNCHANGED <<todo, replies, pc, queue, rec, debugRpc, did>>
  BY DEF Mine, ReqInv, CallInv, CallTypes, valVars
<1>2. mined' \in [Op -> Tx \cup {NoTx}] /\ \A o \in Op : mined[o] # NoTx => mined'[o] # NoTx
  BY <1>1, ServerAssumption
<1>3. ValInv' /\ val' = val /\ RecInv'
  BY <1>1, ValStays DEF ReqInv, RecInv, valVars
<1>. QED
  BY <1>1, <1>2, <1>3, AroundKeeps

LEMMA TimeKeeps ==
  ASSUME ReqInv, UNCHANGED handlerVars,
         (Tick \/ \E o \in Op : ChangeCode(o)) \/ (\E t \in Caller : ValidationStep(t)) \/ UNCHANGED valVars
  PROVE  ReqInv'
<1>1. ValInv /\ RecInv /\ mined \in [Op -> Tx \cup {NoTx}]
  BY DEF ReqInv, CallInv, CallTypes
<1>2. CASE Tick \/ \E o \in Op : ChangeCode(o)
  <2>1. ValInv' /\ val' = val /\ \A o \in Op : code[o] <= code'[o]
    BY <1>1, <1>2, EnvironmentSound
  <2>2. RecInv'
    <3>. SUFFICES ASSUME NEW o \in Op, rec[o] \in Code
                  PROVE  rec[o] <= code'[o]
      BY <1>1 DEF RecInv, handlerVars
    <3>1. rec[o] <= code[o] /\ code[o] <= code'[o]
      BY <1>1, <2>1 DEF RecInv
    <3>2. code[o] \in Nat /\ code'[o] \in Nat /\ rec[o] \in Nat
      BY <1>1, <2>1, ValidationAssumption DEF ValInv, ValTypeOK, Code
    <3>. QED
      BY <3>1, <3>2
  <2>. QED
    BY <1>1, <2>1, <2>2, AroundKeeps DEF handlerVars
<1>3. ASSUME NEW t \in Caller, ValidationStep(t)
      PROVE  ReqInv'
  <2>1. ValInv' /\ val'["send"].op = val["send"].op /\ code' = code
    BY <1>1, <1>3, ValidationSound DEF Others, Caller
  <2>2. RecInv'
    BY <1>1, <2>1 DEF RecInv, handlerVars
  <2>. QED
    BY <1>1, <2>1, <2>2, AroundKeeps DEF handlerVars
<1>4. CASE UNCHANGED valVars
  BY <1>1, <1>4, ValStays, AroundKeeps DEF RecInv, handlerVars, valVars
<1>. QED
  BY <1>2, <1>3, <1>4

LEMMA ServInvStep ==
  ASSUME ServInv, [Next]_vars
  PROVE  ServInv'
<1>. ReqInv /\ NotYet /\ pc \in [Conn -> Stage] /\ replies \in [Conn -> Seq(Answers)]
  BY DEF ServInv, ReqInv, CallInv, CallTypes
<1>1. CASE GetNetwork
  <2>1. /\ phase = "network" /\ debugRpc' \in BOOLEAN
        /\ UNCHANGED <<valVars, todo, replies, pc, queue, rec, mined, did>>
    BY <1>1 DEF GetNetwork, Enter
  <2>2. \A h \in Conn : pc[h] = "idle" /\ replies[h] = <<>>
    BY <2>1 DEF NotYet, Boot
  <2>3. CallInv'
    BY <2>1, <2>2 DEF ReqInv, CallInv, CallTypes, Progress, Now, Fits
  <2>4. MutexInv' /\ SendInv' /\ RecInv'
    BY <2>1 DEF ReqInv, MutexInv, SendInv, RecInv, Now, valVars
  <2>5. ValInv'
    BY <2>1, ValStays DEF ReqInv
  <2>. QED
    BY <2>1, <2>2, <2>3, <2>4, <2>5 DEF ServInv, ReqInv, NotYet
<1>2. CASE BootStep /\ ~GetNetwork
  <2>1. UNCHANGED <<valVars, handlerVars>> /\ (phase' \in Boot => phase \in Boot)
    BY <1>2 DEF BootStep, EntryPointDeployed, WalletBalance, FundWallet, CheckConditional, CheckTrace,
                PreflightCode, PreflightSimulate, PreflightBalance, Announce, Undeployed, BootFails,
                OnlyBoot, Enter, Exit, Boot
  <2>. QED
    BY <2>1, TimeKeeps DEF ServInv, NotYet, handlerVars
<1>3. CASE UNCHANGED <<valVars, handlerVars, phase>>
  BY <1>3, TimeKeeps DEF ServInv, NotYet, handlerVars
<1>4. CASE Bundling
  <2>1. phase \notin Boot /\ phase' = phase
    BY <1>4 DEF Bundling, Listening, Boot, bootVars
  <2>. QED
    BY <1>4, <2>1, BundlingKeeps DEF Bundling, ServInv, NotYet
<1>5. CASE Execute
  <2>1. PICK tx \in Tx : Mine(tx)
    BY <1>5 DEF Execute
  <2>2. UNCHANGED <<pc, replies, phase>>
    BY <1>5, <2>1 DEF Execute, Mine, bootVars
  <2>. QED
    BY <2>1, <2>2, ChainKeeps DEF ServInv, NotYet
<1>6. CASE Elsewhere \/ \E t \in Caller : Validating(t)
  <2>1. /\ UNCHANGED <<handlerVars, phase>>
        /\ (Tick \/ \E o \in Op : ChangeCode(o)) \/ (\E t \in Caller : ValidationStep(t))
    BY <1>6 DEF Elsewhere, Validating, bootVars
  <2>. QED
    BY <2>1, TimeKeeps DEF ServInv, NotYet, handlerVars
<1>7. ASSUME NEW h \in Conn, Handle(h)
      PROVE  ServInv'
  <2>1. ReqInv' /\ phase' = phase
    BY <1>7, HandlerKeeps DEF Handle, bootVars
  <2>2. pc[h] # "idle"
    BY <1>7 DEF Handle, HandlerStep, ClientVersion, Unsupported, ClearState, ChainId, SendUserOperation,
                RunExclusive, Validated, AddUserOp, AttemptBundle, UserOpHash, EstimateGas, QueryEvent,
                GetUserOperationReceipt, GetUserOperationByHash, HandlerFails, Calls, Await, Move
  <2>. QED
    BY <2>1, <2>2 DEF ServInv, NotYet
<1>8. ASSUME NEW h \in Conn, Request(h) \/ Response(h)
      PROVE  ServInv'
  <2>1. PICK from \in {"idle", "next"}, to \in {"next", "answered"} :
           /\ pc[h] = from /\ pc' = [pc EXCEPT ![h] = to]
           /\ UNCHANGED <<replies, todo, debugRpc, rec, did, queue, mined, phase, valVars>>
    BY <1>8 DEF Request, Response, Move, inputVars, poolVars, bootVars
  <2>2. CallInv'
    BY <2>1, MoveKeeps DEF ReqInv, Steady, Stage, Pending, Holding, Inside
  <2>3. ReqInv'
    BY <2>1, <2>2, Aside DEF Holding, Inside
  <2>4. phase \notin Boot
    BY <1>8, <2>1 DEF Request, Response, Listening, NotYet, Boot, Move
  <2>. QED
    BY <2>1, <2>3, <2>4 DEF ServInv, NotYet
<1>. QED
  BY <1>1, <1>2, <1>3, <1>4, <1>5, <1>6, <1>7, <1>8
     DEF Next, vars, MineTxs, MineTransfer, Deployment, bootVars

LEMMA ServInvInit == Init => ServInv
<1>. SUFFICES ASSUME Init PROVE ServInv
  OBVIOUS
<1>1. CallInv
  <2>1. /\ todo \in [Conn -> Seq(Call)] /\ debugRpc \in BOOLEAN /\ did = {}
        /\ replies = [h \in Conn |-> <<>>] /\ pc = [h \in Conn |-> "idle"]
    BY DEF Init, HandlerInit
  <2>2. mined \in [Op -> Tx \cup {NoTx}]
    <3>1. CASE mined \in {[o \in Op |-> NoTx]}
      BY <3>1
    <3>2. ASSUME NEW tx \in Tx, mined = [o \in Op |-> IF o \in OpsOf(tx) THEN tx ELSE NoTx]
          PROVE  mined \in [Op -> Tx \cup {NoTx}]
      BY <3>2
    <3>. QED
      BY <3>1, <3>2 DEF Init, HandlerInit
  <2>3. CallTypes
    BY <2>1, <2>2 DEF CallTypes, Stage
  <2>4. ASSUME NEW h \in Conn
        PROVE  Progress(h) /\ DOMAIN replies[h] = {}
    <3>1. Len(replies[h]) = 0 /\ Len(todo[h]) \in Nat /\ DOMAIN replies[h] = {} /\ pc[h] = "idle"
      BY <2>1
    <3>. QED
      BY <2>1, <3>1 DEF Progress, Pending, Holding, Inside
  <2>. QED
    BY <2>3, <2>4 DEF CallInv
<1>2. MutexInv /\ SendInv
  <2>1. queue = <<>> /\ \A h \in Conn : pc[h] = "idle"
    BY DEF Init, HandlerInit
  <2>2. queue \in Seq(Conn) /\ Range(queue) = {} /\ Distinct(queue)
    BY <2>1 DEF Range, Distinct
  <2>. QED
    BY <2>1, <2>2 DEF MutexInv, SendInv, Holding, Inside, AtWork
<1>3. ValInv /\ RecInv
  BY ValTypes, IdleSound, ValidationAssumption
     DEF Init, ValInit, HandlerInit, ValInv, RecInv, Recorded
<1>4. NotYet
  BY DEF Init, HandlerInit, NotYet
<1>. QED
  BY <1>1, <1>2, <1>3, <1>4 DEF ServInv, ReqInv

LEMMA ServInvAlways == Spec => []ServInv
<1>. QED
  BY ServInvInit, ServInvStep, PTL DEF Spec

(* What a caller is told is what became of its call, though the mempool    *)
(* may be cleared, the chain may advance and the node may fail between any *)
(* two steps of it (UserOpMethodHandler.ts, ExecutionManager.ts:39-60).    *)
THEOREM RepliesSoundAlways == Spec => []RepliesSound
<1>1. ServInv => RepliesSound
  BY DEF ServInv, ReqInv, CallInv, Fits, RepliesSound
<1>. QED
  BY <1>1, ServInvAlways, PTL

(* The second validation of an operation succeeds only if its contracts    *)
(* had the recorded code when it began, whichever operation each of the    *)
(* interleaved calls has recorded (ValidationManager.ts:224-234).          *)
THEOREM CodeFrozenAlways == Spec => []CodeFrozen
<1>1. ServInv => CodeFrozen
  BY DEF ServInv, ReqInv, ValInv, Sound, CodeFrozen, In, Caller
<1>. QED
  BY <1>1, ServInvAlways, PTL

LEMMA BootTypes ==
  ASSUME ServerTypeOK, [Next]_vars
  PROVE  (phase \in Boot \cup {"preflight", "simulate", "signer", "announce", "running", "exited"} /\ cfg \in Config
          /\ why \in {"", "node", "deploy", "conditional", "trace", "code", "version", "balance"})'
<1>. USE DEF ServerTypeOK, Boot
<1>1. CASE BootStep
  BY <1>1 DEF BootStep, GetNetwork, EntryPointDeployed, WalletBalance, FundWallet, CheckConditional, CheckTrace,
              PreflightCode, PreflightSimulate, PreflightBalance, Announce, Undeployed, BootFails, Enter, Exit
<1>2. CASE UNCHANGED <<phase, cfg, why>>
  BY <1>2
<1>. QED
  BY <1>1, <1>2 DEF Next, vars, bootVars, Bundling, Execute, Elsewhere, MineTxs, MineTransfer,
                    Deployment, Request, Response, Handle, Validating

(* Every variable of the process keeps its type; the queue of the mutex is *)
(* never left by a call that is not at its head.                           *)
THEOREM ServerTypeCorrect == Spec => []ServerTypeOK
<1>. DEFINE T == ServInv /\ BootInv /\ ServerTypeOK
<1>1. Init => T
  BY ServInvInit DEF Init, Config, DepInit, BootInv, DepTypeOK, DoneInv, Steps, Txs, Funded, ServerTypeOK, Boot,
                     ServInv, ReqInv, ValInv, CallInv, CallTypes, MutexInv, RecInv, HandlerTypeOK,
                     Stage, Pending, Holding, Inside, Answers
<1>2. T /\ [Next]_vars => T'
  <2>. SUFFICES ASSUME T, [Next]_vars PROVE T'
    OBVIOUS
  <2>1. ServInv' /\ BootInv'
    BY ServInvStep, BootInvStep
  <2>2. HandlerTypeOK'
    BY <2>1 DEF ServInv, ReqInv, CallInv, CallTypes, MutexInv, RecInv, HandlerTypeOK,
                Stage, Pending, Holding, Inside, Answers
  <2>. QED
    BY <2>1, <2>2, BootTypes DEF ServerTypeOK, ServInv, ReqInv, ValInv, BootInv
<1>. QED
  BY <1>1, <1>2, PTL DEF Spec

-----------------------------------------------------------------------------
(* What preVerificationGas costs                                           *)

\* A field is 0 only if its bytes are; two places are enough below the third
LEMMA Digits ==
  ASSUME NEW n \in Nat
  PROVE  /\ \A i \in 1 .. 4 : Byte(n, i) \in Nat
         /\ n < 65536 => Byte(n, 3) = 0 /\ Byte(n, 4) = 0
         /\ 0 < n /\ n <= 2147483647 => \E i \in 1 .. 4 : Byte(n, i) # 0
<1>1. /\ Byte(n, 1) = n % 256 /\ Byte(n, 2) = (n \div 256) % 256
      /\ Byte(n, 3) = (n \div 65536) % 256 /\ Byte(n, 4) = (n \div 16777216) % 256
  <2>1. n \div 1 = n
    OBVIOUS
  <2>. QED
    BY <2>1 DEF Byte, Place
<1>2. \A i \in 1 .. 4 : Byte(n, i) \in Nat
  <2>1. ASSUME NEW i \in 1 .. 4 PROVE Byte(n, i) \in Nat
    BY <1>1
  <2>. QED
    BY <2>1
<1>3. n < 65536 => Byte(n, 3) = 0 /\ Byte(n, 4) = 0
  BY <1>1
<1>4. ASSUME 0 < n, n <= 2147483647, \A i \in 1 .. 4 : Byte(n, i) = 0 PROVE FALSE
  <2>1. n % 256 = 0 /\ (n \div 256) % 256 = 0 /\ (n \div 65536) % 256 = 0 /\ (n \div 16777216) % 256 = 0
    BY <1>1, <1>4
  <2>2. n = 256 * (n \div 256)
    BY <2>1
  <2>3. n \div 256 = 256 * (n \div 65536)
    BY <2>1
  <2>4. n \div 65536 = 256 * (n \div 16777216)
    BY <2>1
  <2>5. n \div 16777216 = 0
    BY <2>1, <1>4
  <2>. QED
    BY <2>2, <2>3, <2>4, <2>5, <1>4
<1>. QED
  BY <1>2, <1>3, <1>4

LEMMA Weights ==
  ASSUME NEW n \in Nat
  PROVE  /\ NonZeroBytes(n) \in 0 .. 4
         /\ n < 65536 => NonZeroBytes(n) <= 2
         /\ 0 < n /\ n <= 2147483647 => NonZeroBytes(n) >= 1
<1>. DEFINE S == {i \in 1 .. 4 : Byte(n, i) # 0}
<1>1. NonZeroBytes(n) = Cardinality(S)
  <2>1. DOMAIN Place = 1 .. 4
    BY DEF Place
  <2>. QED
    BY <2>1 DEF NonZeroBytes
<1>2. IsFiniteSet(1 .. 4) /\ Cardinality(1 .. 4) = 4 /\ IsFiniteSet(1 .. 2) /\ Cardinality(1 .. 2) = 2
  <2>1. /\ IsFiniteSet(1 .. 4) /\ Cardinality(1 .. 4) = IF 1 > 4 THEN 0 ELSE 4 - 1 + 1
        /\ IsFiniteSet(1 .. 2) /\ Cardinality(1 .. 2) = IF 1 > 2 THEN 0 ELSE 2 - 1 + 1
    <3>1. 1 \in Int /\ 2 \in Int /\ 4 \in Int
      OBVIOUS
    <3>. QED
      BY <3>1, FS_Interval, Zenon
  <2>. QED
    BY <2>1
<1>3. IsFiniteSet(S) /\ Cardinality(S) \in Nat /\ Cardinality(S) <= 4
  <2>1. S \subseteq 1 .. 4
    OBVIOUS
  <2>. QED
    BY <2>1, <1>2, FS_Subset, FS_CardinalityType
<1>4. n < 65536 => Cardinality(S) <= 2
  <2>. SUFFICES ASSUME n < 65536 PROVE Cardinality(S) <= 2
    OBVIOUS
  <2>1. S \subseteq 1 .. 2
    <3>. SUFFICES ASSUME NEW i \in S PROVE i \in 1 .. 2
      OBVIOUS
    <3>. i \in 1 .. 4 /\ i # 3 /\ i # 4
      BY Digits
    <3>. QED
      OBVIOUS
  <2>. QED
    BY <2>1, <1>2, FS_Subset
<1>5. 0 < n /\ n <= 2147483647 => Cardinality(S) >= 1
  <2>1. 0 < n /\ n <= 2147483647 => S # {}
    <3>1. 0 < n /\ n <= 2147483647 => \E i \in 1 .. 4 : Byte(n, i) # 0
      BY Digits
    <3>. QED
      BY <3>1
  <2>2. S # {} => Cardinality(S) # 0
    BY <1>3, FS_EmptySet
  <2>. QED
    BY <2>1, <2>2, <1>3
<1>. QED
  BY <1>1, <1>3, <1>4, <1>5

\* The dummies: a field of 0 has no byte that counts, one of 21000 has two
LEMMA Dummies == NonZeroBytes(0) = 0 /\ NonZeroBytes(21000) = 2
<1>1. DOMAIN Place = 1 .. 4
  BY DEF Place
<1>2. \A i \in 1 .. 4 : Byte(0, i) = 0
  BY DEF Byte, Place
<1>3. Byte(21000, 1) = 8 /\ Byte(21000, 2) = 82 /\ Byte(21000, 3) = 0 /\ Byte(21000, 4) = 0
  BY DEF Byte, Place
<1>4. {i \in 1 .. 4 : Byte(0, i) # 0} = {}
  BY <1>2
<1>5. {i \in 1 .. 4 : Byte(21000, i) # 0} = 1 .. 2
  BY <1>3
<1>6. Cardinality({}) = 0 /\ Cardinality(1 .. 2) = 2
  <2>1. 1 \in Int /\ 2 \in Int
    OBVIOUS
  <2>2. Cardinality(1 .. 2) = IF 1 > 2 THEN 0 ELSE 2 - 1 + 1
    BY <2>1, FS_Interval, Zenon
  <2>. QED
    BY <2>2, FS_EmptySet
<1>. QED
  BY <1>1, <1>4, <1>5, <1>6 DEF NonZeroBytes

(* A quote of the bundler is too low only if it has more bytes that count  *)
(* than the field it was made from, as it has if that was 0; one of the    *)
(* SDK only from 65536 on, and one 48 above never.                         *)
LEMMA Quotes ==
  ASSUME NEW o \in Op
  PROVE  /\ \A f \in Nat : TooLow(o, Estimate(o, f)) => NonZeroBytes(f) < NonZeroBytes(Estimate(o, f))
         /\ TooLow(o, Estimate(o, 0))
         /\ TooLow(o, SdkQuote(o)) => SdkQuote(o) >= Place[3]
         /\ ~TooLow(o, SdkQuote(o) + 48)
<1>1. Rest[o] \in Nat /\ 0 < Rest[o] /\ Rest[o] <= 2147483647
  <2>1. o \in DOMAIN Rest
    BY HandlerAssumption
  <2>2. Rest[o] \in Nat /\ Rest[o] >= 39300 /\ Rest[o] <= 2147483647
    BY <2>1, GasAssumption
  <2>. QED
    BY <2>2
<1>2. ASSUME NEW f \in Nat
      PROVE  calcPreVerificationGas(o, f) = Rest[o] + NonZeroBytes(f) * 12
  BY DEF calcPreVerificationGas, NonZeroByte, ZeroByte
<1>3. Estimate(o, 0) = Rest[o] /\ SdkQuote(o) = Rest[o] + 24
  BY <1>1, <1>2, Dummies DEF Estimate, SdkQuote
<1>4. NonZeroBytes(Rest[o]) \in Nat /\ NonZeroBytes(Rest[o]) >= 1
  BY <1>1, Weights
<1>5. NonZeroBytes(Rest[o] + 24) \in Nat /\ (Rest[o] + 24 < 65536 => NonZeroBytes(Rest[o] + 24) <= 2)
  BY <1>1, Weights
<1>6. NonZeroBytes(Rest[o] + 72) \in Nat /\ NonZeroBytes(Rest[o] + 72) <= 4
  BY <1>1, Weights
<1>7. Place[3] = 65536
  BY DEF Place
<1>8. ASSUME NEW f \in Nat, TooLow(o, Estimate(o, f))
      PROVE  NonZeroBytes(f) < NonZeroBytes(Estimate(o, f))
  <2>. DEFINE g == Rest[o] + NonZeroBytes(f) * 12
  <2>1. NonZeroBytes(f) \in Nat /\ Estimate(o, f) = g
    BY <1>2, Weights DEF Estimate
  <2>2. g \in Nat
    BY <1>1, <2>1
  <2>3. NonZeroBytes(g) \in Nat /\ calcPreVerificationGas(o, g) = Rest[o] + NonZeroBytes(g) * 12
    BY <1>2, <2>2, Weights
  <2>4. g < Rest[o] + NonZeroBytes(g) * 12
    BY <1>8, <2>1, <2>3 DEF TooLow
  <2>. QED
    BY <1>1, <2>1, <2>3, <2>4
<1>. QED
  BY <1>1, <1>2, <1>3, <1>4, <1>5, <1>6, <1>7, <1>8 DEF TooLow

-----------------------------------------------------------------------------
(* Whoever is past the check of the mutex's holder has paid                *)
Paid == {c \in Call : ~InputError(c)}
PaidInv ==
  /\ \A h \in Conn : pc[h] \in Inside => Now(h) \in Paid
  /\ \A h \in Conn : \A i \in Nat : <<h, i>> \in did /\ todo[h][i].method = "eth_sendUserOperation"
                       => todo[h][i] \in Paid

LEMMA PaidStays ==
  ASSUME PaidInv, CallInv, NEW h \in Conn, todo' = todo,
         \A g \in Conn \ {h} : pc'[g] = pc[g] /\ replies'[g] = replies[g],
         pc'[h] \in Inside => replies'[h] = replies[h] /\ (pc[h] \in Inside \/ Now(h) \in Paid),
         \/ did' = did
         \/ /\ did' = did \cup {<<h, Len(replies[h]) + 1>>}
            /\ pc[h] = "hash" \/ Now(h).method = "debug_bundler_clearState"
  PROVE  PaidInv'
<1>1. ASSUME NEW g \in Conn, pc'[g] \in Inside PROVE Now(g)' \in Paid
  <2>1. replies'[g] = replies[g] /\ Now(g) \in Paid
    BY <1>1 DEF PaidInv
  <2>2. Now(g)' = Now(g)
    BY <2>1 DEF Now
  <2>. QED
    BY <2>1, <2>2
<1>2. ASSUME NEW g \in Conn, NEW i \in Nat, <<g, i>> \in did', todo[g][i].method = "eth_sendUserOperation"
      PROVE  todo[g][i] \in Paid
  <2>1. CASE <<g, i>> \in did
    BY <1>2, <2>1 DEF PaidInv
  <2>2. CASE <<g, i>> \notin did
    <3>1. g = h /\ i = Len(replies[h]) + 1 /\ (pc[h] = "hash" \/ Now(h).method = "debug_bundler_clearState")
      BY <1>2, <2>2
    <3>2. todo[g][i] = Now(h)
      BY <3>1 DEF Now
    <3>. QED
      BY <1>2, <3>1, <3>2 DEF PaidInv, Inside
  <2>. QED
    BY <2>1, <2>2
<1>. QED
  BY <1>1, <1>2 DEF PaidInv

LEMMA PaidHandler ==
  ASSUME PaidInv, ReqInv, NEW h \in Conn, HandlerStep(h)
  PROVE  PaidInv'
<1>. pc \in [Conn -> Stage] /\ replies \in [Conn -> Seq(Answers)]
  BY DEF ReqInv, CallInv, CallTypes
<1>1. todo' = todo
  BY DEF HandlerStep, ClientVersion, Unsupported, ClearState, ChainId, SendUserOperation, RunExclusive, Validated,
         AddUserOp, AttemptBundle, UserOpHash, EstimateGas, QueryEvent, GetUserOperationReceipt,
         GetUserOperationByHash, HandlerFails, OnlyCall, inputVars
<1>2. \A g \in Conn \ {h} : pc'[g] = pc[g] /\ replies'[g] = replies[g]
  BY DEF HandlerStep, ClientVersion, Unsupported, ClearState, ChainId, SendUserOperation, RunExclusive, Validated,
         AddUserOp, AttemptBundle, UserOpHash, EstimateGas, QueryEvent, GetUserOperationReceipt,
         GetUserOperationByHash, HandlerFails, Reply, Await, Move
<1>3. pc'[h] \in Inside => replies'[h] = replies[h] /\ (pc[h] \in Inside \/ Now(h) \in Paid)
  <2>1. pc'[h] \in Inside => replies'[h] = replies[h] /\ (pc[h] \in Inside \/ (pc[h] = "queue" /\ ~InputError(Now(h))))
    BY DEF HandlerStep, ClientVersion, Unsupported, ClearState, ChainId, SendUserOperation, RunExclusive,
           Validated, AddUserOp, AttemptBundle, UserOpHash, EstimateGas, QueryEvent, GetUserOperationReceipt,
           GetUserOperationByHash, HandlerFails, Reply, Await, Move, Inside
  <2>2. pc[h] = "queue" => Now(h) \in Call
    BY AtPending DEF Pending, Holding
  <2>. QED
    BY <2>1, <2>2 DEF Paid
<1>4. \/ did' = did
      \/ /\ did' = did \cup {<<h, Len(replies[h]) + 1>>}
         /\ pc[h] = "hash" \/ Now(h).method = "debug_bundler_clearState"
  BY DEF HandlerStep, ClientVersion, Unsupported, ClearState, ChainId, SendUserOperation, RunExclusive, Validated,
         AddUserOp, AttemptBundle, UserOpHash, EstimateGas, QueryEvent, GetUserOperationReceipt,
         GetUserOperationByHash, HandlerFails, OnlyCall, poolVars, Done, Calls
<1>. QED
  BY <1>1, <1>2, <1>3, <1>4, PaidStays DEF ReqInv

LEMMA PaidStep ==
  ASSUME ServInv, PaidInv, [Next]_vars
  PROVE  PaidInv'
<1>. ReqInv /\ CallInv /\ NotYet /\ pc \in [Conn -> Stage] /\ replies \in [Conn -> Seq(Answers)]
  BY DEF ServInv, ReqInv, CallInv, CallTypes
<1>1. CASE UNCHANGED <<todo, replies, pc, did>>
  BY <1>1 DEF PaidInv, Now
<1>2. ASSUME NEW h \in Conn, Handle(h) PROVE PaidInv'
  BY <1>2, PaidHandler DEF Handle
<1>3. ASSUME NEW h \in Conn, Request(h) \/ Response(h) PROVE PaidInv'
  <2>1. PICK to \in {"next", "answered"} : pc' = [pc EXCEPT ![h] = to] /\ UNCHANGED <<replies, todo, did>>
    BY <1>3 DEF Request, Response, Move, inputVars, poolVars
  <2>. QED
    BY <2>1, PaidStays DEF Inside
<1>4. CASE BootStep
  BY <1>1, <1>4 DEF BootStep, GetNetwork, EntryPointDeployed, WalletBalance, FundWallet, CheckConditional, CheckTrace,
                PreflightCode, PreflightSimulate, PreflightBalance, Announce, Undeployed, BootFails,
                OnlyBoot, Enter, Exit, handlerVars
<1>5. CASE Bundling \/ Execute
  BY <1>1, <1>5 DEF Bundling, Execute, Revalidate, Revalidated, Forget, Mine, handlerVars
<1>. QED
  BY <1>1, <1>2, <1>3, <1>4, <1>5
     DEF Next, vars, MineTxs, MineTransfer, Deployment, Elsewhere, Validating, handlerVars

\* An answered call is one of the request
LEMMA Longer ==
  ASSUME NEW S, NEW T, NEW s \in Seq(S), NEW t \in Seq(T), Len(s) <= Len(t), NEW i \in DOMAIN s
  PROVE  t[i] \in T /\ i \in Nat
  OBVIOUS
LEMMA Answered ==
  ASSUME CallInv, NEW h \in Conn, NEW i \in DOMAIN replies[h]
  PROVE  todo[h][i] \in Call /\ i \in Nat
<1>1. todo[h] \in Seq(Call) /\ replies[h] \in Seq(Answers)
  BY DEF CallInv, CallTypes
<1>2. Len(replies[h]) <= Len(todo[h])
  BY DEF CallInv, Progress
<1>. QED
  BY <1>1, <1>2, Longer

(* No operation is accepted with less than it costs: not with the first    *)
(* quote of eth_estimateUserOperationGas, and with one made for a field    *)
(* only if it has no more bytes that count than that field; one of the SDK *)
(* is refused only if it has a third byte (calcPreVerificationGas.ts:61-85, *)
(* UserOpMethodHandler.ts:149-199).                                        *)
THEOREM QuoteShortAlways == Spec => []QuoteShort
<1>1. Init => PaidInv
  BY DEF Init, HandlerInit, PaidInv, Inside
<1>2. ServInv /\ PaidInv => QuoteShort
  <2>. SUFFICES ASSUME ServInv, PaidInv, NEW h \in Conn, NEW i \in DOMAIN replies[h],
                       todo[h][i].method = "eth_sendUserOperation", todo[h][i].flaw = ""
                PROVE  LET c == todo[h][i] IN
                       /\ c.gas = "estimate" /\ c.from = 0 => <<h, i>> \notin did
                       /\ TooLow(c.op, GasOf(c)) =>
                            /\ <<h, i>> \notin did
                            /\ \/ c.gas = "estimate" /\ NonZeroBytes(c.from) < NonZeroBytes(GasOf(c))
                               \/ c.gas = "sdk" /\ GasOf(c) >= Place[3]
    BY DEF QuoteShort
  <2>. DEFINE c == todo[h][i]
  <2>1. c \in Call /\ i \in Nat
    BY Answered DEF ServInv, ReqInv
  <2>2. <<h, i>> \in did => ~TooLow(c.op, GasOf(c))
    BY <2>1 DEF PaidInv, Paid, InputError
  <2>3. c.op \in Op /\ c.gas \in {"ample", "estimate", "sdk"} /\ c.from \in Nat
    BY <2>1 DEF Call
  <2>4. /\ c.gas = "estimate" => GasOf(c) = Estimate(c.op, c.from)
        /\ c.gas = "sdk" => GasOf(c) = SdkQuote(c.op)
        /\ c.gas = "ample" => GasOf(c) = SdkQuote(c.op) + 48
    BY DEF GasOf
  <2>. HIDE DEF c
  <2>5. c.gas = "estimate" /\ c.from = 0 => TooLow(c.op, GasOf(c))
    BY <2>3, <2>4, Quotes
  <2>6. TooLow(c.op, GasOf(c)) => \/ c.gas = "estimate" /\ NonZeroBytes(c.from) < NonZeroBytes(GasOf(c))
                                  \/ c.gas = "sdk" /\ GasOf(c) >= Place[3]
    BY <2>3, <2>4, Quotes
  <2>. QED
    BY <2>2, <2>5, <2>6 DEF c
<1>. QED
  BY <1>1, <1>2, ServInvAlways, PaidStep, PTL DEF Spec

-----------------------------------------------------------------------------
(* The logs of a receipt                                                   *)

LEMMA FoundSteps ==
  ASSUME NEW o \in Op, NEW logs, Grouped(logs)
  PROVE  \E f \in [0 .. Len(logs) -> [start : Nat, end : Nat]] :
           /\ Found(o, logs) = f[Len(logs)]
           /\ \A n \in 1 .. Len(logs) : f[n] = Scan(o, logs, n, f[n - 1])
<1>. DEFINE R == [start : Nat, end : Nat]
            z == [start |-> 0, end |-> 0]
            N == Len(logs)
            G == [p \in R \X (1 .. N) |-> Scan(o, logs, p[2], p[1])]
            at == CHOOSE f : f = [i \in 0 .. N |-> IF i = 0 THEN z ELSE Scan(o, logs, i, f[i - 1])]
<1>1. N \in Nat /\ z \in R
  BY DEF Grouped
<1>2. G \in [R \X (1 .. N) -> R]
  <2>1. ASSUME NEW r \in R, NEW i \in 1 .. N PROVE Scan(o, logs, i, r) \in R
    BY <2>1 DEF Scan
  <2>. QED
    BY <2>1
<1>3. PICK f : Iterates(f, G, N, R, z)
  <2>1. StepOn(G, N, R)
    BY <1>2 DEF StepOn
  <2>. HIDE DEF R, z, N, G
  <2>. QED
    BY <1>1, <2>1, RecursionExists, Zenon
<1>. f \in [0 .. N -> R] /\ f[0] = z
  BY <1>3 DEF Iterates
<1>4. ASSUME NEW n \in 1 .. N PROVE f[n] = Scan(o, logs, n, f[n - 1])
  <2>1. <<f[n - 1], n>> \in R \X (1 .. N)
    BY <1>1
  <2>2. f[n] = G[<<f[n - 1], n>>]
    BY <1>3 DEF Iterates
  <2>. HIDE DEF R
  <2>. QED
    BY <2>1, <2>2
<1>5. f = [i \in 0 .. N |-> IF i = 0 THEN z ELSE Scan(o, logs, i, f[i - 1])]
  <2>. HIDE DEF R, z, G
  <2>. QED
    BY <1>1, <1>4
<1>6. at = [i \in 0 .. N |-> IF i = 0 THEN z ELSE Scan(o, logs, i, at[i - 1])]
  BY <1>5
<1>7. Found(o, logs) = at[N]
  BY DEF Found
<1>. HIDE DEF at
<1>8. at \in [0 .. N -> R] /\ \A n \in 1 .. N : at[n] = Scan(o, logs, n, at[n - 1])
  <2>1. \A n \in 1 .. N : at[n] = Scan(o, logs, n, at[n - 1])
    BY <1>1, <1>6
  <2>2. at[0] = z
    BY <1>1, <1>6
  <2>. DEFINE T == {n \in 0 .. N : at[n] \in R}
  <2>3. 0 \in T
    BY <1>1, <2>2
  <2>4. ASSUME NEW k \in 0 .. N - 1, k \in T PROVE k + 1 \in T
    <3>1. at[k + 1] = Scan(o, logs, k + 1, at[k])
      BY <1>1, <2>1
    <3>2. at[k] \in R /\ k + 1 \in 1 .. N
      BY <1>1, <2>4
    <3>3. Scan(o, logs, k + 1, at[k]) \in R
      BY <3>2 DEF Scan
    <3>. QED
      BY <3>1, <3>2, <3>3
  <2>5. 0 .. N \subseteq T
    <3>. HIDE DEF T
    <3>. QED
      BY <1>1, <2>3, <2>4, AllBelow
  <2>. QED
    BY <1>6, <2>1, <2>5
<1>. QED
  BY <1>7, <1>8

(* From the last beginning b of an execution on, start is b; end is b until *)
(* the event e of the operation, then e.                                   *)
LEMMA FoundIs ==
  ASSUME NEW o \in Op, NEW logs, Grouped(logs), NEW b \in DOMAIN logs, logs[b].kind = "begin",
         \A j \in DOMAIN logs : logs[j].kind = "begin" => j <= b,
         NEW e \in DOMAIN logs, logs[e].kind = "event", logs[e].op = o
  PROVE  Found(o, logs) = [start |-> b, end |-> IF b < e THEN e ELSE b]
<1>. DEFINE R == [start : Nat, end : Nat]
            N == Len(logs)
            Here(n) == [start |-> b, end |-> IF b < e /\ e <= n THEN e ELSE b]
<1>1. PICK f \in [0 .. N -> R] : /\ Found(o, logs) = f[N]
                                 /\ \A n \in 1 .. N : f[n] = Scan(o, logs, n, f[n - 1])
  BY FoundSteps
<1>2. N \in Nat /\ b \in 1 .. N /\ e \in 1 .. N /\ DOMAIN logs = 1 .. N /\ b # e
  BY DEF Grouped
<1>3. \A n \in 1 .. N : logs[n].kind = "event" /\ logs[n].op = o => n = e
  BY <1>2 DEF Grouped
<1>. DEFINE T == {k \in 0 .. N - b : f[b + k] = Here(b + k)}
<1>4. 0 \in T
  <2>1. f[b] = [start |-> b, end |-> b]
    BY <1>1, <1>2 DEF Scan
  <2>2. Here(b) = [start |-> b, end |-> b]
    BY <1>2
  <2>. QED
    BY <1>2, <2>1, <2>2
<1>5. ASSUME NEW k \in 0 .. (N - b) - 1, k \in T PROVE k + 1 \in T
  <2>. DEFINE n == b + k + 1
              g == f[b + k]
  <2>1. n \in 1 .. N /\ b < n /\ n - 1 = b + k /\ logs[n].kind # "begin" /\ n \in Nat
    BY <1>2
  <2>2. f[n] = Scan(o, logs, n, g)
    BY <1>1, <2>1
  <2>3. g = Here(n - 1) /\ g.end \in Nat /\ g.end # 0
    BY <1>2, <1>5, <2>1
  <2>. HIDE DEF n, g
  <2>4. CASE n = e
    <3>1. f[n] = [g EXCEPT !.end = n]
      BY <2>1, <2>2, <2>4 DEF Scan
    <3>. QED
      BY <1>2, <2>1, <2>3, <2>4, <3>1 DEF n
  <2>5. CASE n # e
    <3>0. ~(logs[n].kind = "event" /\ logs[n].op = o)
      BY <1>3, <2>1, <2>5
    <3>1. f[n] = g
      BY <3>0, <2>1, <2>2, <2>3 DEF Scan
    <3>2. Here(n) = Here(n - 1)
      BY <1>2, <2>1, <2>5
    <3>. QED
      BY <1>2, <2>1, <2>3, <3>1, <3>2 DEF n
  <2>. QED
    BY <2>4, <2>5
<1>6. N - b \in T
  <2>1. 0 .. N - b \subseteq T
    <3>1. N - b \in Nat
      BY <1>2
    <3>. HIDE DEF T
    <3>. QED
      BY <3>1, <1>4, <1>5, AllBelow
  <2>. QED
    BY <1>2, <2>1
<1>7. f[N] = Here(N)
  BY <1>2, <1>6
<1>. QED
  BY <1>1, <1>2, <1>7

LEMMA Slice ==
  ASSUME NEW S, NEW s \in Seq(S), NEW a \in 1 .. Len(s) + 1, NEW b \in 0 .. Len(s)
  PROVE  \A x : x \in ToSet(SubSeq(s, a, b)) <=> \E i \in a .. b : x = s[i]
<1>1. Len(s) \in Nat
  OBVIOUS
<1>2. CASE b < a
  <2>1. SubSeq(s, a, b) = <<>> /\ a .. b = {}
    BY <1>1, <1>2
  <2>. QED
    BY <2>1 DEF ToSet
<1>3. CASE a <= b
  <2>. DEFINE t == SubSeq(s, a, b)
  <2>1. DOMAIN t = 1 .. (b - a) + 1 /\ \A i \in DOMAIN t : t[i] = s[a + i - 1]
    BY <1>1, <1>3
  <2>. HIDE DEF t
  <2>2. \A i \in a .. b : i - a + 1 \in DOMAIN t /\ t[i - a + 1] = s[i]
    BY <1>1, <1>3, <2>1
  <2>3. \A i \in DOMAIN t : a + i - 1 \in a .. b
    BY <1>1, <1>3, <2>1
  <2>4. ASSUME NEW x PROVE x \in ToSet(t) <=> \E i \in a .. b : x = s[i]
    <3>1. x \in ToSet(t) <=> \E j \in DOMAIN t : x = t[j]
      BY DEF ToSet
    <3>2. ASSUME NEW j \in DOMAIN t, x = t[j] PROVE \E i \in a .. b : x = s[i]
      BY <2>1, <2>3, <3>2
    <3>3. ASSUME NEW i \in a .. b, x = s[i] PROVE \E j \in DOMAIN t : x = t[j]
      BY <2>2, <3>3
    <3>. QED
      BY <3>1, <3>2, <3>3
  <2>. QED
    BY <2>4 DEF t
<1>. QED
  BY <1>1, <1>2, <1>3

\* What is on the chain are the transactions given, each with the operations of its events
ChainInv == \A o \in Op : mined[o] # NoTx => mined[o] \in Tx /\ o \in OpsOf(mined[o])

LEMMA ChainInvStep == ServInv /\ ChainInv /\ [Next]_vars => ChainInv'
<1>. SUFFICES ASSUME ServInv, ChainInv, [Next]_vars PROVE ChainInv'
  OBVIOUS
<1>1. CASE mined' = mined
  BY <1>1 DEF ChainInv
<1>2. ASSUME NEW tx \in Tx, Mine(tx) PROVE ChainInv'
  <2>1. \A o \in Op : mined'[o] = IF o \in OpsOf(tx) THEN tx ELSE mined[o]
    BY <1>2 DEF Mine
  <2>. QED
    BY <2>1 DEF ChainInv
<1>3. ASSUME NEW h \in Conn, HandlerStep(h) PROVE mined' = mined
  BY <1>3 DEF HandlerStep, ClientVersion, Unsupported, ClearState, ChainId, SendUserOperation, RunExclusive,
           Validated, AddUserOp, AttemptBundle, UserOpHash, EstimateGas, QueryEvent, GetUserOperationReceipt,
           GetUserOperationByHash, HandlerFails, OnlyCall
<1>4. CASE BootStep
  BY <1>1, <1>4 DEF BootStep, GetNetwork, EntryPointDeployed, WalletBalance, FundWallet, CheckConditional, CheckTrace,
                PreflightCode, PreflightSimulate, PreflightBalance, Announce, Undeployed, BootFails,
                OnlyBoot, Enter, Exit, handlerVars
<1>5. CASE Bundling
  BY <1>1, <1>5 DEF Bundling, Revalidate, Revalidated, Forget, handlerVars
<1>. QED
  BY <1>1, <1>2, <1>3, <1>4, <1>5
     DEF Next, vars, Execute, Handle, Request, Response, MineTxs, MineTransfer, Deployment, Elsewhere,
         Validating, handlerVars

\* What LogsComplete says of one operation, whose event is at e
Whole(o, e, logs, own, got) ==
  /\ {logs[i] : i \in own} \subseteq ToSet(got) /\ Cardinality(own) <= Len(got)
  /\ \A l \in ToSet(got) : l = Own(o) \/ (l.kind # "deploy" /\ l.op \in Before(e, logs))
  /\ Before(e, logs) = {} => Len(got) = Cardinality(own)

LEMMA LogsOf ==
  ASSUME NEW o \in Op, NEW logs, Grouped(logs),
         NEW e \in DOMAIN logs, logs[e].kind = "event", logs[e].op = o,
         NEW b \in DOMAIN logs, Positions("begin", logs) = {b},
         NEW own, own = {i \in Positions("exec", logs) : logs[i].op = o},
         NEW got, got = FilterLogs(o, logs)
  PROVE  Whole(o, e, logs, own, got)
<1>. DEFINE Log == [kind : {"deploy", "begin", "exec", "event"}, op : Op \cup {NoOp}]
            N == Len(logs)
<1>1. logs \in Seq(Log) /\ N \in Nat /\ DOMAIN logs = 1 .. N /\ \A i \in 1 .. N : logs[i] \in Log
  <2>1. logs \in Seq(Log)
    BY DEF Grouped
  <2>. HIDE DEF Log
  <2>. QED
    BY <2>1
<1>2. b \in 1 .. N /\ e \in 1 .. N /\ \A j \in 1 .. N : logs[j].kind = "begin" <=> j = b
  BY <1>1 DEF Positions
<1>3. b < e
  <2>1. \E j \in 1 .. e : logs[j].kind = "begin"
    BY <1>1 DEF Grouped
  <2>. QED
    BY <1>1, <1>2, <2>1
<1>4. \A j \in DOMAIN logs : logs[j].kind = "begin" => j <= b
  BY <1>1, <1>2
<1>5. logs[b].kind = "begin"
  BY <1>2
<1>6. got = SubSeq(logs, b + 1, e - 1)
  <2>1. Found(o, logs) = [start |-> b, end |-> IF b < e THEN e ELSE b]
    BY <1>4, <1>5, FoundIs
  <2>2. Found(o, logs).start = b /\ Found(o, logs).end = e
    BY <1>3, <2>1
  <2>. HIDE DEF Log
  <2>3. FilterLogs(o, logs) = SubSeq(logs, b + 1, e - 1)
    BY <2>2, Zenon DEF FilterLogs
  <2>. QED
    BY <2>3
<1>7. Len(got) = (e - 1) - b
  <2>. HIDE DEF Log
  <2>1. ASSUME NEW x, NEW y, x = b + 1, y = e - 1 PROVE Len(SubSeq(logs, x, y)) = y - b
    BY <2>1, <1>1, <1>2, <1>3
  <2>. QED
    BY <1>6, <2>1
<1>8. \A x : x \in ToSet(got) <=> \E i \in b + 1 .. e - 1 : x = logs[i]
  <2>. DEFINE x1 == b + 1
              y1 == e - 1
  <2>1. x1 \in 1 .. Len(logs) + 1 /\ y1 \in 0 .. Len(logs)
    BY <1>1, <1>2
  <2>2. got = SubSeq(logs, x1, y1)
    BY <1>6
  <2>. HIDE DEF Log, x1, y1
  <2>3. \A x : x \in ToSet(got) <=> \E i \in x1 .. y1 : x = logs[i]
    BY <1>1, <2>1, <2>2, Slice
  <2>. QED
    BY <2>3 DEF x1, y1
\* each of its own logs is in the slice
<1>9. own \subseteq b + 1 .. e - 1
  <2>. SUFFICES ASSUME NEW j \in own PROVE j \in b + 1 .. e - 1
    OBVIOUS
  <2>1. j \in 1 .. N /\ logs[j].kind = "exec" /\ logs[j].op = o
    BY <1>1 DEF Positions
  <2>2. PICK f \in 1 .. N : /\ j < f /\ logs[f].kind = "event" /\ logs[f].op = o
                            /\ \A i \in j .. f - 1 : logs[i] = logs[j]
    <3>1. \A x \in DOMAIN logs : logs[x].kind = "exec" =>
             \E f \in DOMAIN logs : /\ x < f /\ logs[f].kind = "event" /\ logs[f].op = logs[x].op
                                    /\ \A i \in x .. f - 1 : logs[i] = logs[x]
      BY DEF Grouped
    <3>. HIDE DEF Log
    <3>. QED
      BY <1>1, <2>1, <3>1
  <2>3. f = e
    BY <1>1, <1>2, <2>2 DEF Grouped
  <2>4. b \notin j .. f - 1
    BY <1>5, <2>1, <2>2
  <2>. QED
    BY <1>1, <1>2, <1>3, <2>1, <2>2, <2>3, <2>4
\* what else is in it was executed before
<1>10. ASSUME NEW j \in b + 1 .. e - 1
       PROVE  /\ j \in own \/ (logs[j].kind # "deploy" /\ logs[j].op \in Before(e, logs))
              /\ j \in own => logs[j] = Own(o)
  <2>1. j \in 1 .. N /\ j < e /\ b < j /\ logs[j].kind # "begin" /\ logs[j] \in Log
    BY <1>1, <1>2, <1>10
  <2>2. logs[j].kind # "deploy"
    <3>1. \A i \in j .. e : logs[i].kind # "begin"
      BY <1>1, <1>2, <2>1
    <3>. QED
      BY <1>1, <1>2, <2>1, <3>1 DEF Grouped
  <2>3. CASE logs[j].kind = "event"
    BY <1>1, <2>1, <2>3 DEF Before, Positions
  <2>4. CASE logs[j].kind = "exec"
    <3>1. PICK f \in 1 .. N : /\ j < f /\ logs[f].kind = "event" /\ logs[f].op = logs[j].op
                              /\ \A i \in j .. f - 1 : logs[i] = logs[j]
      BY <1>1, <2>1, <2>4 DEF Grouped
    <3>2. ~(e < f)
      <4>. SUFFICES ASSUME e < f PROVE FALSE
        OBVIOUS
      <4>1. e \in j .. f - 1
        BY <1>1, <1>2, <2>1
      <4>. QED
        BY <4>1, <3>1, <2>4
    <3>3. CASE f = e
      <4>1. j \in own
        BY <1>1, <2>1, <2>4, <3>1, <3>3 DEF Positions
      <4>2. logs[j] = Own(o)
        BY <2>1, <2>4, <3>1, <3>3 DEF Own
      <4>. QED
        BY <4>1, <4>2
    <3>4. CASE f < e
      <4>1. logs[j].op \in Before(e, logs)
        BY <1>1, <3>1, <3>4 DEF Before, Positions
      <4>2. f # e /\ logs[f].op # o
        BY <1>1, <1>2, <3>1, <3>4 DEF Grouped
      <4>3. j \notin own
        BY <3>1, <4>2
      <4>. QED
        BY <2>2, <4>1, <4>3
    <3>. QED
      BY <1>1, <1>2, <3>1, <3>2, <3>3, <3>4
  <2>. QED
    BY <2>1, <2>2, <2>3, <2>4 DEF Positions
<1>11. IsFiniteSet(b + 1 .. e - 1) /\ Cardinality(b + 1 .. e - 1) = (e - 1) - b
  <2>. DEFINE x1 == b + 1
              y1 == e - 1
  <2>1. x1 \in Int /\ y1 \in Int
    BY <1>1, <1>2
  <2>2. IsFiniteSet(x1 .. y1) /\ Cardinality(x1 .. y1) = IF x1 > y1 THEN 0 ELSE y1 - x1 + 1
    <3>. HIDE DEF x1, y1
    <3>. QED
      BY <2>1, FS_Interval, Zenon
  <2>3. (IF x1 > y1 THEN 0 ELSE y1 - x1 + 1) = (e - 1) - b
    BY <1>1, <1>2, <1>3
  <2>. QED
    BY <2>2, <2>3
<1>12. Cardinality(own) <= Len(got)
  <2>1. Cardinality(own) <= Cardinality(b + 1 .. e - 1)
    BY <1>9, <1>11, FS_Subset
  <2>. QED
    BY <1>7, <1>11, <2>1
<1>13. Before(e, logs) = {} => Len(got) = Cardinality(own)
  <2>. SUFFICES ASSUME Before(e, logs) = {} PROVE own = b + 1 .. e - 1
    BY <1>7, <1>11
  <2>. QED
    BY <1>9, <1>10
<1>14. {logs[i] : i \in own} \subseteq ToSet(got)
  BY <1>8, <1>9
<1>15. \A l \in ToSet(got) : l = Own(o) \/ (l.kind # "deploy" /\ l.op \in Before(e, logs))
  BY <1>8, <1>10
<1>. QED
  BY <1>12, <1>13, <1>14, <1>15 DEF Whole

(* Of one bundle, no log of an operation is lost, and no other one comes   *)
(* with them but those of operations executed before it, in every          *)
(* transaction the EntryPoint can leave (UserOpMethodHandler.ts:239-271).  *)
THEOREM LogsCompleteAlways == Spec => []LogsComplete
<1>1. Init => ChainInv
  <2>. SUFFICES ASSUME Init PROVE ChainInv
    OBVIOUS
  <2>1. CASE mined = [o \in Op |-> NoTx]
    BY <2>1 DEF ChainInv
  <2>2. ASSUME NEW tx \in Tx, mined = [o \in Op |-> IF o \in OpsOf(tx) THEN tx ELSE NoTx]
        PROVE  ChainInv
    BY <2>2 DEF ChainInv
  <2>. QED
    BY <2>1, <2>2 DEF Init, HandlerInit
<1>2. ChainInv => LogsComplete
  <2>. SUFFICES ASSUME ChainInv, NEW o \in Op, mined[o] # NoTx,
                       NEW b \in Positions("begin", mined[o].logs), NEW e \in Positions("event", mined[o].logs),
                       Positions("begin", mined[o].logs) = {b}, mined[o].logs[e].op = o
                PROVE  Whole(o, e, mined[o].logs, {i \in Positions("exec", mined[o].logs) : mined[o].logs[i].op = o},
                             FilterLogs(o, mined[o].logs))
    BY DEF LogsComplete, Whole
  <2>. DEFINE logs == mined[o].logs
              own == {i \in Positions("exec", logs) : logs[i].op = o}
              got == FilterLogs(o, logs)
  <2>1. Grouped(logs)
    BY HandlerAssumption DEF ChainInv
  <2>2. b \in DOMAIN logs /\ e \in DOMAIN logs /\ logs[e].kind = "event"
    BY DEF Positions
  <2>3. own = {i \in Positions("exec", logs) : logs[i].op = o} /\ got = FilterLogs(o, logs)
    OBVIOUS
  <2>4. Positions("begin", logs) = {b} /\ logs[e].op = o
    OBVIOUS
  <2>5. Whole(o, e, logs, own, got)
    <3>. HIDE DEF logs, own, got
    <3>. QED
      BY <2>1, <2>2, <2>3, <2>4, LogsOf
  <2>. QED
    BY <2>5
<1>. QED
  BY <1>1, <1>2, ServInvAlways, ChainInvStep, PTL DEF Spec
=============================================================================
