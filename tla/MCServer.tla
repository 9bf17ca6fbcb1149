------------------------------ MODULE MCServer ------------------------------
(* Either a plain start with two connections, or any start without requests. *)
EXTENDS Server

CONSTANTS o1, o2, h1, h2, me, other

MCWindow == o1 :> [after |-> 0, until |-> 9] @@ o2 :> [after |-> 1, until |-> 3]
MCRest == o1 :> 46000 @@ o2 :> 65770

Log(kind, o) == [kind |-> kind, op |-> o]
Ops(ops) == <<Log("begin", NoOp)>> \o FlattenSeq([i \in DOMAIN ops |-> <<Log("exec", ops[i]), Log("exec", ops[i]), Log("event", ops[i])>>])
MCTx == {[call |-> "handleOps", logs |-> <<Log("deploy", o2)>> \o Ops(<<o1, o2>>)],
         [call |-> "other", logs |-> Ops(<<o2>>) \o <<Log("deploy", o1)>> \o Ops(<<o1>>)]}

C(method, o, gas, flaw) == [method |-> method, op |-> o, gas |-> gas, from |-> 0, flaw |-> flaw]
\* an operation sent with the estimate of one that had the field from
Quoted(o, from) == [C("eth_sendUserOperation", o, "estimate", "") EXCEPT !.from = from]
Send(o) == C("eth_sendUserOperation", o, "ample", "")
Get(what, o) == C(what, o, "ample", "")
Clear == C("debug_bundler_clearState", o1, "ample", "")
Receipt == "eth_getUserOperationReceipt"

\* one connection sends and asks for the outcome, the other interferes
First == {<<Send(o1)>>}
Second == {<<Clear>>, <<Send(o1)>>, <<Send(o2)>>}
\* each method, and each way to get its parameters wrong, on its own
Alone == {C("eth_sendUserOperation", o1, "sdk", f) : f \in {"", "noPoint", "otherPoint", "noOp", "field", "short"}}
         \cup {C("eth_sendUserOperation", o2, "sdk", ""), Send(o2)}
         \cup {Quoted(o, from) : o \in Op, from \in {0, 65770, 65794}}
         \cup {C("eth_estimateUserOperationGas", o1, "ample", f) : f \in {"", "noOp", "field"}}
         \cup {C(m, o1, "ample", f) : m \in {Receipt, "eth_getUserOperationByHash"}, f \in {"", "field"}}
         \cup {Clear, Get(Receipt, o2)} \cup {Get(m, o1) : m \in {"eth_chainId", "web3_clientVersion", "other"}}

\* several calls of one request, answered in one array
Batches == {<<Send(o1), C("eth_sendUserOperation", o1, "sdk", "noOp"), Get(Receipt, o1)>>, <<Clear, Send(o1)>>}

Plain == [local |-> TRUE, debugRpc |-> "unset", conditional |-> FALSE,
          hasConditional |-> FALSE, hasTrace |-> TRUE, entryPoint |-> "usual", version |-> TRUE]
Query(c) == c.method \in {Receipt, "eth_getUserOperationByHash"}
NoneMined == mined = [o \in Op |-> NoTx]
AllMined == mined = [o \in Op |-> CHOOSE tx \in Tx : tx.call = "handleOps"]
Still == code = [o \in Op |-> MaxCode]

\* two connections to a server that runs
Concurrent ==
  /\ cfg = Plain /\ phase = "running" /\ debugRpc = TRUE
  /\ dep = [t \in DeployTask |-> "found"]
  /\ onChain = {"proxy", "contract"} /\ instant = TRUE /\ signer = "funded" /\ unsafe = FALSE
  /\ now = MaxTime /\ code = [o \in Op |-> IF o = o1 THEN 0 ELSE MaxCode] /\ NoneMined
  /\ todo \in {h1 :> a @@ h2 :> b : a \in First, b \in Second}

\* one connection, while the server starts
Starting ==
  /\ cfg \in {Plain, [Plain EXCEPT !.debugRpc = "no"]} /\ phase = "network" /\ debugRpc = FALSE
  /\ dep = [t \in DeployTask |-> IF t = me THEN "idle" ELSE "found"]
  /\ onChain = {"proxy", "contract"} /\ instant = TRUE /\ signer = "funded"
  /\ unsafe \in BOOLEAN
  /\ Still
  /\ \E calls \in {<<c>> : c \in Alone} \cup Batches :
       /\ todo = (h1 :> calls @@ h2 :> <<>>)
       /\ now = (IF calls[1].op = o2 THEN 0 ELSE MaxTime)
       /\ IF Query(calls[1]) THEN NoneMined ELSE AllMined

\* no request, and every option and network
Booting ==
  /\ cfg \in {c \in Config : c.debugRpc = "unset" /\ (c.hasConditional => c.conditional)}
  /\ unsafe \in BOOLEAN /\ (cfg.hasTrace => ~unsafe)
  /\ phase = "network" /\ debugRpc = FALSE
  /\ dep = [t \in DeployTask |-> "idle"]
  /\ instant \in BOOLEAN /\ onChain \in {{}, {"proxy"}, {"proxy", "contract"}}
  /\ signer \in {"empty", "funded"}
  /\ now = MaxTime /\ Still /\ AllMined
  /\ todo = [h \in Conn |-> <<>>]

MCInit == /\ Concurrent \/ Starting \/ Booting
          /\ why = ""
          /\ ValInit /\ HandlerInit
          /\ inPool = {}
MCSpec == MCInit /\ [][Next]_vars
MCFairSpec == MCSpec /\ Fairness
=============================================================================
