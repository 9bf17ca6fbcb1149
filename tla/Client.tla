------------------------------- MODULE Client -------------------------------
(***************************************************************************)
(* The SDK as an application uses it: wrapProvider, then operations sent   *)
(* through ERC4337EthersSigner and HttpRpcClient and awaited through       *)
(* ERC4337EthersProvider.  The bundler and the chain are environment.      *)
(***************************************************************************)
EXTENDS Listener, Deployer

CONSTANTS Me,      \* the deployment task of this client
          Given,   \* the nonces an application may give
          Awaited  \* the operations whose inclusion it awaits

ASSUME ClientAssumption ==
  /\ MaxNonce \in Nat \ {0} /\ MaxBlocks \in Nat
  /\ NoNonce \notin Nonce /\ Given \subseteq Nonce
  /\ Awaited \subseteq Op /\ Me \in DeployTask

VARIABLES phase,   \* where wrapProvider is
          rpc,     \* HttpRpcClient.initializing
          wait     \* wait[o]: what wait() of the response to o is at

clientVars == <<phase, rpc, wait>>
vars == <<listenerVars, accountVars, depVars, clientVars>>

ClientTypeOK ==
  /\ ListenerTypeOK /\ AccountTypeOK /\ DepTypeOK
  /\ phase \in {"deploy", "init", "address", "ready", "failed"}
  /\ rpc \in {"none", "asked", "valid", "refused"}
  /\ wait \in [Op -> {"none", "promise", "coded", "resolved", "rejected"}]

Init == /\ ListenerInit /\ AccountInit /\ DepInit
        /\ deployed => "contract" \in onChain
        /\ phase = "deploy"
        /\ rpc = "none"
        /\ wait = [o \in Op |-> "none"]

-----------------------------------------------------------------------------
\* wrapProvider deploys the account's factory.  With the provider's chain id it
\* makes the HttpRpcClient, whose constructor asks the bundler for its own; every
\* call of the client awaits the answer first.
Deployment(t) == /\ DeployStep(t) \/ Deploy(t)
                 /\ UNCHANGED <<listenerVars, accountVars, clientVars>>
Connect == /\ phase = "deploy" /\ dep[Me] \in Finished
           /\ phase' = "init" /\ rpc' = "asked"
           /\ UNCHANGED <<listenerVars, accountVars, depVars, wait>>
ValidateChainId(same) == /\ rpc = "asked"
                         /\ rpc' = IF same THEN "valid" ELSE "refused"
                         /\ UNCHANGED <<listenerVars, accountVars, depVars, phase, wait>>

\* ERC4337EthersProvider.init: the EntryPoint must have code
InitProvider == /\ phase = "init" /\ phase' = "address"
                /\ UNCHANGED <<listenerVars, accountVars, depVars, rpc, wait>>

\* getAccountAddress asks the EntryPoint what the factory would create, which is
\* the zero address while the factory has no code
CounterFactual == IF "contract" \in onChain THEN "account" ELSE "zero"
GetAddress == /\ phase = "address" /\ phase' = "ready"
              /\ address' = CounterFactual
              /\ UNCHANGED <<listenerVars, depVars, deployed, chainNonce, isPhantom,
                             creationVars, rpc, wait>>
WrapFails == /\ \/ phase = "deploy" /\ dep[Me] \in Failed
                \/ phase \in {"init", "address"}
             /\ phase' = "failed"
             /\ UNCHANGED <<listenerVars, accountVars, depVars, rpc, wait>>

-----------------------------------------------------------------------------
\* sendTransaction: the operation is created and signed, the response made, and
\* the operation sent; an error of the bundler, or of the chain id's check, is
\* thrown to the application
SendTransaction(o) == /\ phase = "ready"
                      /\ \E given \in Given \cup {NoNonce} : Create(o, given)
                      /\ UNCHANGED <<listenerVars, depVars, clientVars>>
Creation(o) == CreationStep(o) /\ UNCHANGED <<listenerVars, depVars, clientVars>>
SendUserOp(o) == /\ rpc = "valid"
                 /\ At(o, "send", "sent") /\ OnlyStep
                 /\ UNCHANGED <<listenerVars, depVars, clientVars>>
SendFails(o) == /\ rpc \in {"valid", "refused"}
                /\ At(o, "send", "failed") /\ OnlyStep
                /\ UNCHANGED <<listenerVars, depVars, clientVars>>

-----------------------------------------------------------------------------
\* wait(): the listener's promise, and then whether the account is deployed
\* (the length of initCode is never 0: it is "0x" when empty)
Wait(o) == /\ o \in Awaited /\ step[o] = "sent" /\ wait[o] = "none" /\ poll[o] = "off"
           /\ Start(o)
           /\ wait' = [wait EXCEPT ![o] = "promise"]
           /\ UNCHANGED <<accountVars, depVars, phase, rpc>>
Listening(o) == ListenerStep(o) /\ UNCHANGED <<accountVars, depVars, clientVars>>
Waited(o, from, to) == wait[o] = from /\ wait' = [wait EXCEPT ![o] = to]
Rejected(o) == /\ promise[o] \in {"reverted", "timeout"}
               /\ Waited(o, "promise", "rejected")
               /\ UNCHANGED <<listenerVars, accountVars, depVars, phase, rpc>>
WaitCode(o) == /\ promise[o] \in {"receipt", "failed"}
               /\ Waited(o, "promise", IF isPhantom THEN "coded" ELSE "resolved")
               /\ saw' = [saw EXCEPT ![o] = HasCode]
               /\ UNCHANGED <<listenerVars, depVars, deployed, chainNonce, isPhantom,
                              address, step, initCode, nonce, begun, phase, rpc>>
\* (a mutant of it: the answer is not kept)
WaitForgets(o) == /\ Waited(o, "coded", "resolved")
                  /\ UNCHANGED <<listenerVars, accountVars, depVars, phase, rpc>>
WaitDone(o) == /\ Waited(o, "coded", "resolved")
               /\ isPhantom' = NowPhantom(o)
               /\ UNCHANGED <<listenerVars, depVars, deployed, chainNonce, address,
                              creationVars, phase, rpc>>
WaitFails(o) == /\ Waited(o, "coded", "rejected")
                /\ UNCHANGED <<listenerVars, accountVars, depVars, phase, rpc>>

\* getUserOpReceipt, for an application that polls instead
PollFor(o) == /\ o \in Awaited /\ step[o] = "sent" /\ wait[o] = "none"
              /\ Poll(o)
              /\ UNCHANGED <<accountVars, depVars, clientVars>>
Polling(o) == PollStep(o) /\ UNCHANGED <<accountVars, depVars, clientVars>>
PollEnds(o) == PollExpire(o) /\ UNCHANGED <<accountVars, depVars, clientVars>>

-----------------------------------------------------------------------------
\* External: the bundler and the chain.  The EntryPoint executes an operation
\* with the account's nonce, and with code if and only if the account has none.
Valid(o) == /\ step[o] = "sent" /\ address = "account"
            /\ nonce[o] = chainNonce /\ initCode[o] = ~deployed
NewBlock == height < MaxBlocks /\ height' = height + 1
UseNonce == /\ chainNonce < MaxNonce /\ chainNonce' = chainNonce + 1
            /\ "contract" \in onChain /\ deployed' = TRUE
MineOp(o) ==
  /\ Valid(o) /\ ~Mined(o)
  /\ NewBlock /\ UseNonce
  /\ \E success, reason \in BOOLEAN :
       event' = [event EXCEPT ![o] = [block |-> height', success |-> success,
                                      reason |-> reason /\ ~success]]
  /\ UNCHANGED <<lsnVars, pollVars, isPhantom, address, creationVars, depVars, clientVars>>
\* blocks with operations of the account sent elsewhere, and without any
MineOther == /\ NewBlock /\ UseNonce
             /\ UNCHANGED <<event, lsnVars, pollVars, isPhantom, address, creationVars,
                            depVars, clientVars>>
MineEmpty == NewBlock /\ UNCHANGED <<event, lsnVars, pollVars, accountVars, depVars, clientVars>>
MineTxs == (\E x \in Txs : MineTx(x)) /\ UNCHANGED <<listenerVars, accountVars, clientVars>>

-----------------------------------------------------------------------------
ClientStep(o) == \/ Creation(o) \/ SendUserOp(o) \/ SendFails(o) \/ Listening(o)
                 \/ Rejected(o) \/ WaitCode(o) \/ WaitDone(o) \/ WaitFails(o) \/ Polling(o)
StartStep == \/ Connect \/ InitProvider \/ GetAddress \/ WrapFails
             \/ \E same \in BOOLEAN : ValidateChainId(same)
Next == \/ \E t \in DeployTask : Deployment(t)
        \/ StartStep
        \/ \E o \in Op : SendTransaction(o) \/ ClientStep(o) \/ Wait(o) \/ PollFor(o) \/ MineOp(o)
        \/ MineOther \/ MineEmpty \/ MineTxs
Spec == Init /\ [][Next]_vars

\* The event loop runs every continuation, timers fire, and the node and the
\* bundler answer or the provider gives up; nothing need ever be mined or sent.
Fairness == /\ WF_vars(StartStep)
            /\ \A o \in Op : WF_vars(ClientStep(o))
            /\ \A o \in Awaited : WF_vars(PollEnds(o))
FairSpec == Spec /\ Fairness

-----------------------------------------------------------------------------
\* A wait that resolves leaves the account known as deployed ("it must be if we
\* are here", ERC4337EthersProvider.ts:156-159), so that no later operation
\* carries code; and each operation that resolved took a nonce of its own.
WaitedDeployed ==
  \A o \in Op : wait[o] = "resolved" =>
    /\ ~isPhantom /\ Mined(o)
    /\ \A q \in Op \ {o} : Mined(q) => nonce[q] # nonce[o]

\* The account's address is wrong only where this client has itself sent the factory's
\* creation, to a node that mines later: never when it found the factory deployed, or
\* lost the race for it to another program (DeterministicDeployer.ts:115-123,
\* Provider.ts:32-60).
AddressForCause == address = "zero" => ~instant /\ dep[Me] = "sent"

\* Every transaction sent, every wait and every poll ends, whatever becomes of the
\* operation and of the requests to node and bundler.
Busy(o) == \/ step[o] \in Creating \cup {"send"}
           \/ wait[o] \in {"promise", "coded"}
           \/ poll[o] \in {"ask", "sleep"}
EveryCallEnds == \A o \in Op : Busy(o) ~> ~Busy(o)
=============================================================================
