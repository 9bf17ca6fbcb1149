------------------------------ MODULE Deployer ------------------------------
(***************************************************************************)
(* DeterministicDeployer: a contract is deployed at an address known in    *)
(* advance, through a proxy that is itself deployed by a presigned         *)
(* transaction once its signer has been funded.  Several programs may do   *)
(* this at once on one chain; each awaits the node between any two steps.  *)
(* The node mines a transaction when it is sent (instant) or later.        *)
(***************************************************************************)
EXTENDS Naturals

CONSTANT DeployTask

VARIABLES instant,  \* whether the node mines a transaction when it is sent
          onChain,  \* those of "fund", "proxy", "contract" the chain has executed
          inPool,   \* those the node has accepted and not yet mined
          dep       \* dep[t]: where deterministicDeploy of t is

depVars == <<instant, onChain, inPool, dep>>

Steps == {"idle", "check", "factory", "balance", "fund", "proxy", "recheck",
          "contract", "found", "sent", "refused", "failed"}
Finished == {"found", "sent"}   \* the address was returned
Txs == {"fund", "proxy", "contract"}

DepTypeOK == /\ instant \in BOOLEAN
             /\ onChain \subseteq Txs
             /\ inPool \subseteq Txs
             /\ dep \in [DeployTask -> Steps]

DepInit == /\ instant \in BOOLEAN
           /\ onChain \in {{}, {"proxy"}, {"proxy", "contract"}}
           /\ inPool = {}
           /\ dep = [t \in DeployTask |-> "idle"]

-----------------------------------------------------------------------------
\* The chain, external: the presigned transaction spends what its signer was
\* funded with, the creation needs a proxy to call, neither can succeed twice.
Executable(x) == CASE x = "fund" -> TRUE
                   [] x = "proxy" -> "fund" \in onChain /\ "proxy" \notin onChain
                   [] x = "contract" -> "proxy" \in onChain /\ "contract" \notin onChain
Executed(x) == (IF x = "proxy" THEN onChain \ {"fund"} ELSE onChain) \cup {x}

MineTx(x) == /\ x \in inPool
             /\ inPool' = inPool \ {x}
             /\ onChain' = IF Executable(x) THEN Executed(x) ELSE onChain
             /\ UNCHANGED <<instant, dep>>

\* the node takes no transaction that would fail, and none it has already
SendTx(x) == /\ Executable(x)
             /\ IF instant THEN onChain' = Executed(x) /\ UNCHANGED inPool
                           ELSE inPool' = inPool \cup {x} /\ UNCHANGED onChain

-----------------------------------------------------------------------------
Goto(t, from, to) == dep[t] = from /\ dep' = [dep EXCEPT ![t] = to] /\ UNCHANGED instant
Look(t, from, to) == Goto(t, from, to) /\ UNCHANGED <<onChain, inPool>>

Deploy(t) == Look(t, "idle", "check")

\* deterministicDeploy: nothing to do when there is code at the address
IsDeployed(t) == Look(t, "check", IF "contract" \in onChain THEN "found" ELSE "factory")

\* deployFactory: the same for the proxy; the signer is funded if need be, the
\* transaction broadcast, and the proxy must then be there
IsDeployerDeployed(t) == Look(t, "factory", IF "proxy" \in onChain THEN "contract" ELSE "balance")
GetBalance(t) == Look(t, "balance", IF "fund" \in onChain THEN "proxy" ELSE "fund")
FundSigner(t) == SendTx("fund") /\ Goto(t, "fund", "proxy")
SendRaw(t) == "proxy" \notin inPool /\ SendTx("proxy") /\ Goto(t, "proxy", "recheck")
Recheck(t) == Look(t, "recheck", IF "proxy" \in onChain THEN "contract" ELSE "failed")

\* the creation is sent but not awaited: its address is returned at once
\* (a mutant of it: nothing is sent)
SendNothing(t) == Look(t, "contract", "sent")
SendCreation(t) == SendTx("contract") /\ Goto(t, "contract", "sent")

\* the creation of a contract that is there by now reverts: an exception
CreationRefused(t) == "contract" \in onChain /\ Look(t, "contract", "refused")

\* an exception: the node fails or rejects a transaction
Failed == {"refused", "failed"}
DeployFails(t) == /\ dep[t] \notin {"idle"} \cup Failed \cup Finished
                  /\ Look(t, dep[t], "failed")

DeployStep(t) == \/ IsDeployed(t) \/ IsDeployerDeployed(t) \/ GetBalance(t)
                 \/ FundSigner(t) \/ SendRaw(t) \/ Recheck(t) \/ SendCreation(t)
                 \/ CreationRefused(t) \/ DeployFails(t)
=============================================================================
