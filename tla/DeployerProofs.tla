--------------------------- MODULE DeployerProofs ---------------------------
(* Facts about DeterministicDeployer, for any number of programs that      *)
(* deploy at once, on which the proofs about client and server rest.       *)
EXTENDS Deployer, TLAPS

LEMMA DeployType ==
  ASSUME DepTypeOK, NEW t \in DeployTask, DeployStep(t) \/ Deploy(t)
  PROVE  DepTypeOK'
<1>. USE DEF DepTypeOK, Goto, Look, Steps, Finished, Failed, Txs
<1>1. CASE Deploy(t) \/ IsDeployed(t) \/ IsDeployerDeployed(t) \/ GetBalance(t) \/ Recheck(t)
  BY <1>1 DEF Deploy, IsDeployed, IsDeployerDeployed, GetBalance, Recheck
<1>2. CASE FundSigner(t) \/ SendRaw(t) \/ SendCreation(t)
  BY <1>2 DEF FundSigner, SendRaw, SendCreation, SendTx, Executed
<1>3. CASE CreationRefused(t) \/ DeployFails(t)
  BY <1>3 DEF CreationRefused, DeployFails
<1>. QED
  BY <1>1, <1>2, <1>3 DEF DeployStep

LEMMA MineTxType ==
  ASSUME DepTypeOK, NEW x \in Txs, MineTx(x)
  PROVE  DepTypeOK'
  BY DEF DepTypeOK, MineTx, Executed, Txs, Steps

(* A program that has found the contract has it on the chain; one that has *)
(* sent its creation has it there or, on a node that mines later, in the   *)
(* pool, where the proxy it needs is there already.                        *)
DoneInv ==
  /\ \A t \in DeployTask : /\ dep[t] = "found" => "contract" \in onChain
                           /\ dep[t] = "sent" => "contract" \in onChain \/ (~instant /\ "contract" \in inPool)
  /\ "contract" \in inPool => "proxy" \in onChain

\* What no step of a deployment takes back
Kept == /\ instant' = instant
        /\ "contract" \in onChain => "contract" \in onChain'
        /\ \A t \in DeployTask : dep[t] \in Finished => dep'[t] = dep[t]

LEMMA DeployKeeps ==
  ASSUME DepTypeOK, DoneInv, NEW t \in DeployTask, DeployStep(t) \/ Deploy(t)
  PROVE  DoneInv' /\ Kept
<1>. USE DEF DepTypeOK, DoneInv, Kept, Goto, Look, Steps, Finished, Failed, Txs
<1>1. CASE Deploy(t) \/ IsDeployerDeployed(t) \/ GetBalance(t) \/ Recheck(t) \/ CreationRefused(t)
          \/ DeployFails(t)
  BY <1>1 DEF Deploy, IsDeployerDeployed, GetBalance, Recheck, CreationRefused, DeployFails
<1>2. CASE IsDeployed(t)
  BY <1>2 DEF IsDeployed
<1>3. CASE FundSigner(t)
  BY <1>3 DEF FundSigner, SendTx, Executed
<1>4. CASE SendRaw(t)
  BY <1>4 DEF SendRaw, SendTx, Executed
<1>5. CASE SendCreation(t)
  BY <1>5 DEF SendCreation, SendTx, Executed, Executable
<1>. QED
  BY <1>1, <1>2, <1>3, <1>4, <1>5 DEF DeployStep

LEMMA MineKeeps ==
  ASSUME DepTypeOK, DoneInv, NEW x \in Txs, MineTx(x)
  PROVE  DoneInv' /\ Kept
<1>. USE DEF DepTypeOK, DoneInv, Kept, Finished, MineTx, Executed, Executable, Txs
<1>1. CASE x = "fund"
  BY <1>1
<1>2. CASE x = "proxy"
  BY <1>2
<1>3. CASE x = "contract"
  BY <1>3
<1>. QED
  BY <1>1, <1>2, <1>3
=============================================================================
