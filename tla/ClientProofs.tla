---------------------------- MODULE ClientProofs ----------------------------
(* Theorems about the SDK's client, for any number of operations, of       *)
(* deploying programs, of nonces and of blocks.                            *)
EXTENDS Client, DeployerProofs

(* Type correctness                                                        *)

LEMMA CreationType ==
  ASSUME AccountTypeOK, NEW o \in Op, CreationStep(o)
  PROVE  AccountTypeOK'
<1>. USE ClientAssumption DEF AccountTypeOK, At, OnlyStep, Nonce, Creating
<1>1. CASE AskInitCode(o) \/ AskNonce(o)
  BY <1>1 DEF AskInitCode, AskNonce, AskCode, HasCode
<1>2. CASE GotInitCode(o)
  BY <1>2 DEF GotInitCode, NowPhantom
<1>3. CASE GotGas(o) \/ Sign(o) \/ CreationFails(o)
  BY <1>3 DEF GotGas, Sign, CreationFails
<1>4. CASE GotPhantom(o)
  BY <1>4 DEF GotPhantom, NowPhantom
<1>5. CASE GotNonce(o)
  BY <1>5 DEF GotNonce
<1>. QED
  BY <1>1, <1>2, <1>3, <1>4, <1>5 DEF CreationStep

LEMMA ListeningType ==
  ASSUME ListenerTypeOK, NEW o \in Op, ListenerStep(o) \/ Start(o)
  PROVE  ListenerTypeOK'
<1>. USE ClientAssumption DEF ListenerTypeOK, Await, Settle, chainVars, pollVars, lsnVars
<1>1. CASE Start(o)
  BY <1>1 DEF Start
<1>2. CASE Query(o)
  BY <1>2 DEF Query
<1>3. CASE Register(o) \/ Notify(o)
  BY <1>3 DEF Register, Notify
<1>4. CASE GotReceipt(o) \/ GotReason(o)
  BY <1>4 DEF GotReceipt, GotReason
<1>5. CASE Lost(o) \/ TimeOut(o)
  BY <1>5 DEF Lost, TimeOut
<1>. QED
  BY <1>1, <1>2, <1>3, <1>4, <1>5 DEF ListenerStep

LEMMA PollingType ==
  ASSUME ListenerTypeOK, NEW o \in Op, PollStep(o) \/ Poll(o)
  PROVE  ListenerTypeOK'
  BY DEF ListenerTypeOK, PollStep, Poll, PollAnswer, PollError, PollWake, PollExpire, Polled,
         chainVars, lsnVars

LEMMA ClientTypeStep ==
  ASSUME ClientTypeOK, [Next]_vars
  PROVE  ClientTypeOK'
<1>. USE ClientAssumption DEF ClientTypeOK
<1>1. ASSUME NEW t \in DeployTask, Deployment(t)
      PROVE  ClientTypeOK'
  BY <1>1, DeployType DEF Deployment, listenerVars, accountVars, clientVars, ListenerTypeOK, AccountTypeOK
<1>2. CASE MineTxs
  BY <1>2, MineTxType DEF MineTxs, listenerVars, accountVars, clientVars, ListenerTypeOK, AccountTypeOK
<1>3. CASE StartStep
  BY <1>3 DEF StartStep, Connect, InitProvider, GetAddress, WrapFails, ValidateChainId, CounterFactual,
              listenerVars, accountVars, creationVars, depVars, ListenerTypeOK, AccountTypeOK, DepTypeOK
<1>4. ASSUME NEW o \in Op, SendTransaction(o)
      PROVE  ClientTypeOK'
  BY <1>4 DEF SendTransaction, Create, At, listenerVars, depVars, clientVars, ListenerTypeOK,
              AccountTypeOK, DepTypeOK, Creating
<1>5. ASSUME NEW o \in Op, Creation(o)
      PROVE  ClientTypeOK'
  BY <1>5, CreationType DEF Creation, listenerVars, depVars, clientVars, ListenerTypeOK, DepTypeOK
<1>6. ASSUME NEW o \in Op, SendUserOp(o) \/ SendFails(o)
      PROVE  ClientTypeOK'
  BY <1>6 DEF SendUserOp, SendFails, At, OnlyStep, listenerVars, depVars, clientVars, ListenerTypeOK,
              AccountTypeOK, DepTypeOK
<1>7. ASSUME NEW o \in Op, Wait(o)
      PROVE  ClientTypeOK'
  BY <1>7, ListeningType DEF Wait, accountVars, depVars, AccountTypeOK, DepTypeOK
<1>8. ASSUME NEW o \in Op, Listening(o) \/ Polling(o) \/ PollFor(o)
      PROVE  ClientTypeOK'
  BY <1>8, ListeningType, PollingType
     DEF Listening, Polling, PollFor, accountVars, depVars, clientVars, AccountTypeOK, DepTypeOK
<1>9. ASSUME NEW o \in Op, Rejected(o) \/ WaitCode(o) \/ WaitDone(o) \/ WaitFails(o)
      PROVE  ClientTypeOK'
  <2>. USE DEF Waited, listenerVars, accountVars, creationVars, depVars, ListenerTypeOK, AccountTypeOK, DepTypeOK
  <2>1. CASE Rejected(o) \/ WaitFails(o)
    BY <2>1 DEF Rejected, WaitFails
  <2>2. CASE WaitCode(o)
    BY <2>2 DEF WaitCode, HasCode
  <2>3. CASE WaitDone(o)
    BY <2>3 DEF WaitDone, NowPhantom
  <2>. QED
    BY <1>9, <2>1, <2>2, <2>3
<1>10. ASSUME NEW o \in Op, MineOp(o)
       PROVE  ClientTypeOK'
  BY <1>10 DEF MineOp, NewBlock, UseNonce, Event, lsnVars, pollVars, creationVars, depVars, clientVars,
               ListenerTypeOK, AccountTypeOK, DepTypeOK, Nonce
<1>11. CASE MineOther
  BY <1>11 DEF MineOther, NewBlock, UseNonce, lsnVars, pollVars, creationVars, depVars, clientVars,
               ListenerTypeOK, AccountTypeOK, DepTypeOK, Nonce
<1>12. CASE MineEmpty
  BY <1>12 DEF MineEmpty, NewBlock, lsnVars, pollVars, accountVars, depVars, clientVars,
               ListenerTypeOK, AccountTypeOK, DepTypeOK
<1>13. CASE UNCHANGED vars
  BY <1>13 DEF vars, listenerVars, accountVars, depVars, clientVars, ListenerTypeOK, AccountTypeOK, DepTypeOK
<1>. QED
  BY <1>1, <1>2, <1>3, <1>4, <1>5, <1>6, <1>7, <1>8, <1>9, <1>10, <1>11, <1>12, <1>13 DEF Next, ClientStep

(* Every state the client can reach is of its type.                        *)
THEOREM ClientTypeCorrect == Spec => []ClientTypeOK
<1>1. Init => ClientTypeOK
  BY ClientAssumption DEF Init, ClientTypeOK, ListenerInit, ListenerTypeOK, AccountInit, AccountTypeOK,
     DepInit, DepTypeOK, Event, Nonce, Steps, Txs
<1>2. ClientTypeOK /\ [Next]_vars => ClientTypeOK'
  BY ClientTypeStep
<1>. QED
  BY <1>1, <1>2, PTL DEF Spec

-----------------------------------------------------------------------------
(* The factory                                                             *)

(* wrapProvider goes on only when its own deployment is done.              *)
DepInv ==
  /\ DoneInv
  /\ phase \in {"init", "address", "ready"} => dep[Me] \in Finished
  /\ AddressForCause

LEMMA DepOf ==
  ASSUME DepInv, DoneInv', Kept, UNCHANGED <<phase, address>>
  PROVE  DepInv'
  BY ClientAssumption DEF DepInv, Kept, Finished, AddressForCause

LEMMA DepStepKeeps ==
  ASSUME DepTypeOK, DepInv, [Next]_vars
  PROVE  DepInv'
<1>1. ASSUME NEW t \in DeployTask, Deployment(t)
      PROVE  DepInv'
  BY <1>1, DeployKeeps, DepOf DEF Deployment, accountVars, clientVars, DepInv
<1>2. CASE MineTxs
  BY <1>2, MineKeeps, DepOf DEF MineTxs, accountVars, clientVars, DepInv
<1>3. CASE Connect \/ InitProvider \/ WrapFails \/ \E same \in BOOLEAN : ValidateChainId(same)
  BY <1>3 DEF Connect, InitProvider, WrapFails, ValidateChainId, accountVars, depVars, DepInv, DoneInv,
              AddressForCause
<1>4. CASE GetAddress
  BY <1>4, ClientAssumption DEF GetAddress, CounterFactual, depVars, Finished, DepInv, DoneInv, AddressForCause
<1>5. CASE UNCHANGED <<depVars, phase, address>>
  BY <1>5 DEF depVars, DepInv, DoneInv, AddressForCause
<1>6. ASSUME NEW o \in Op, SendTransaction(o) \/ ClientStep(o) \/ Wait(o) \/ PollFor(o) \/ MineOp(o)
      PROVE  UNCHANGED <<depVars, phase, address>>
  <2>. USE DEF depVars, clientVars, accountVars
  <2>1. CASE SendTransaction(o) \/ SendUserOp(o) \/ SendFails(o)
    BY <2>1 DEF SendTransaction, Create, SendUserOp, SendFails, OnlyStep
  <2>2. CASE Creation(o)
    BY <2>2 DEF Creation, CreationStep, AskInitCode, GotInitCode, GotGas, AskNonce, GotPhantom, GotNonce,
                Sign, CreationFails, AskCode, OnlyStep
  <2>3. CASE Listening(o) \/ Polling(o) \/ Wait(o) \/ PollFor(o)
    BY <2>3 DEF Listening, Polling, Wait, PollFor
  <2>4. CASE Rejected(o) \/ WaitCode(o) \/ WaitDone(o) \/ WaitFails(o)
    BY <2>4 DEF Rejected, WaitCode, WaitDone, WaitFails, Waited
  <2>5. CASE MineOp(o)
    BY <2>5 DEF MineOp
  <2>. QED
    BY <1>6, <2>1, <2>2, <2>3, <2>4, <2>5 DEF ClientStep
<1>7. CASE MineOther \/ MineEmpty \/ UNCHANGED vars
  BY <1>7, <1>5 DEF MineOther, MineEmpty, vars, depVars, clientVars, accountVars
<1>. QED
  BY <1>1, <1>2, <1>3, <1>4, <1>5, <1>6, <1>7 DEF Next, StartStep

(* The account's address is wrong only where this client has itself sent   *)
(* the factory's creation, and the node mines later (Provider.ts:32-60,    *)
(* DeterministicDeployer.ts:115-123), whoever else deploys there.          *)
THEOREM AddressForCauseAlways == Spec => []AddressForCause
<1>1. Init => DepInv
  BY DEF Init, DepInit, AccountInit, DepInv, DoneInv, AddressForCause
<1>2. ClientTypeOK /\ DepInv /\ [Next]_vars => DepInv'
  BY DepStepKeeps DEF ClientTypeOK
<1>3. DepInv => AddressForCause
  BY DEF DepInv
<1>. QED
  BY <1>1, <1>2, <1>3, ClientTypeCorrect, PTL DEF Spec

-----------------------------------------------------------------------------
(* The account and the operations created for it                           *)

(* What is known of operation o while it is created, and afterwards        *)
Fresh(o) ==
  /\ saw[o] => HasCode
  /\ step[o] # "idle" => phase = "ready"
  /\ begun[o].deployed => deployed
  /\ begun[o].nonce <= chainNonce
  /\ ~begun[o].deployed => begun[o].nonce = 0
  /\ step[o] \in {"coded", "nonced"} /\ address = "account" /\ ~saw[o] => ~begun[o].deployed
  /\ step[o] \in {"code", "coded", "gas"} /\ ~begun[o].given => nonce[o] = NoNonce
  /\ step[o] \in {"gas", "nonce", "nonced", "read", "sign", "send", "sent"} /\ address = "account"
       => (initCode[o] => ~begun[o].deployed) /\ (~initCode[o] => deployed)
  /\ step[o] \in {"sign", "send", "sent"} /\ address = "account" /\ ~begun[o].given
       => nonce[o] \in begun[o].nonce .. chainNonce

AccInv ==
  /\ phase # "ready" => address = "unknown"
  /\ ~deployed => chainNonce = 0
  /\ ~isPhantom => HasCode
  /\ \A o \in Op : Fresh(o)

LEMMA CreationKeeps ==
  ASSUME AccountTypeOK, AccInv, NEW o \in Op, CreationStep(o), phase' = phase
  PROVE  AccInv'
<1>. USE ClientAssumption DEF AccountTypeOK, AccInv, Fresh, At, OnlyStep, HasCode, Nonce, Creating
<1>1. CASE AskInitCode(o)
  BY <1>1 DEF AskInitCode, AskCode
<1>2. CASE GotInitCode(o)
  BY <1>2, ZenonT(40) DEF GotInitCode, NowPhantom
<1>3. CASE GotGas(o)
  BY <1>3 DEF GotGas
<1>4. CASE AskNonce(o)
  BY <1>4 DEF AskNonce, AskCode
<1>5. CASE GotPhantom(o)
  BY <1>5 DEF GotPhantom, NowPhantom
<1>6. CASE GotNonce(o)
  BY <1>6 DEF GotNonce
<1>7. CASE Sign(o) \/ CreationFails(o)
  BY <1>7 DEF Sign, CreationFails
<1>. QED
  BY <1>1, <1>2, <1>3, <1>4, <1>5, <1>6, <1>7 DEF CreationStep

LEMMA AccStepKeeps ==
  ASSUME AccountTypeOK, AccInv, [Next]_vars
  PROVE  AccInv'
<1>. USE ClientAssumption DEF AccountTypeOK, AccInv, Fresh, HasCode, Nonce
<1>1. CASE UNCHANGED <<accountVars, phase>>
  BY <1>1 DEF accountVars
<1>2. ASSUME NEW t \in DeployTask, Deployment(t)
      PROVE  AccInv'
  BY <1>1, <1>2 DEF Deployment, clientVars
<1>3. CASE StartStep
  <2>1. CASE Connect \/ InitProvider \/ WrapFails \/ \E same \in BOOLEAN : ValidateChainId(same)
    BY <2>1 DEF Connect, InitProvider, WrapFails, ValidateChainId, accountVars
  <2>2. CASE GetAddress
    BY <2>2 DEF GetAddress, CounterFactual, creationVars
  <2>. QED
    BY <1>3, <2>1, <2>2 DEF StartStep
<1>4. ASSUME NEW o \in Op, SendTransaction(o)
      PROVE  AccInv'
  BY <1>4 DEF SendTransaction, Create, At, clientVars
<1>5. ASSUME NEW o \in Op, Creation(o)
      PROVE  AccInv'
  BY <1>5, CreationKeeps DEF Creation, clientVars
<1>6. ASSUME NEW o \in Op, SendUserOp(o) \/ SendFails(o)
      PROVE  AccInv'
  BY <1>6 DEF SendUserOp, SendFails, At, OnlyStep, clientVars
<1>7. ASSUME NEW o \in Op, Listening(o) \/ Polling(o) \/ Wait(o) \/ PollFor(o)
      PROVE  AccInv'
  BY <1>1, <1>7 DEF Listening, Polling, Wait, PollFor, clientVars
<1>8. ASSUME NEW o \in Op, Rejected(o) \/ WaitFails(o)
      PROVE  AccInv'
  BY <1>1, <1>8 DEF Rejected, WaitFails
<1>9. ASSUME NEW o \in Op, WaitCode(o)
      PROVE  AccInv'
  BY <1>9 DEF WaitCode
<1>10. ASSUME NEW o \in Op, WaitDone(o)
       PROVE  AccInv'
  BY <1>10 DEF WaitDone, NowPhantom, creationVars
<1>11. CASE MineOther \/ \E o \in Op : MineOp(o)
  BY <1>11 DEF MineOther, MineOp, UseNonce, creationVars, clientVars
<1>12. CASE MineEmpty \/ MineTxs \/ UNCHANGED vars
  BY <1>1, <1>12 DEF MineEmpty, MineTxs, vars, clientVars
<1>. QED
  BY <1>2, <1>3, <1>4, <1>5, <1>6, <1>7, <1>8, <1>9, <1>10, <1>11, <1>12 DEF Next, ClientStep

LEMMA AccInvAlways == Spec => []AccInv
<1>1. Init => AccInv
  BY ClientAssumption DEF Init, AccountInit, AccInv, Fresh, HasCode
<1>2. ClientTypeOK /\ AccInv /\ [Next]_vars => AccInv'
  BY AccStepKeeps DEF ClientTypeOK
<1>. QED
  BY <1>1, <1>2, ClientTypeCorrect, PTL DEF Spec

(* An account once known as deployed is deployed (BaseAccountAPI.ts:118-133), *)
(* however many creations and waits ask for its code at the same time.     *)
THEOREM DeployedForGoodAlways == Spec => []DeployedForGood
<1>1. AccInv => DeployedForGood
  BY DEF AccInv, HasCode, DeployedForGood
<1>. QED
  BY <1>1, AccInvAlways, PTL

(* Code and nonce of every operation are what the account called for at    *)
(* some time since its creation began (BaseAccountAPI.ts:267-303), for any *)
(* number of operations created at once.                                   *)
THEOREM CreatedFreshAlways == Spec => []CreatedFresh
<1>1. AccInv => CreatedFresh
  BY DEF AccInv, Fresh, CreatedFresh
<1>. QED
  BY <1>1, AccInvAlways, PTL

-----------------------------------------------------------------------------
(* What a listener knows                                                   *)

Heard(o) ==
  /\ lsn[o] \in {"receipt", "reason", "done"} => Mined(o)
  /\ lsn[o] = "reason" => ~event[o].success

LsnInv == SettledByChain /\ \A o \in Op : Heard(o)

LEMMA ListeningKeeps ==
  ASSUME ListenerTypeOK, LsnInv, NEW o \in Op, ListenerStep(o) \/ Start(o)
  PROVE  LsnInv'
<1>. USE DEF ListenerTypeOK, LsnInv, SettledByChain, Heard, Mined, Await, Settle, chainVars, pollVars
<1>1. CASE Start(o) \/ Query(o) \/ Register(o) \/ Notify(o)
  BY <1>1, ClientAssumption DEF Start, Query, Register, Notify, Event
<1>2. CASE GotReceipt(o)
  BY <1>2 DEF GotReceipt
<1>3. CASE GotReason(o)
  BY <1>3 DEF GotReason
<1>4. CASE Lost(o)
  BY <1>4 DEF Lost
<1>5. CASE TimeOut(o)
  BY <1>5 DEF TimeOut
<1>. QED
  BY <1>1, <1>2, <1>3, <1>4, <1>5 DEF ListenerStep

LEMMA PollingKeeps ==
  ASSUME ListenerTypeOK, LsnInv, NEW o \in Op, PollStep(o) \/ Poll(o)
  PROVE  LsnInv'
  BY DEF ListenerTypeOK, LsnInv, SettledByChain, Heard, Mined, Polled, chainVars, lsnVars,
         PollStep, Poll, PollAnswer, PollError, PollWake, PollExpire

LEMMA LsnStepKeeps ==
  ASSUME ListenerTypeOK, LsnInv, [Next]_vars
  PROVE  LsnInv'
<1>. USE DEF LsnInv, SettledByChain, Heard, Mined
<1>1. CASE UNCHANGED <<event, lsnVars, pollVars>>
  BY <1>1 DEF lsnVars, pollVars
<1>2. ASSUME NEW t \in DeployTask, Deployment(t)
      PROVE  LsnInv'
  BY <1>1, <1>2 DEF Deployment, listenerVars, lsnVars, pollVars
<1>3. CASE StartStep
  BY <1>1, <1>3 DEF StartStep, Connect, InitProvider, WrapFails, ValidateChainId, GetAddress,
                    listenerVars, lsnVars, pollVars
<1>4. ASSUME NEW o \in Op, SendTransaction(o) \/ Creation(o) \/ SendUserOp(o) \/ SendFails(o)
      PROVE  LsnInv'
  BY <1>1, <1>4 DEF SendTransaction, Creation, SendUserOp, SendFails, listenerVars, lsnVars, pollVars
<1>5. ASSUME NEW o \in Op, Listening(o) \/ Wait(o)
      PROVE  LsnInv'
  BY <1>5, ListeningKeeps DEF Listening, Wait
<1>6. ASSUME NEW o \in Op, Polling(o) \/ PollFor(o)
      PROVE  LsnInv'
  BY <1>6, PollingKeeps DEF Polling, PollFor
<1>7. ASSUME NEW o \in Op, Rejected(o) \/ WaitCode(o) \/ WaitDone(o) \/ WaitFails(o)
      PROVE  LsnInv'
  BY <1>1, <1>7 DEF Rejected, WaitCode, WaitDone, WaitFails, listenerVars, lsnVars, pollVars
<1>8. ASSUME NEW o \in Op, MineOp(o)
      PROVE  LsnInv'
  BY <1>8, ClientAssumption DEF MineOp, NewBlock, ListenerTypeOK, Event, lsnVars, pollVars
<1>9. CASE MineOther \/ MineEmpty \/ MineTxs \/ UNCHANGED vars
  BY <1>1, <1>9 DEF MineOther, MineEmpty, MineTxs, vars, listenerVars, lsnVars, pollVars
<1>. QED
  BY <1>2, <1>3, <1>4, <1>5, <1>6, <1>7, <1>8, <1>9 DEF Next, ClientStep

LEMMA LsnInvAlways == Spec => []LsnInv
<1>1. Init => LsnInv
  BY DEF Init, ListenerInit, LsnInv, SettledByChain, Heard, Mined
<1>2. ClientTypeOK /\ LsnInv /\ [Next]_vars => LsnInv'
  BY LsnStepKeeps DEF ClientTypeOK
<1>. QED
  BY <1>1, <1>2, ClientTypeCorrect, PTL DEF Spec

(* A promise settled with a receipt or a failure tells what the chain has, *)
(* and none stays open when its listener is through                        *)
(* (UserOperationEventListener.ts:30-97), for any number of listeners.     *)
THEOREM SettledByChainAlways == Spec => []SettledByChain
<1>1. LsnInv => SettledByChain
  BY DEF LsnInv
<1>. QED
  BY <1>1, LsnInvAlways, PTL

-----------------------------------------------------------------------------
(* Waiting                                                                 *)

SentAfterSetup == \A o \in Op : step[o] = "sent" => rpc = "valid" /\ phase = "ready"

(* An operation on the chain was sent, took a nonce that is used up, and   *)
(* has found or made the account                                           *)
Included(o) == /\ step[o] = "sent" /\ HasCode
               /\ nonce[o] \in Nat /\ nonce[o] < chainNonce

WaitInv ==
  /\ SentAfterSetup
  /\ \A o \in Op : wait[o] # "none" => step[o] = "sent"
  /\ \A o \in Op : wait[o] = "coded" => saw[o] /\ Mined(o)
  /\ \A o \in Op : wait[o] = "resolved" => ~isPhantom /\ Mined(o)
  /\ \A o \in Op : Mined(o) => Included(o)
  /\ \A o, q \in Op : Mined(o) /\ Mined(q) /\ o # q => nonce[o] # nonce[q]

\* What waiting looks at is left alone by a step that touches none of it.
LEMMA WaitStutters ==
  ASSUME WaitInv, UNCHANGED <<deployed, chainNonce, isPhantom, address, creationVars, event, wait, rpc, phase>>
  PROVE  WaitInv'
  BY DEF WaitInv, SentAfterSetup, Included, HasCode, Mined, creationVars

LEMMA CreationKeepsWaits ==
  ASSUME AccountTypeOK, AccInv, WaitInv, NEW o \in Op, CreationStep(o), UNCHANGED <<event, wait, rpc, phase>>
  PROVE  WaitInv'
<1>. USE DEF AccountTypeOK, WaitInv, SentAfterSetup, Included, HasCode, Mined, At, OnlyStep, Creating
<1>1. CASE AskInitCode(o) \/ AskNonce(o)
  BY <1>1 DEF AskInitCode, AskNonce, AskCode
<1>2. CASE GotInitCode(o)
  BY <1>2 DEF GotInitCode, NowPhantom
<1>3. CASE GotGas(o) \/ Sign(o) \/ CreationFails(o)
  BY <1>3 DEF GotGas, Sign, CreationFails
<1>4. CASE GotPhantom(o)
  BY <1>4 DEF GotPhantom, NowPhantom
<1>5. CASE GotNonce(o)
  BY <1>5 DEF GotNonce
<1>. QED
  BY <1>1, <1>2, <1>3, <1>4, <1>5 DEF CreationStep

LEMMA WaitStepKeeps ==
  ASSUME ClientTypeOK, AccInv, LsnInv, WaitInv, [Next]_vars
  PROVE  WaitInv'
<1>. USE ClientAssumption DEF ClientTypeOK, WaitInv, SentAfterSetup, Included, HasCode, Mined
<1>1. ASSUME NEW t \in DeployTask, Deployment(t)
      PROVE  WaitInv'
  BY <1>1, WaitStutters DEF Deployment, listenerVars, accountVars, creationVars, clientVars
<1>2. CASE Connect \/ InitProvider \/ WrapFails \/ \E same \in BOOLEAN : ValidateChainId(same)
  BY <1>2 DEF Connect, InitProvider, WrapFails, ValidateChainId, listenerVars, accountVars
<1>3. CASE GetAddress
  BY <1>3 DEF GetAddress, listenerVars, creationVars, AccInv
<1>4. ASSUME NEW o \in Op, SendTransaction(o)
      PROVE  WaitInv'
  BY <1>4 DEF SendTransaction, Create, At, listenerVars, clientVars, AccountTypeOK
<1>5. ASSUME NEW o \in Op, Creation(o)
      PROVE  WaitInv'
  BY <1>5, CreationKeepsWaits DEF Creation, listenerVars, clientVars
<1>6. ASSUME NEW o \in Op, SendUserOp(o) \/ SendFails(o)
      PROVE  WaitInv'
  BY <1>6 DEF SendUserOp, SendFails, At, OnlyStep, listenerVars, clientVars, AccountTypeOK, AccInv, Fresh
<1>7. ASSUME NEW o \in Op, Wait(o)
      PROVE  WaitInv'
  BY <1>7 DEF Wait, Start, chainVars, accountVars
<1>8. ASSUME NEW o \in Op, Listening(o) \/ Polling(o) \/ PollFor(o)
      PROVE  WaitInv'
  <2>1. event' = event
    BY <1>8 DEF Listening, ListenerStep, Query, Register, Notify, GotReceipt, GotReason, Lost, TimeOut,
                Polling, PollFor, PollStep, Poll, PollAnswer, PollError, PollWake, PollExpire, chainVars
  <2>. QED
    BY <1>8, <2>1, WaitStutters DEF Listening, Polling, PollFor, accountVars, creationVars, clientVars
<1>9. ASSUME NEW o \in Op, Rejected(o) \/ WaitFails(o)
      PROVE  WaitInv'
  BY <1>9 DEF Rejected, WaitFails, Waited, listenerVars, accountVars
<1>10. ASSUME NEW o \in Op, WaitCode(o)
       PROVE  WaitInv'
  BY <1>10 DEF WaitCode, Waited, listenerVars, LsnInv, SettledByChain, AccountTypeOK
<1>11. ASSUME NEW o \in Op, WaitDone(o)
       PROVE  WaitInv'
  BY <1>11 DEF WaitDone, Waited, NowPhantom, listenerVars, creationVars
<1>12. ASSUME NEW o \in Op, MineOp(o)
       PROVE  WaitInv'
  BY <1>12 DEF MineOp, NewBlock, UseNonce, Valid, creationVars, clientVars, ListenerTypeOK, Event,
               AccountTypeOK, Nonce
<1>13. CASE MineOther
  BY <1>13 DEF MineOther, UseNonce, creationVars, clientVars, AccountTypeOK, Nonce
<1>14. CASE MineEmpty \/ MineTxs \/ UNCHANGED vars
  BY <1>14, WaitStutters DEF MineEmpty, MineTxs, vars, listenerVars, accountVars, creationVars, clientVars
<1>. QED
  BY <1>1, <1>2, <1>3, <1>4, <1>5, <1>6, <1>7, <1>8, <1>9, <1>10, <1>11, <1>12, <1>13, <1>14
     DEF Next, StartStep, ClientStep

(* A wait that resolves leaves the account known as deployed               *)
(* (ERC4337EthersProvider.ts:156-159), and the operations that were        *)
(* included used nonces of their own, for any number of operations.        *)
THEOREM WaitedDeployedAlways == Spec => []WaitedDeployed
<1>1. Init => WaitInv
  BY DEF Init, ListenerInit, AccountInit, WaitInv, SentAfterSetup, Mined
<1>2. ClientTypeOK /\ AccInv /\ LsnInv /\ WaitInv /\ [Next]_vars => WaitInv'
  BY WaitStepKeeps
<1>3. WaitInv => WaitedDeployed
  BY DEF WaitInv, WaitedDeployed
<1>. QED
  BY <1>1, <1>2, <1>3, ClientTypeCorrect, AccInvAlways, LsnInvAlways, PTL DEF Spec
=============================================================================
