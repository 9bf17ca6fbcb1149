------------------------------ MODULE Account -------------------------------
(***************************************************************************)
(* BaseAccountAPI and its subclasses SimpleAccountAPI and SafeAccountAPI:  *)
(* the deployment phase of an account, and the creation of operations,     *)
(* several at a time.  A creation asks twice whether the account is        *)
(* deployed, for initCode and for the nonce, and awaits the node each time.*)
(***************************************************************************)
EXTENDS Naturals

CONSTANTS Op, MaxNonce, NoNonce

VARIABLES deployed,    \* whether the account has code on the chain
          chainNonce,  \* its nonce at the EntryPoint
          isPhantom,   \* BaseAccountAPI.isPhantom
          address,     \* senderAddress: "unknown", the "account"'s, or "zero"
          step,        \* step[o]: what the creation of o awaits
          saw,         \* saw[o]: the answer to its last getCode
          initCode,    \* initCode[o]: whether o carries code to deploy the account
          nonce,       \* nonce[o]
          begun        \* begun[o]: history, the account when the creation of o began

accountVars == <<deployed, chainNonce, isPhantom, address, step, saw, initCode, nonce, begun>>
creationVars == <<step, saw, initCode, nonce, begun>>

Nonce == 0 .. MaxNonce
Creating == {"code", "coded", "gas", "nonce", "nonced", "read", "sign"}

AccountTypeOK ==
  /\ deployed \in BOOLEAN
  /\ chainNonce \in Nonce
  /\ isPhantom \in BOOLEAN
  /\ address \in {"unknown", "account", "zero"}
  /\ step \in [Op -> {"idle", "send", "sent", "failed"} \cup Creating]
  /\ saw \in [Op -> BOOLEAN]
  /\ initCode \in [Op -> BOOLEAN]
  /\ nonce \in [Op -> Nonce \cup {NoNonce}]
  /\ begun \in [Op -> [deployed : BOOLEAN, nonce : Nonce, given : BOOLEAN]]

AccountInit ==
  /\ deployed \in BOOLEAN
  /\ chainNonce = IF deployed THEN 1 ELSE 0
  /\ isPhantom = TRUE
  /\ address = "unknown"
  /\ step = [o \in Op |-> "idle"]
  /\ saw = [o \in Op |-> FALSE]
  /\ initCode = [o \in Op |-> FALSE]
  /\ nonce = [o \in Op |-> NoNonce]
  /\ begun = [o \in Op |-> [deployed |-> FALSE, nonce |-> 0, given |-> FALSE]]

-----------------------------------------------------------------------------
At(o, from, to) == step[o] = from /\ step' = [step EXCEPT ![o] = to]
OnlyStep == UNCHANGED <<deployed, chainNonce, isPhantom, address, saw, initCode, nonce, begun>>

\* checkAccountPhantom: getCode is asked while the account counts as a phantom,
\* and an answer with code ends that for good.  What it returns is the field.
HasCode == deployed /\ address = "account"
\* (a mutant of it: the answer is read the wrong way round)
PhantomIfCode(o) == isPhantom /\ saw[o]
NowPhantom(o) == isPhantom /\ ~saw[o]
AskCode(o, from, to) == /\ isPhantom
                        /\ At(o, from, to)
                        /\ saw' = [saw EXCEPT ![o] = HasCode]
                        /\ UNCHANGED <<deployed, chainNonce, isPhantom, address, initCode, nonce, begun>>

-----------------------------------------------------------------------------
\* createUnsignedUserOp: the call data, initCode, gas limit and fees are asked
\* for at once; fees and gas are data
Create(o, given) == /\ At(o, "idle", "code")
                    /\ nonce' = [nonce EXCEPT ![o] = given]
                    /\ begun' = [begun EXCEPT ![o] = [deployed |-> deployed, nonce |-> chainNonce,
                                                 given |-> given # NoNonce]]
                    /\ UNCHANGED <<deployed, chainNonce, isPhantom, address, saw, initCode>>

\* getInitCode
AskInitCode(o) == AskCode(o, "code", "coded")
\* (a mutant of it: what was known before the answer decides)
GotStaleInitCode(o) ==
  /\ \/ At(o, "coded", "gas")
     \/ ~isPhantom /\ At(o, "code", "gas")
  /\ isPhantom' = NowPhantom(o)
  /\ initCode' = [initCode EXCEPT ![o] = isPhantom]
  /\ UNCHANGED <<deployed, chainNonce, address, saw, nonce, begun>>
GotInitCode(o) ==
  /\ \/ At(o, "coded", "gas")
     \/ ~isPhantom /\ At(o, "code", "gas")
  /\ isPhantom' = NowPhantom(o)
  /\ initCode' = [initCode EXCEPT ![o] = NowPhantom(o)]
  /\ UNCHANGED <<deployed, chainNonce, address, saw, nonce, begun>>

\* estimateCreationGas; then the nonce, unless the caller has given one
GotGas(o) == At(o, "gas", IF nonce[o] = NoNonce THEN "nonce" ELSE "sign") /\ OnlyStep

\* getNonce: 0 for a phantom, else what the EntryPoint says
AskNonce(o) == AskCode(o, "nonce", "nonced")
GotPhantom(o) ==
  /\ \/ At(o, "nonced", IF NowPhantom(o) THEN "sign" ELSE "read")
     \/ ~isPhantom /\ At(o, "nonce", "read")
  /\ isPhantom' = NowPhantom(o)
  /\ nonce' = [nonce EXCEPT ![o] = IF NowPhantom(o) THEN 0 ELSE @]
  /\ UNCHANGED <<deployed, chainNonce, address, saw, initCode, begun>>
\* (a mutant of it: the next nonce)
GotNextNonce(o) == /\ At(o, "read", "sign")
                   /\ nonce' = [nonce EXCEPT ![o] = chainNonce + 1]
                   /\ UNCHANGED <<deployed, chainNonce, isPhantom, address, saw, initCode, begun>>
GotNonce(o) == /\ At(o, "read", "sign")
               /\ nonce' = [nonce EXCEPT ![o] = chainNonce]
               /\ UNCHANGED <<deployed, chainNonce, isPhantom, address, saw, initCode, begun>>

\* the paymaster's data, preVerificationGas and the signature of the whole
Sign(o) == At(o, "sign", "send") /\ OnlyStep

\* an exception: the node, the paymaster or the signer fails
CreationFails(o) == step[o] \in Creating /\ At(o, step[o], "failed") /\ OnlyStep

CreationStep(o) == \/ AskInitCode(o) \/ GotInitCode(o) \/ GotGas(o) \/ AskNonce(o)
                   \/ GotPhantom(o) \/ GotNonce(o) \/ Sign(o) \/ CreationFails(o)

-----------------------------------------------------------------------------
\* An account that no longer counts as a phantom has code, however the answers
\* of concurrent calls overtake each other (BaseAccountAPI.ts:118-133).
DeployedForGood == ~isPhantom => deployed /\ address = "account"

\* An operation carries code for the account only if it had none when the
\* creation of the operation began, and carries none only if it has; its nonce,
\* unless given by the caller, was the account's at some time since.  (Code with a
\* nonce above 0 is possible: the two answers differ when the account is
\* deployed between them; BaseAccountAPI.ts:267-303, SimpleAccountAPI.ts:105-118.)
CreatedFresh ==
  \A o \in Op : step[o] \in {"send", "sent"} /\ address = "account" =>
    /\ IF initCode[o] THEN ~begun[o].deployed ELSE deployed
    /\ ~begun[o].given => nonce[o] \in begun[o].nonce .. chainNonce
=============================================================================
