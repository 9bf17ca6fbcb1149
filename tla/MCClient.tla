------------------------------ MODULE MCClient ------------------------------
(* Two operations of one client: the first is awaited or polled for, the     *)
(* second competes with it for the nonce and for the account's deployment.   *)
(* Another program may deploy the factory at the same time.                  *)
EXTENDS Client, TLC

CONSTANTS o1, o2, me, other

\* how the node mines matters only when there is something to deploy
MCInit == Init /\ onChain # {"proxy"} /\ ("contract" \in onChain => instant)
\* BOUND: the other program starts while this client deploys; then no block comes
\* with operations
Rival == /\ dep[other] = "idle" /\ dep'[other] # "idle" => phase = "deploy" /\ height = 0
         /\ dep[other] # "idle" => height' = height
MCSpec == MCInit /\ [][Next]_vars
MCFairSpec == MCSpec /\ Fairness
=============================================================================
