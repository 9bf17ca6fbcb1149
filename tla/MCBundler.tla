----------------------------- MODULE MCBundler -----------------------------
(* Two accounts and a paymaster.                                           *)
EXTENDS Bundler, TLC

CONSTANTS a, b, p, r1, r2, t1, t2, d1, r3

MCLower == (a :> a) @@ (b :> b) @@ (p :> p)

Op(sender, nonce, paymaster, tip, gas, touches) ==
  [sender |-> sender, nonce |-> nonce, paymaster |-> paymaster, factory |-> NoAddr,
   tip |-> tip, fee |-> tip, gas |-> gas, prefund |-> 1, touches |-> touches]

\* an operation, a replacement that needs more gas, and two operations of
\* another account: one that fits in a bundle with the first only, and one that
\* is cheaper but reads the first account's storage
RaceOps == {Op(a, 0, p, 10, 2, {}), Op(a, 0, p, 12, 3, {}), Op(b, 0, p, 13, 2, {}),
            Op(b, 1, NoAddr, 9, 2, {a})}
\* what is credited: an account, a paymaster and a factory
CountOps == {Op(a, 0, p, 10, 2, {}), [Op(b, 0, NoAddr, 12, 2, {}) EXCEPT !.factory = p]}
TwoOps == {Op(a, 0, p, 10, 2, {}), Op(b, 0, p, 12, 2, {})}

Timed == {<<TRUE, 1000>>}
Eager == {<<TRUE, 1>>}
AllModes == {<<TRUE, 1>>, <<FALSE, 0>>, <<FALSE, 1000>>}

Lists == blackList = {} /\ whitelist = {}
MCInit == Init /\ Lists
MCSpec == MCInit /\ [][Next]_vars
MCFairSpec == MCSpec /\ Fairness

Symmetry == Permutations(RpcTask) \cup Permutations(TimerTask)
=============================================================================
