----------------------------- MODULE MCMempool -----------------------------
(* Two accounts, of which the second has two spellings, and a paymaster.   *)
EXTENDS Mempool, TLC

CONSTANTS a, b, B, p

MCLower == (a :> a) @@ (b :> b) @@ (B :> b) @@ (p :> p)

Op(sender, nonce, paymaster, tip) ==
  [sender |-> sender, nonce |-> nonce, paymaster |-> paymaster,
   factory |-> NoAddr, tip |-> tip, fee |-> tip]

\* replacements that keep their roles, and an operation whose paymaster is an
\* account with operations of its own
KeptOps ==
  {Op(a, 0, p, 10), Op(a, 0, p, 12), Op(a, 1, NoAddr, 10), Op(b, 0, a, 10),
   Op(B, 0, NoAddr, 10)}

\* the replacement names the account of another operation as its paymaster
CrossedOps == {Op(a, n, NoAddr, 10) : n \in 0 .. 2}
                \cup {Op(b, 0, p, 10), Op(b, 0, a, 12)}

KeptInit == MemInit /\ RolesKept /\ blackList \in {{}, {p}} /\ whitelist \in {{}, {a}}
KeptSpec == KeptInit /\ [][MemNext]_<<memVars, repVars>>
CrossedInit == MemInit /\ blackList = {} /\ whitelist = {}
CrossedSpec == CrossedInit /\ [][MemNext]_<<memVars, repVars>>
=============================================================================
