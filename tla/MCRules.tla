------------------------------ MODULE MCRules ------------------------------
(* The instances of Rules for TLC: an ERC-20-like token beside the         *)
(* entities, a library that can be created, and an address without code.   *)
EXTENDS Rules

CONSTANTS sender, factory, paymaster, entryPoint, senderCreator,
          token, library, nobody, identity

MCDeployed == {token}
MCOperations == {{"account", "paymaster"}, {"factory", "account", "paymaster"}}
MCPrecompile == {identity}

\* none, the longest that a result is parsed with, the shortest that the parser
\* does not see
MCContexts == {0, 48, 60}

Slot(kind, of, off) == [kind |-> kind, of |-> of, off |-> off]
Plain == Slot("plain", entryPoint, 0)

Op(op) == [op |-> op, to |-> entryPoint, slot |-> Plain, owner |-> entryPoint,
           method |-> "0x", value |-> FALSE]
At(op, to) == [Op(op) EXCEPT !.to = to]
CallOf(to, method, value) == [At("CALL", to) EXCEPT !.method = method, !.value = value]

\* foreign slots and the entities', by address, within a structure, behind its end
Read == {Plain, Slot("hash", sender, 127), Slot("hash", sender, 128)}
Written == {Plain, Slot("address", sender, 0), Slot("address", paymaster, 0)}

MCInstr ==
  {[Op("SLOAD") EXCEPT !.slot = s] : s \in Read}
  \cup {[Op("SSTORE") EXCEPT !.slot = s] : s \in Written}
  \cup {[Op("KECCAK256") EXCEPT !.owner = sender]}
  \cup {Op(op) : op \in {"GAS", "NUMBER", "CALLER", "ISZERO"}}
  \cup {At("CREATE2", to) : to \in {sender, library}}
  \cup {At("EXTCODESIZE", entryPoint), At("EXTCODEHASH", entryPoint), At("EXTCODESIZE", nobody)}
  \cup {CallOf(token, "transfer", FALSE), CallOf(token, "transfer", TRUE),
        CallOf(entryPoint, "0x", TRUE), CallOf(entryPoint, "withdrawTo", FALSE),
        CallOf(nobody, "0x", FALSE), CallOf(identity, "0x", FALSE),
        [At("DELEGATECALL", token) EXCEPT !.method = "transfer"], At("DELEGATECALL", entryPoint)}

\* BOUND: a validation executes, beside the common ones, instructions of one
\* family: storage, other opcodes, or special calls
Storage == {"SLOAD", "SSTORE", "KECCAK256"}
Common == {At("CREATE2", sender), CallOf(token, "transfer", FALSE),
           [At("DELEGATECALL", token) EXCEPT !.method = "transfer"]}
OneFamily ==
  LET mine == {steps[k].i : k \in {j \in DOMAIN steps : steps[j].i.op \notin Exits}} \ Common
  IN  \/ \A i \in mine : i.op \in Storage
      \/ \A i \in mine : i.op \in CallOps \cup {"CREATE2"}
      \/ \A i \in mine : i.op \notin Storage \cup CallOps \cup {"CREATE2"}
=============================================================================
