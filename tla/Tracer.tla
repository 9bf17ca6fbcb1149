------------------------------- MODULE Tracer -------------------------------
(***************************************************************************)
(* bundlerCollectorTracer: the geth tracer that watches the validation of  *)
(* one user operation, opcode by opcode, and keeps what the rules of       *)
(* TracerResultParser (module Rules) need.                                 *)
(*                                                                         *)
(* The virtual machine is external: the EntryPoint calls the factory (by   *)
(* way of SenderCreator), the account and the paymaster, each of which     *)
(* executes any instructions of Instr in any nesting of frames, and then   *)
(* reverts with the result of simulateValidation.  That happens before it  *)
(* emits BeforeExecution, so that stopCollecting stays false; the logs,    *)
(* the gas and the debug lines of the tracer are read by no rule.          *)
(***************************************************************************)
EXTENDS Integers, FiniteSets, SequencesExt

CONSTANTS
  Instr,             \* instructions: records of op, to, slot, owner, method, value
  Sender, Factory, Paymaster, EntryPoint, SenderCreator,   \* addresses
  Precompile,        \* the precompiled contracts 1 .. 9
  Deployed,          \* other addresses that have code
  Operations,        \* the sets of roles that operations have
  Contexts,          \* the lengths of the paymasters' contexts, in words
  MaxSteps           \* BOUND on the instructions of a validation, but for Exits

VARIABLES
  entities,          \* the roles that the operation has
  code,              \* the addresses that have code
  frames,            \* the frames above the EntryPoint's, innermost last
  role,              \* the level that is being executed, or was last
  level,             \* callsFromEntryPoint, by role; no key before a role's call
  lastOp,
  lastThree,         \* lastThreeOpcodes: the opcode and the address on the stack
  keccak,            \* the addresses whose padded form began a hashed block
  calls,             \* entries and exits of frames, as reported
  steps, left,       \* HISTORY: all instructions, all frames left
  ended              \* the EntryPoint has reverted with the result

evmVars == <<entities, code, frames, steps, left, ended>>
tracerVars == <<role, level, lastOp, lastThree, keccak, calls>>
vars == <<evmVars, tracerVars>>

Role == {"factory", "account", "paymaster"}
Order == <<"factory", "account", "paymaster">>

ExtOps == {"EXTCODESIZE", "EXTCODEHASH"}
CallOps == {"CALL", "DELEGATECALL"}
NamedCall == CallOps \cup {"CALLER"}         \* opcode.includes('CALL')
Unimportant == {"POP", "ISZERO"}             \* and the other arithmetic
Flushes == {"RETURN", "REVERT"}
Exits == Flushes \cup {"STOP"}

ASSUME InstrAssumption ==
  /\ \A i \in Instr : i.op \notin Exits /\ i.value \in BOOLEAN
  /\ Operations \subseteq {E \in SUBSET Role : "account" \in E}
  /\ MaxSteps \in Nat
  /\ 0 \in Contexts /\ Contexts \subseteq Nat
  /\ Sender \notin Deployed
  /\ EntryPoint \notin {Sender, Factory, Paymaster, SenderCreator}

\* the contract that the EntryPoint calls for a role, and the method
Target == [factory |-> SenderCreator, account |-> Sender, paymaster |-> Paymaster]
Method == [factory |-> "createSender", account |-> "validateUserOp",
           paymaster |-> "validatePaymasterUserOp"]

NewLevel == [reads |-> {}, writes |-> {}, opcodes |-> [op \in {} |-> 0],
             seen |-> {}, empty |-> {}, ext |-> {}, oog |-> FALSE]

\* a missing key counts 0
CountOf(list, op) == IF op \in DOMAIN list THEN list[op] ELSE 0
CountSlot(list, op) ==
  [x \in DOMAIN list \cup {op} |-> CountOf(list, x) + IF x = op THEN 1 ELSE 0]

Here == Last(frames).at

Init ==
  /\ entities \in Operations
  /\ code = Deployed \cup {Factory, Paymaster, EntryPoint, SenderCreator}
                     \cup (IF "factory" \in entities THEN {} ELSE {Sender})
  /\ frames = <<>>
  /\ role = "none"
  /\ level = [r \in {} |-> NewLevel]
  /\ lastOp = ""
  /\ lastThree = <<>>
  /\ keccak = {}
  /\ calls = <<>>
  /\ steps = <<>>
  /\ left = <<>>
  /\ ended = FALSE
-----------------------------------------------------------------------------
(* The parts of step() for an instruction i below the EntryPoint's frame,  *)
(* where l is the current level                                            *)

\* a mutant of Window: the oldest is kept
WindowUnbounded(s, i) == IF i.op \in Flushes THEN <<>> ELSE Append(s, [op |-> i.op, to |-> i.to])

Window(s, i) ==
  LET w == Append(s, [op |-> i.op, to |-> i.to])
  IN  IF i.op \in Flushes THEN <<>> ELSE IF Len(w) > 3 THEN Tail(w) ELSE w

\* the address of the EXT* opcode before, unless that was an EXTCODESIZE
\* between another opcode and this ISZERO
ExtAccess(w) ==
  IF /\ Len(w) >= 2
     /\ w[Len(w) - 1].op \in ExtOps
     /\ ~(Len(w) = 3 /\ w[2].op = "EXTCODESIZE" /\ w[3].op = "ISZERO")
  THEN {w[Len(w) - 1].to}
  ELSE {}

\* addresses whose code size is looked at: once per level, when first met
FirstMet(l, i) ==
  IF i.op \in ExtOps \cup CallOps THEN {i.to} \ (l.seen \cup Precompile) ELSE {}

\* GAS counts once the opcode after it has no CALL in its name
Counted(list, i) ==
  LET l1 == IF lastOp = "GAS" /\ i.op \notin NamedCall THEN CountSlot(list, "GAS") ELSE list
  IN  IF i.op \in Unimportant \cup {"GAS"} THEN l1 ELSE CountSlot(l1, i.op)

\* a mutant of Accessed: a slot that was read is not noted as written
AccessedOnce(l, i, at) ==
  LET key == {<<at, i.slot>>}
  IN  CASE i.op = "SLOAD" -> [l EXCEPT !.reads = @ \cup (key \ l.writes)]
        [] i.op = "SSTORE" -> [l EXCEPT !.writes = @ \cup (key \ l.reads)]
        [] OTHER -> l

\* reads: the slots that were read before they were written
Accessed(l, i, at) ==
  LET key == {<<at, i.slot>>}
  IN  CASE i.op = "SLOAD" -> [l EXCEPT !.reads = @ \cup (key \ l.writes)]
        [] i.op = "SSTORE" -> [l EXCEPT !.writes = @ \cup key]
        [] OTHER -> l

\* step() at a depth > 1; oog: the gas is less than the instruction's cost
Collect(i, oog) ==
  LET l == level[role]
      w == Window(lastThree, i)
      l1 == [l EXCEPT !.oog = @ \/ oog,
                      !.ext = @ \cup ExtAccess(w),
                      !.seen = @ \cup FirstMet(l, i),
                      !.empty = @ \cup (FirstMet(l, i) \ code),
                      !.opcodes = Counted(@, i)]
  IN  /\ level' = [level EXCEPT ![role] = Accessed(l1, i, Here)]
      /\ lastThree' = w
      /\ lastOp' = i.op
      /\ keccak' = IF i.op = "KECCAK256" THEN keccak \cup {i.owner} ELSE keccak
      /\ UNCHANGED role

\* enter() and exit(); of what a paymaster's validation returned, the context
Enter(type, from, to, method, value) ==
  [type |-> type, from |-> from, to |-> to, method |-> method, value |-> value,
   context |-> 0]
Leave(failed, context) ==
  [Enter(IF failed THEN "REVERT" ELSE "RETURN", EntryPoint, EntryPoint, "", FALSE)
     EXCEPT !.context = context]
-----------------------------------------------------------------------------
(* What the virtual machine does, and the tracer sees                      *)

Frame(type, at, callee) == [type |-> type, at |-> at, callee |-> callee, code |-> code]

\* the EntryPoint calls the next entity: step() at depth 1 opens a level.
\* SenderCreator's own code is one call of the factory.
CallEntity(r) ==
  /\ frames = <<>> /\ ~ended
  /\ r \in entities \ DOMAIN level
  /\ \A k \in 1 .. 3 : Order[k] \in entities \ DOMAIN level =>
       \E j \in 1 .. k : Order[j] = r
  /\ r = "account" => Sender \in code
  /\ LET first == Frame("CALL", Target[r], Target[r])
         enter == Enter("CALL", EntryPoint, Target[r], Method[r], FALSE)
         open(l) == [x \in DOMAIN level \cup {r} |-> IF x = r THEN l ELSE level[x]]
     IN  IF r = "factory"
         THEN /\ frames' = <<first, Frame("CALL", Factory, Factory)>>
              /\ calls' = calls \o <<enter, Enter("CALL", SenderCreator, Factory, "create", FALSE)>>
              /\ level' = open([NewLevel EXCEPT !.seen = {Factory}, !.opcodes = CountSlot(@, "CALL")])
              /\ lastThree' = <<[op |-> "CALL", to |-> Factory]>>
              /\ lastOp' = "CALL"
         ELSE /\ frames' = <<first>>
              /\ calls' = Append(calls, enter)
              /\ level' = open(NewLevel)
              /\ lastThree' = <<[op |-> "CALL", to |-> Target[r]]>>
              /\ lastOp' = ""
  /\ role' = r
  /\ UNCHANGED <<keccak, entities, code, steps, left, ended>>

Record(i, oog) ==
  steps' = Append(steps, [role |-> role, at |-> Here, callee |-> Last(frames).callee,
                          i |-> i, oog |-> oog, hasCode |-> i.to \in code])

\* an instruction of an entity or of a contract it called: the EntryPoint's
\* own functions only touch its storage
MayExecute(i) ==
  /\ frames # <<>> /\ Here # SenderCreator
  /\ Cardinality({k \in DOMAIN steps : steps[k].i.op \notin Exits}) < MaxSteps
  /\ Here = EntryPoint => i.op \in {"SLOAD", "SSTORE"}

Creates(i) == i.op = "CREATE2"

Execute(i) ==
  /\ MayExecute(i)
  /\ i.op \notin CallOps /\ ~Creates(i)
  /\ Record(i, FALSE)
  /\ Collect(i, FALSE)
  /\ UNCHANGED <<entities, code, frames, left, ended, calls>>

\* a call of a contract, or the creation of one
EnterFrame(i) ==
  /\ MayExecute(i)
  /\ IF Creates(i) THEN i.to \notin code ELSE i.op \in CallOps /\ i.to \in code
  /\ Record(i, FALSE)
  /\ Collect(i, FALSE)
  /\ calls' = Append(calls, Enter(i.op, Here, i.to, i.method, i.value))
  /\ frames' = Append(frames, Frame(i.op, IF i.op = "DELEGATECALL" THEN Here ELSE i.to, i.to))
  /\ UNCHANGED <<entities, code, left, ended>>

\* a call where there is no code returns at once
CallNoCode(i) ==
  /\ MayExecute(i)
  /\ i.op \in CallOps /\ i.to \notin code
  /\ Record(i, FALSE)
  /\ Collect(i, FALSE)
  /\ calls' = calls \o <<Enter(i.op, Here, i.to, i.method, i.value), Leave(FALSE, 0)>>
  /\ left' = Append(left, i.to)
  /\ UNCHANGED <<entities, code, frames, ended>>

\* an entity whose own call fails fails the validation: there is no result
Entity == [factory |-> Factory, account |-> Sender, paymaster |-> Paymaster]
MayFail == Len(frames) > (IF role = "factory" THEN 2 ELSE 1)

Pop(failed, context) ==
  /\ calls' = Append(calls, Leave(failed, context))
  /\ left' = Append(left, Last(frames).callee)
  /\ frames' = Front(frames)
  /\ code' = IF failed THEN Last(frames).code
             ELSE IF Last(frames).type = "CREATE2" THEN code \cup {Last(frames).callee}
             ELSE code

\* a frame ends by an opcode; the entities' own functions return a value
EndFrame(op, context) ==
  /\ frames # <<>>
  /\ op # "RETURN" => MayFail
  /\ context # 0 => role = "paymaster" /\ Len(frames) = 1
  /\ LET i == [op |-> op, to |-> EntryPoint]
     IN  Record(i, FALSE) /\ Collect(i, FALSE)
  /\ Pop(op = "REVERT", context)
  /\ UNCHANGED <<entities, ended>>

\* a frame runs out of gas
RunOutOfGas(i) ==
  /\ MayExecute(i) /\ MayFail
  /\ i.op \notin CallOps /\ ~Creates(i)
  /\ Record(i, TRUE)
  /\ Collect(i, TRUE)
  /\ Pop(TRUE, 0)
  /\ UNCHANGED <<entities, ended>>

\* simulateValidation reverts with its result: exit() is not called for the
\* outermost frame, the opcode stands for it
EndTrace ==
  /\ frames = <<>> /\ ~ended
  /\ DOMAIN level = entities
  /\ ended' = TRUE
  /\ calls' = Append(calls, Leave(TRUE, 0))
  /\ lastThree' = <<>>
  /\ lastOp' = ""
  /\ UNCHANGED <<role, level, keccak, entities, code, frames, steps, left>>

Next ==
  \/ \E r \in Role : CallEntity(r)
  \/ \E i \in Instr : Execute(i) \/ EnterFrame(i) \/ CallNoCode(i) \/ RunOutOfGas(i)
  \/ \E op \in Exits, context \in Contexts : EndFrame(op, context)
  \/ EndTrace

Spec == Init /\ [][Next]_vars
-----------------------------------------------------------------------------
\* Types of what the tracer keeps: levels of the operation's roles only, at
\* most three opcodes of history, no address found empty that was not met, no
\* opcode listed with a count of 0.
TracerTypeOK ==
  /\ "account" \in entities /\ entities \subseteq Role
  /\ DOMAIN level \subseteq entities
  /\ role \in DOMAIN level \cup {"none"}
  /\ \A r \in DOMAIN level :
       /\ level[r].empty \subseteq level[r].seen
       /\ level[r].oog \in BOOLEAN
       /\ \A op \in DOMAIN level[r].opcodes : level[r].opcodes[op] \in Nat \ {0}
  /\ Len(lastThree) <= 3
  /\ ended \in BOOLEAN
=============================================================================
