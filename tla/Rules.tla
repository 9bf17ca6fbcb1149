-------------------------------- MODULE Rules --------------------------------
(***************************************************************************)
(* tracerResultParser: the rules of ERC-4337 on what the validation of an  *)
(* operation may do, decided from what module Tracer collected, for every  *)
(* set of staked entities; and the storage map, which the bundler compares *)
(* and passes on.                                                          *)
(***************************************************************************)
EXTENDS Tracer

Banned == {"GAS", "NUMBER", "CREATE", "SELFDESTRUCT"}   \* and the rest of [OP-011]

\* the functions of the interfaces that parseCallStack knows by name
Named == {"createSender", "depositTo", "validatePaymasterUserOp"}
-----------------------------------------------------------------------------
(* parseCallStack *)

Top == Enter("top", SenderCreator, SenderCreator, "validateUserOp", FALSE)

\* the tracer reports the first 4000 characters of what a frame returned, two of
\* which are "0x" and which ethers does not decode when that cut something off
Cut(bytes) == bytes > 1999

\* of (context, validationData): three words beside the context
Decoded(context) == IF Cut(32 * (3 + context)) THEN 0 ELSE context

\* method.name is undefined for a failed call of an unknown function
CallEntry(top, exit) ==
  [type |-> top.type, from |-> top.from, to |-> top.to, context |-> Decoded(exit.context),
   value |-> top.type # "CREATE2" /\ top.value,
   method |-> IF top.type = "CREATE2" THEN ""
              ELSE IF exit.type = "REVERT" /\ top.method \notin Named THEN "undefined"
              ELSE top.method]

\* a mutant of Parsed: an exit takes the frame that was entered first
ParsedFirst(s, c) ==
  IF c.type \in Exits
  THEN [stack |-> IF s.stack = <<>> THEN <<>> ELSE Tail(s.stack),
        out |-> Append(s.out, CallEntry(IF s.stack = <<>> THEN Top ELSE Head(s.stack), c))]
  ELSE [s EXCEPT !.stack = Append(@, c)]

Parsed(s, c) ==
  IF c.type \in Exits
  THEN [stack |-> IF s.stack = <<>> THEN <<>> ELSE Front(s.stack),
        out |-> Append(s.out, CallEntry(IF s.stack = <<>> THEN Top ELSE Last(s.stack), c))]
  ELSE [s EXCEPT !.stack = Append(@, c)]

Parse(cs) ==
  LET after[k \in 0 .. Len(cs)] ==
        IF k = 0 THEN [stack |-> <<>>, out |-> <<>>] ELSE Parsed(after[k - 1], cs[k])
  IN  after[Len(cs)]
ParseCallStack == Parse(calls)
-----------------------------------------------------------------------------
(* tracerResultParser, where S is the set of staked entities               *)

\* a slot is an entity's if it is its address, or lies up to 128 slots after
\* a hash of a block that began with it
AssociatedWith(slot, addr) ==
  /\ slot.of = addr
  /\ \/ slot.kind = "address"
     \/ slot.kind = "hash" /\ addr \in keccak /\ slot.off < 128

\* a mutant of SlotNeeds: the stake of the factory does not count
SlotNeedsOwn(r, S, a, slot) ==
  IF AssociatedWith(slot, Sender)
  THEN IF "factory" \notin entities THEN "nothing" ELSE "stake"
  ELSE IF \/ AssociatedWith(slot, Entity[r])
          \/ a = Entity[r]
          \/ <<a, slot>> \notin level[r].writes
       THEN "stake" ELSE "ban"

SlotNeeds(r, S, a, slot) ==
  IF AssociatedWith(slot, Sender)
  THEN IF "factory" \notin entities \/ (r = "account" /\ "factory" \in S)
       THEN "nothing" ELSE "stake"
  ELSE IF \/ AssociatedWith(slot, Entity[r])
          \/ a = Entity[r]
          \/ <<a, slot>> \notin level[r].writes
       THEN "stake" ELSE "ban"

StorageAllowed(r, S) ==
  \A access \in level[r].reads \cup level[r].writes :
    \/ access[1] \in {Sender, EntryPoint}
    \/ SlotNeeds(r, S, access[1], access[2]) = "nothing"
    \/ SlotNeeds(r, S, access[1], access[2]) = "stake" /\ r \in S

OpcodesAllowed(r) ==
  LET opcodes == level[r].opcodes
  IN  /\ ~level[r].oog
      /\ DOMAIN opcodes \cap Banned = {}
      /\ CountOf(opcodes, "CREATE2") <= IF r = "factory" THEN 1 ELSE 0

CodeAllowed(r) ==
  /\ level[r].empty \subseteq {Sender}
  /\ EntryPoint \notin level[r].ext

CallsAllowed(out) ==
  \A k \in DOMAIN out :
    LET c == out[k] IN
      /\ c.to = EntryPoint /\ c.from # EntryPoint => c.method \in {"0x", "depositTo"}
      /\ c.value => c.to = EntryPoint

\* the rules that no stake waives
Unconditional ==
  /\ CallsAllowed(ParseCallStack.out)
  /\ \A r \in entities : OpcodesAllowed(r) /\ CodeAllowed(r)

\* validatePaymasterUserOp returns a context, by the first entry of that name
ReturnsContext ==
  LET out == ParseCallStack.out
      found == {k \in DOMAIN out : /\ out[k].method = "validatePaymasterUserOp"
                                   /\ out[k].to = Paymaster}
  IN  found # {} /\ out[CHOOSE k \in found : \A j \in found : k <= j].context # 0

StakeSuffices(S) ==
  /\ \A r \in entities : StorageAllowed(r, S)
  /\ "paymaster" \in S \/ ~ReturnsContext

\* _geth_traceCall_SimulateValidation: what simulateValidation reverts with has
\* the context once more, in ValidationResult's ReturnInfo, beside a selector and
\* 14 words, and is cut in the same way; a result that is cut is not parsed
\* (a mutant of it: only the numbers before the context are)
HeadParsed == calls # <<>>
ResultParsed == \A k \in DOMAIN calls : ~Cut(4 + 32 * (14 + calls[k].context))

\* a mutant of StorageMap: the reads of all levels
StorageMapOfAll ==
  [a \in {access[1] : access \in UNION {level[r].reads \cup level[r].writes : r \in DOMAIN level}} |->
     {x[2] : x \in {y \in UNION {level[r].reads : r \in DOMAIN level} : y[1] = a}}]

AccessedIn(r, a) == \E access \in level[r].reads \cup level[r].writes : access[1] = a

\* for each address, the reads of the first level that accessed it
StorageMap ==
  [a \in {access[1] : access \in UNION {level[r].reads \cup level[r].writes : r \in DOMAIN level}} |->
     LET k == CHOOSE k \in 1 .. 3 :
                /\ Order[k] \in DOMAIN level /\ AccessedIn(Order[k], a)
                /\ \A j \in 1 .. k - 1 : Order[j] \in DOMAIN level => ~AccessedIn(Order[j], a)
     IN  {x[2] : x \in {y \in level[Order[k]].reads : y[1] = a}}]
-----------------------------------------------------------------------------
(* Properties: the trace against the instructions that were executed       *)

Before(k) == IF k = 1 THEN "" ELSE steps[k - 1].i.op
After(k) == IF k = Len(steps) THEN "" ELSE steps[k + 1].i.op

\* a slot of addr: its address, or near a hash that this validation computed
OwnSlot(slot, addr) ==
  /\ slot.of = addr
  /\ \/ slot.kind = "address"
     \/ /\ slot.kind = "hash" /\ slot.off < 128
        /\ \E k \in DOMAIN steps : steps[k].i.op = "KECCAK256" /\ steps[k].i.owner = addr

LawfulOpcode(k) ==
  LET s == steps[k] IN
    /\ ~s.oog
    /\ s.i.op \in Banned => s.i.op = "GAS" /\ After(k) \in CallOps
    /\ Creates(s.i) =>
         /\ s.role = "factory"
         /\ \A j \in DOMAIN steps : Creates(steps[j].i) => j = k

\* what passes for a call: an opcode that has CALL in its name follows
LooksLikeCall(k) ==
  /\ steps[k].i.op = "GAS" /\ ~steps[k].oog
  /\ After(k) \in NamedCall \ CallOps

LawfulStorage(k, S) ==
  LET s == steps[k]
      own == Entity[s.role]
  IN  s.i.op \in {"SLOAD", "SSTORE"} =>
        \/ s.at \in {Sender, EntryPoint}
        \/ /\ OwnSlot(s.i.slot, Sender)
           /\ "factory" \in entities => s.role \in S \/ (s.role = "account" /\ "factory" \in S)
        \/ /\ s.role \in S /\ ~OwnSlot(s.i.slot, Sender)
           /\ OwnSlot(s.i.slot, own) \/ s.at = own \/ s.i.op = "SLOAD"

LawfulCall(k) ==
  LET i == steps[k].i IN
    i.op \in CallOps => /\ i.to = EntryPoint => i.method \in {"0x", "depositTo"}
                        /\ i.value => i.to = EntryPoint

\* the address has code, at least when the level meets it first
Meets(k) == steps[k].i.op \in CallOps \cup ExtOps
LawfulTarget(k) ==
  LET to == steps[k].i.to IN
    Meets(k) => \/ to \in Precompile \cup {Sender}
                \/ \E j \in 1 .. k : /\ Meets(j) /\ steps[j].i.to = to
                                      /\ steps[j].role = steps[k].role /\ steps[j].hasCode

LawfulContext(S) ==
  \A k \in DOMAIN calls : calls[k].context # 0 => "paymaster" \in S

\* the instructions by which the code of the EntryPoint is looked at
Looks(k) == steps[k].i.op \in ExtOps /\ steps[k].i.to = EntryPoint
Safe(k) == steps[k].i.op = "EXTCODESIZE" /\ After(k) = "ISZERO"

\* The rules are kept by every operation that is accepted: each instruction
\* that was executed, in whatever frame and level, was allowed to the entity
\* that executed it, and a paymaster that returned a context is staked, however
\* long the context is, although the parser does not see a long one.  Two things
\* pass: GAS before an opcode that only has CALL in its name, and an EXT* opcode
\* that a frame ends on, for the tracer forgets its history there.
AcceptedKeepsRules ==
  ended =>
    /\ Unconditional =>
         \A k \in DOMAIN steps :
           /\ LawfulOpcode(k) \/ LooksLikeCall(k)
           /\ LawfulCall(k) /\ LawfulTarget(k)
           /\ Looks(k) => Safe(k) \/ After(k) \in Flushes
    /\ \A S \in SUBSET entities : StakeSuffices(S) =>
         /\ ResultParsed => LawfulContext(S)
         /\ \A k \in DOMAIN steps : LawfulStorage(k, S)

\* An operation that the parser rejects broke a rule, but for two things that
\* break none: EXTCODESIZE then ISZERO of the EntryPoint right after a frame has
\* ended, where the history is too short to match, and a failed plain call of the
\* EntryPoint, the name of which is lost.
RejectedBreaksRule ==
  ended =>
    /\ ~Unconditional =>
         \E k \in DOMAIN steps :
           \/ ~(LawfulOpcode(k) \/ LooksLikeCall(k))
           \/ ~(LawfulCall(k) /\ LawfulTarget(k))
           \/ Looks(k) /\ (Safe(k) => Before(k) \in Flushes)
           \/ steps[k].callee = EntryPoint /\ steps[k].i.op = "REVERT"
    /\ \A S \in SUBSET entities : ~StakeSuffices(S) =>
         ~LawfulContext(S) \/ \E k \in DOMAIN steps : ~LawfulStorage(k, S)

\* The storage map has every address whose storage was accessed, which the
\* bundler's search for conflicts relies on, and only slots whose value was
\* read before anything of the operation wrote it: the node is told to
\* include the bundle only while those values are unchanged.
StorageMapSound ==
  ended =>
    LET access(op) == {k \in DOMAIN steps : steps[k].i.op \in op}
    IN  /\ DOMAIN StorageMap = {steps[k].at : k \in access({"SLOAD", "SSTORE"})}
        /\ \A a \in DOMAIN StorageMap : \A slot \in StorageMap[a] :
             \E k \in access({"SLOAD"}) :
               /\ steps[k].at = a /\ steps[k].i.slot = slot
               /\ \A j \in access({"SSTORE"}) :
                    steps[j].at = a /\ steps[j].i.slot = slot => j > k

\* The call stack that is parsed has one entry per frame, in the order in
\* which the frames were left, then the EntryPoint's own, and nothing is left
\* on the stack: what the parser means to check at its end.
CallStackSound ==
  ended =>
    LET p == ParseCallStack
    IN  /\ p.stack = <<>>
        /\ Len(p.out) = Len(left) + 1
        /\ \A k \in DOMAIN left : p.out[k].to = left[k]
        /\ Last(p.out).type = "top"
=============================================================================
