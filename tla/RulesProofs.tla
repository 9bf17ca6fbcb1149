----------------------------- MODULE RulesProofs -----------------------------
(* What holds of every trace, whatever instructions the entities execute,  *)
(* in whatever nesting of frames: the call stack that is parsed, the       *)
(* storage map, and the rules.                                             *)
EXTENDS Rules, SequenceProofs

-----------------------------------------------------------------------------
(* Sequences: the last element and the rest                                *)

LEMMA LastOf ==
  ASSUME NEW S, NEW s \in Seq(S), s # <<>>
  PROVE  /\ Last(s) = s[Len(s)] /\ Last(s) \in S /\ Len(s) \in Nat \ {0}
         /\ Front(s) \in Seq(S) /\ Len(Front(s)) = Len(s) - 1
         /\ \A k \in 1 .. Len(s) - 1 : Front(s)[k] = s[k]
<1>1. Len(s) \in Nat \ {0} /\ s[Len(s)] \in S
  OBVIOUS
<1>2. Front(s) = SubSeq(s, 1, Len(s) - 1)
  BY DEF Front
<1>3. PICK n \in Nat : Len(s) = n + 1
  <2>1. Len(s) - 1 \in Nat /\ Len(s) = (Len(s) - 1) + 1
    BY <1>1
  <2>. QED
    BY <2>1
<1>4. SubSeq(s, 1, n) \in Seq(S) /\ Len(SubSeq(s, 1, n)) = n /\ \A k \in 1 .. n : SubSeq(s, 1, n)[k] = s[k]
  BY <1>3
<1>5. Front(s) = SubSeq(s, 1, n)
  BY <1>2, <1>3
<1>. QED
  BY <1>1, <1>3, <1>4, <1>5 DEF Last

LEMMA Appended ==
  ASSUME NEW S, NEW s \in Seq(S), NEW x \in S
  PROVE  /\ Append(s, x) \in Seq(S) /\ Len(Append(s, x)) = Len(s) + 1 /\ Len(s) \in Nat
         /\ DOMAIN s = 1 .. Len(s) /\ DOMAIN Append(s, x) = 1 .. Len(s) + 1
         /\ Append(s, x)[Len(s) + 1] = x /\ \A k \in 1 .. Len(s) : Append(s, x)[k] = s[k]
         /\ Append(s, x) # <<>> /\ Last(Append(s, x)) = x /\ Front(Append(s, x)) = s
<1>1. /\ Append(s, x) \in Seq(S) /\ Len(Append(s, x)) = Len(s) + 1 /\ Len(s) \in Nat
      /\ DOMAIN s = 1 .. Len(s) /\ DOMAIN Append(s, x) = 1 .. Len(s) + 1
      /\ Append(s, x)[Len(s) + 1] = x /\ \A k \in 1 .. Len(s) : Append(s, x)[k] = s[k]
  OBVIOUS
<1>2. Append(s, x) # <<>>
  BY <1>1
<1>3. Last(Append(s, x)) = x
  BY <1>1 DEF Last
<1>4. Front(Append(s, x)) = s
  <2>. DEFINE t == Append(s, x)
              u == Front(t)
  <2>1. u \in Seq(S) /\ Len(u) = Len(t) - 1 /\ \A k \in 1 .. Len(t) - 1 : u[k] = t[k]
    <3>. HIDE DEF t
    <3>. QED
      BY <1>1, <1>2, LastOf DEF t
  <2>2. Len(u) = Len(s) /\ \A k \in 1 .. Len(s) : u[k] = s[k]
    BY <1>1, <2>1
  <2>3. DOMAIN u = 1 .. Len(s) /\ DOMAIN s = 1 .. Len(s)
    BY <1>1, <2>1, <2>2
  <2>. HIDE DEF u
  <2>4. u = s
    BY <2>1, <2>2, <2>3
  <2>. QED
    BY <2>4 DEF u
<1>. QED
  BY <1>1, <1>2, <1>3, <1>4

-----------------------------------------------------------------------------
(* parseCallStack, one call after the other                                *)

OutOf(S) == {CallEntry(x[1], x[2]) : x \in (S \cup {Top}) \X S}
Parses(S) == [stack : Seq(S), out : Seq(OutOf(S))]
Nothing == [stack |-> <<>>, out |-> <<>>]

LEMMA ParsedTypes ==
  ASSUME NEW S, NEW p \in Parses(S), NEW c \in S
  PROVE  Parsed(p, c) \in Parses(S)
<1>1. p.stack \in Seq(S) /\ p.out \in Seq(OutOf(S)) /\ p = [stack |-> p.stack, out |-> p.out]
  BY DEF Parses
<1>2. CASE c.type \in Exits
  <2>. DEFINE top == IF p.stack = <<>> THEN Top ELSE Last(p.stack)
              rest == IF p.stack = <<>> THEN <<>> ELSE Front(p.stack)
  <2>1. top \in S \cup {Top} /\ rest \in Seq(S)
    BY <1>1, LastOf
  <2>. HIDE DEF top, rest
  <2>2. CallEntry(top, c) \in OutOf(S)
    <3>1. <<top, c>> \in (S \cup {Top}) \X S
      BY <2>1
    <3>2. CallEntry(<<top, c>>[1], <<top, c>>[2]) \in OutOf(S)
      BY <3>1 DEF OutOf
    <3>. QED
      BY <3>2
  <2>3. Append(p.out, CallEntry(top, c)) \in Seq(OutOf(S))
    BY <1>1, <2>2
  <2>4. Parsed(p, c) = [stack |-> rest, out |-> Append(p.out, CallEntry(top, c))]
    BY <1>2 DEF Parsed, top, rest
  <2>. QED
    BY <2>1, <2>3, <2>4 DEF Parses
<1>3. CASE c.type \notin Exits
  <2>1. Parsed(p, c) = [stack |-> Append(p.stack, c), out |-> p.out]
    BY <1>1, <1>3 DEF Parsed
  <2>. QED
    BY <1>1, <2>1 DEF Parses
<1>. QED
  BY <1>2, <1>3

ParseFun(f, S, cs) ==
  /\ f \in [0 .. Len(cs) -> Parses(S)]
  /\ f[0] = Nothing
  /\ \A n \in 1 .. Len(cs) : f[n] = Parsed(f[n - 1], cs[n])
  /\ Parse(cs) = f[Len(cs)]

LEMMA ParseSteps ==
  ASSUME NEW S, NEW cs \in Seq(S)
  PROVE  \E f : ParseFun(f, S, cs)
<1>. DEFINE R == Parses(S)
            N == Len(cs)
            G == [x \in R \X (1 .. N) |-> Parsed(x[1], cs[x[2]])]
            at == CHOOSE f : f = [k \in 0 .. N |-> IF k = 0 THEN Nothing ELSE Parsed(f[k - 1], cs[k])]
<1>1. N \in Nat /\ Nothing \in R /\ \A n \in 1 .. N : cs[n] \in S
  BY DEF Nothing, Parses
<1>2. StepOn(G, N, R)
  <2>1. ASSUME NEW r \in R, NEW i \in 1 .. N PROVE Parsed(r, cs[i]) \in R
    BY <1>1, ParsedTypes
  <2>. HIDE DEF R
  <2>. QED
    BY <2>1 DEF StepOn
<1>3. PICK f : Iterates(f, G, N, R, Nothing)
  <2>. HIDE DEF R, N, G
  <2>. QED
    BY <1>1, <1>2, RecursionExists
<1>. f \in [0 .. N -> R] /\ f[0] = Nothing
  BY <1>3 DEF Iterates
<1>4. ASSUME NEW n \in 1 .. N PROVE f[n] = Parsed(f[n - 1], cs[n])
  <2>1. <<f[n - 1], n>> \in R \X (1 .. N)
    BY <1>1
  <2>2. f[n] = G[<<f[n - 1], n>>]
    BY <1>3 DEF Iterates
  <2>. HIDE DEF R
  <2>. QED
    BY <2>1, <2>2
<1>5. f = [k \in 0 .. N |-> IF k = 0 THEN Nothing ELSE Parsed(f[k - 1], cs[k])]
  <2>. HIDE DEF R, G
  <2>. QED
    BY <1>1, <1>4
<1>6. at = [k \in 0 .. N |-> IF k = 0 THEN Nothing ELSE Parsed(at[k - 1], cs[k])]
  BY <1>5
<1>7. Parse(cs) = at[N]
  BY DEF Parse, Nothing
<1>. HIDE DEF at
<1>8. at[0] = Nothing /\ \A n \in 1 .. N : at[n] = Parsed(at[n - 1], cs[n])
  BY <1>1, <1>6
<1>9. \A n \in 0 .. N : at[n] \in R
  <2>. DEFINE T == {n \in 0 .. N : at[n] \in R}
  <2>1. 0 \in T
    BY <1>1, <1>8
  <2>2. ASSUME NEW k \in 0 .. N - 1, k \in T PROVE k + 1 \in T
    <3>1. at[k + 1] = Parsed(at[k], cs[k + 1]) /\ cs[k + 1] \in S /\ at[k] \in R /\ k + 1 \in 0 .. N
      BY <1>1, <1>8, <2>2
    <3>2. at[k + 1] \in R
      BY <3>1, ParsedTypes
    <3>. HIDE DEF R
    <3>. QED
      BY <3>1, <3>2
  <2>3. 0 .. N \subseteq T
    <3>. HIDE DEF T
    <3>. QED
      BY <1>1, <2>1, <2>2, AllBelow
  <2>. QED
    BY <2>3
<1>10. at \in [0 .. N -> R]
  <2>. HIDE DEF R
  <2>. QED
    BY <1>6, <1>9
<1>. QED
  BY <1>7, <1>8, <1>10 DEF ParseFun

LEMMA ParseEmpty ==
  Parse(<<>>) = Nothing
<1>1. PICK f : ParseFun(f, {}, <<>>)
  <2>1. <<>> \in Seq({})
    OBVIOUS
  <2>. QED
    BY <2>1, ParseSteps
<1>. QED
  BY <1>1 DEF ParseFun

LEMMA ParseAppend ==
  ASSUME NEW S, NEW cs \in Seq(S), NEW c \in S
  PROVE  Parse(Append(cs, c)) = Parsed(Parse(cs), c) /\ Parse(cs) \in Parses(S)
<1>. DEFINE ds == Append(cs, c)
            N == Len(cs)
<1>1. /\ ds \in Seq(S) /\ Len(ds) = N + 1 /\ N \in Nat /\ ds[N + 1] = c
      /\ \A k \in 1 .. N : ds[k] = cs[k]
  BY Appended
<1>. HIDE DEF ds
<1>2. PICK f : ParseFun(f, S, cs)
  BY ParseSteps
<1>3. PICK g : ParseFun(g, S, ds)
  BY <1>1, ParseSteps
<1>. DEFINE T == {k \in 0 .. N : g[k] = f[k]}
<1>4. 0 \in T
  BY <1>1, <1>2, <1>3 DEF ParseFun
<1>5. ASSUME NEW k \in 0 .. N - 1, k \in T PROVE k + 1 \in T
  <2>1. k + 1 \in 1 .. N /\ k + 1 \in 1 .. Len(ds) /\ (k + 1) - 1 = k /\ ds[k + 1] = cs[k + 1]
    BY <1>1
  <2>2. f[k + 1] = Parsed(f[k], cs[k + 1])
    BY <1>2, <2>1 DEF ParseFun
  <2>3. g[k + 1] = Parsed(g[k], ds[k + 1])
    BY <1>3, <2>1 DEF ParseFun
  <2>. QED
    BY <1>1, <1>5, <2>1, <2>2, <2>3
<1>6. g[N] = f[N]
  <2>1. 0 .. N \subseteq T
    <3>. HIDE DEF T
    <3>. QED
      BY <1>1, <1>4, <1>5, AllBelow
  <2>. QED
    BY <1>1, <2>1
<1>7. N + 1 \in 1 .. Len(ds) /\ (N + 1) - 1 = N
  BY <1>1
<1>8. g[N + 1] = Parsed(g[N], c)
  BY <1>1, <1>3, <1>7 DEF ParseFun
<1>9. Parse(ds) = g[N + 1] /\ Parse(cs) = f[N] /\ f[N] \in Parses(S)
  BY <1>1, <1>2, <1>3 DEF ParseFun
<1>. QED
  BY <1>6, <1>8, <1>9 DEF ds

-----------------------------------------------------------------------------
(* Types of the trace                                                      *)

Address == {i.to : i \in Instr} \cup {Sender, Factory, Paymaster, EntryPoint, SenderCreator}
Ops == {i.op : i \in Instr} \cup Exits \cup {"CALL", "GAS"}
ExitInstr == [op : Exits, to : {EntryPoint}]
Ran == Instr \cup ExitInstr
Access == Address \X {i.slot : i \in Instr}

CallRec == [type : {"CALL", "DELEGATECALL", "CREATE2", "REVERT", "RETURN"}, from : Address, to : Address,
            method : {i.method : i \in Instr} \cup {"", "create"} \cup {Method[r] : r \in Role},
            value : BOOLEAN, context : Contexts]
FrameRec == [type : {"CALL", "DELEGATECALL", "CREATE2"}, at : Address, callee : Address,
             code : SUBSET (Address \cup Deployed)]
StepRec == [role : Role, at : Address, callee : Address, i : Ran, oog : BOOLEAN, hasCode : BOOLEAN]
OpRec == [op : Ops, to : Address]
Counts == UNION {[D -> Nat \ {0}] : D \in SUBSET Ops}
LevelRec == [reads : SUBSET Access, writes : SUBSET Access, opcodes : Counts, seen : SUBSET Address,
             empty : SUBSET Address, ext : SUBSET Address, oog : BOOLEAN]

HaveCode == {Factory, Paymaster, EntryPoint, SenderCreator}

TypeInv ==
  /\ TracerTypeOK
  /\ code \in SUBSET (Address \cup Deployed) /\ HaveCode \subseteq code
  /\ frames \in Seq(FrameRec) /\ \A k \in DOMAIN frames : HaveCode \subseteq frames[k].code
  /\ calls \in Seq(CallRec) /\ steps \in Seq(StepRec) /\ left \in Seq(Address)
  /\ lastThree \in Seq(OpRec)
  /\ level \in [DOMAIN level -> LevelRec]
  /\ frames # <<>> => role \in DOMAIN level /\ ~ended

\* An instruction that is executed, or the opcode that ends a frame
Runs(i, oog) ==
  /\ frames # <<>> /\ i \in Ran /\ oog \in BOOLEAN
  /\ Record(i, oog) /\ Collect(i, oog)
  /\ UNCHANGED <<entities, ended>>

\* and what comes of the frames
NoFrame(i) == UNCHANGED <<code, frames, left, calls>> /\ i \in Instr /\ i.op \notin CallOps \cup {"CREATE2"}
NewFrame(i) ==
  /\ i \in Instr /\ i.op \in CallOps \cup {"CREATE2"} /\ (i.op = "CREATE2" <=> i.to \notin code)
  /\ calls' = Append(calls, Enter(i.op, Here, i.to, i.method, i.value))
  /\ frames' = Append(frames, Frame(i.op, IF i.op = "DELEGATECALL" THEN Here ELSE i.to, i.to))
  /\ UNCHANGED <<code, left>>
EmptyFrame(i) ==
  /\ i \in Instr /\ i.op \in CallOps /\ i.to \notin code
  /\ calls' = calls \o <<Enter(i.op, Here, i.to, i.method, i.value), Leave(FALSE, 0)>>
  /\ left' = Append(left, i.to)
  /\ UNCHANGED <<code, frames>>
Over(i, oog, failed, context) ==
  /\ i.op \notin CallOps \cup {"CREATE2"}
  /\ i \in ExitInstr \/ oog
  /\ failed => (oog \/ i.op = "REVERT") /\ MayFail
  /\ oog => i \in Instr /\ MayFail /\ failed
  /\ i \in ExitInstr /\ i.op # "RETURN" => MayFail
  /\ failed \in BOOLEAN /\ context \in Contexts
  /\ context # 0 => role = "paymaster" /\ Len(frames) = 1 /\ i.op = "RETURN" /\ ~failed
  /\ Pop(failed, context)
Frames(i, oog) ==
  \/ NoFrame(i) /\ ~oog
  \/ NewFrame(i) /\ ~oog
  \/ EmptyFrame(i) /\ ~oog
  \/ \E failed \in BOOLEAN, context \in Contexts : Over(i, oog, failed, context)
Step(i, oog) == /\ Runs(i, oog) /\ Frames(i, oog)
                /\ Here # SenderCreator \/ i \in ExitInstr
                /\ Here = EntryPoint => i.op \in {"SLOAD", "SSTORE"} \cup Exits

LEMMA NextCases ==
  ASSUME [Next]_vars
  PROVE  \/ UNCHANGED vars
         \/ \E r \in Role : CallEntity(r)
         \/ \E i \in Ran, oog \in BOOLEAN : Step(i, oog)
         \/ EndTrace
<1>1. ASSUME NEW i \in Instr, Execute(i) PROVE Step(i, FALSE)
  BY <1>1 DEF Execute, MayExecute, Step, Runs, Ran, Frames, NoFrame, Creates
<1>2. ASSUME NEW i \in Instr, EnterFrame(i) PROVE Step(i, FALSE)
  <2>1. i.op \in CallOps \cup {"CREATE2"} /\ (i.op = "CREATE2" <=> i.to \notin code)
    BY <1>2 DEF EnterFrame, Creates, CallOps
  <2>. QED
    BY <1>2, <2>1 DEF EnterFrame, MayExecute, Step, Runs, Ran, Frames, NewFrame
<1>3. ASSUME NEW i \in Instr, CallNoCode(i) PROVE Step(i, FALSE)
  BY <1>3 DEF CallNoCode, MayExecute, Step, Runs, Ran, Frames, EmptyFrame
<1>4. ASSUME NEW i \in Instr, RunOutOfGas(i) PROVE Step(i, TRUE)
  <2>1. Over(i, TRUE, TRUE, 0)
    BY <1>4, InstrAssumption DEF RunOutOfGas, Creates, Over, ExitInstr
  <2>2. Runs(i, TRUE) /\ (Here # SenderCreator) /\ (Here = EntryPoint => i.op \in {"SLOAD", "SSTORE"} \cup Exits)
    BY <1>4 DEF RunOutOfGas, MayExecute, Runs, Ran
  <2>3. \E failed \in BOOLEAN, context \in Contexts : Over(i, TRUE, failed, context)
    BY <2>1, InstrAssumption
  <2>. QED
    BY <2>2, <2>3 DEF Step, Frames
<1>5. ASSUME NEW op \in Exits, NEW context \in Contexts, EndFrame(op, context)
      PROVE  \E i \in Ran : Step(i, FALSE)
  <2>. DEFINE i == [op |-> op, to |-> EntryPoint]
  <2>1. i \in ExitInstr /\ i \in Ran /\ i.op = op /\ op \notin CallOps \cup {"CREATE2"}
    BY DEF ExitInstr, Ran, Exits, Flushes, CallOps
  <2>2. Record(i, FALSE) /\ Collect(i, FALSE) /\ Pop(op = "REVERT", context) /\ frames # <<>>
    BY <1>5 DEF EndFrame
  <2>. HIDE DEF i
  <2>3. context # 0 => role = "paymaster" /\ Len(frames) = 1 /\ op = "RETURN" /\ op # "REVERT"
    <3>1. CASE op = "RETURN"
      BY <1>5, <3>1 DEF EndFrame
    <3>2. CASE op # "RETURN"
      <4>1. MayFail /\ (context # 0 => role = "paymaster" /\ Len(frames) = 1)
        BY <1>5, <3>2 DEF EndFrame
      <4>2. ~(role = "paymaster" /\ Len(frames) = 1)
        <5>. SUFFICES ASSUME role = "paymaster", Len(frames) = 1 PROVE ~MayFail
          BY <4>1
        <5>1. MayFail <=> 1 > (IF role = "factory" THEN 2 ELSE 1)
          BY DEF MayFail
        <5>2. role # "factory"
          OBVIOUS
        <5>. QED
          BY <5>1, <5>2
      <4>. QED
        BY <4>1, <4>2
    <3>. QED
      BY <3>1, <3>2
  <2>4. Over(i, FALSE, op = "REVERT", context)
    BY <1>5, <2>1, <2>2, <2>3 DEF EndFrame, Over
  <2>5. Runs(i, FALSE)
    BY <1>5, <2>1, <2>2 DEF EndFrame, Runs
  <2>. QED
    BY <2>1, <2>4, <2>5 DEF Step, Frames
<1>6. ASSUME Next
      PROVE  \/ \E r \in Role : CallEntity(r)
             \/ \E i \in Instr : Execute(i) \/ EnterFrame(i) \/ CallNoCode(i) \/ RunOutOfGas(i)
             \/ \E op \in Exits, context \in Contexts : EndFrame(op, context)
             \/ EndTrace
  BY <1>6 DEF Next
<1>7. ASSUME \E op \in Exits, context \in Contexts : EndFrame(op, context)
      PROVE  \E i \in Ran : Step(i, FALSE)
  <2>. PICK op \in Exits, context \in Contexts : EndFrame(op, context)
    BY <1>7
  <2>. QED
    BY <1>5
<1>. HIDE DEF Step
<1>. QED
  BY <1>1, <1>2, <1>3, <1>4, <1>6, <1>7 DEF Ran

-----------------------------------------------------------------------------
(* What one instruction adds to what the tracer has                        *)

LEMMA InstrTypes ==
  ASSUME NEW i \in Ran
  PROVE  /\ i.op \in Ops /\ i.to \in Address
         /\ i.op \notin Exits => i \in Instr
         /\ i.op \in Exits <=> i \in ExitInstr
         /\ i \in ExitInstr => i.to = EntryPoint
<1>1. CASE i \in Instr
  <2>1. i.op \in Ops /\ i.to \in Address /\ i.op \notin Exits
    BY <1>1, InstrAssumption DEF Ops, Address
  <2>2. i \notin ExitInstr
    BY <2>1 DEF ExitInstr
  <2>. QED
    BY <1>1, <2>1, <2>2
<1>2. CASE i \in ExitInstr
  <2>1. i.op \in Exits /\ i.to = EntryPoint
    BY <1>2 DEF ExitInstr
  <2>. QED
    BY <1>2, <2>1 DEF Ops, Address
<1>. QED
  BY <1>1, <1>2 DEF Ran

LEMMA CountSlotTypes ==
  ASSUME NEW list \in Counts, NEW op \in Ops
  PROVE  /\ CountSlot(list, op) \in Counts
         /\ DOMAIN CountSlot(list, op) = DOMAIN list \cup {op}
         /\ CountOf(list, op) \in Nat
         /\ \A x : CountOf(CountSlot(list, op), x) = CountOf(list, x) + IF x = op THEN 1 ELSE 0
<1>1. PICK D \in SUBSET Ops : list \in [D -> Nat \ {0}]
  BY DEF Counts
<1>2. \A x : CountOf(list, x) \in Nat /\ (x \in D => CountOf(list, x) = list[x] /\ list[x] \in Nat \ {0})
             /\ (x \notin D => CountOf(list, x) = 0)
  BY <1>1 DEF CountOf
<1>3. CountSlot(list, op) \in [D \cup {op} -> Nat \ {0}]
  <2>1. \A x \in D \cup {op} : CountOf(list, x) + (IF x = op THEN 1 ELSE 0) \in Nat \ {0}
    BY <1>2
  <2>2. CountSlot(list, op) = [x \in D \cup {op} |-> CountOf(list, x) + IF x = op THEN 1 ELSE 0]
    BY <1>1 DEF CountSlot
  <2>. QED
    BY <2>1, <2>2
<1>4. D \cup {op} \in SUBSET Ops
  OBVIOUS
<1>5. ASSUME NEW x PROVE CountOf(CountSlot(list, op), x) = CountOf(list, x) + IF x = op THEN 1 ELSE 0
  <2>1. CASE x \in D \cup {op}
    BY <1>1, <1>3, <2>1 DEF CountOf, CountSlot
  <2>2. CASE x \notin D \cup {op}
    BY <1>2, <1>3, <2>2 DEF CountOf
  <2>. QED
    BY <2>1, <2>2
<1>. QED
  BY <1>1, <1>2, <1>3, <1>4, <1>5 DEF Counts

\* The opcodes that an instruction counts: itself, unless unimportant, and GAS before it
Counts1(i) == IF i.op \in Unimportant \cup {"GAS"} THEN {} ELSE {i.op}
CountsGas(i) == lastOp = "GAS" /\ i.op \notin NamedCall

LEMMA CountedTypes ==
  ASSUME NEW list \in Counts, NEW i \in Ran
  PROVE  /\ Counted(list, i) \in Counts
         /\ DOMAIN Counted(list, i) = DOMAIN list \cup Counts1(i) \cup (IF CountsGas(i) THEN {"GAS"} ELSE {})
         /\ CountOf(list, "CREATE2") \in Nat
         /\ CountOf(Counted(list, i), "CREATE2")
              = CountOf(list, "CREATE2") + IF i.op = "CREATE2" THEN 1 ELSE 0
<1>. DEFINE l1 == IF CountsGas(i) THEN CountSlot(list, "GAS") ELSE list
<1>1. i.op \in Ops /\ "GAS" \in Ops
  BY InstrTypes DEF Ops
<1>2. /\ l1 \in Counts /\ DOMAIN l1 = DOMAIN list \cup (IF CountsGas(i) THEN {"GAS"} ELSE {})
      /\ CountOf(l1, "CREATE2") = CountOf(list, "CREATE2") /\ CountOf(list, "CREATE2") \in Nat
  <2>1. CountOf(list, "CREATE2") \in Nat
    BY DEF CountOf, Counts
  <2>2. CASE CountsGas(i)
    <3>1. /\ CountSlot(list, "GAS") \in Counts /\ DOMAIN CountSlot(list, "GAS") = DOMAIN list \cup {"GAS"}
          /\ CountOf(CountSlot(list, "GAS"), "CREATE2") = CountOf(list, "CREATE2") + 0
      BY <1>1, CountSlotTypes
    <3>. QED
      BY <2>1, <2>2, <3>1
  <2>3. CASE ~CountsGas(i)
    BY <2>1, <2>3
  <2>. QED
    BY <2>2, <2>3
<1>3. Counted(list, i) = IF i.op \in Unimportant \cup {"GAS"} THEN l1 ELSE CountSlot(l1, i.op)
  BY DEF Counted, CountsGas
<1>. HIDE DEF l1
<1>4. CASE i.op \in Unimportant \cup {"GAS"}
  BY <1>2, <1>3, <1>4 DEF Counts1, Unimportant
<1>5. CASE i.op \notin Unimportant \cup {"GAS"}
  <2>1. /\ CountSlot(l1, i.op) \in Counts /\ DOMAIN CountSlot(l1, i.op) = DOMAIN l1 \cup {i.op}
        /\ CountOf(CountSlot(l1, i.op), "CREATE2") = CountOf(l1, "CREATE2") + IF "CREATE2" = i.op THEN 1 ELSE 0
    BY <1>1, <1>2, CountSlotTypes
  <2>. QED
    BY <1>2, <1>3, <1>5, <2>1 DEF Counts1
<1>. QED
  BY <1>4, <1>5

LEMMA TailOf ==
  ASSUME NEW S, NEW s \in Seq(S), s # <<>>
  PROVE  /\ Tail(s) \in Seq(S) /\ Len(Tail(s)) = Len(s) - 1
         /\ \A k \in 1 .. Len(s) - 1 : Tail(s)[k] = s[k + 1]
OBVIOUS

LEMMA WindowTypes ==
  ASSUME NEW s \in Seq(OpRec), Len(s) <= 3, NEW i \in Ran
  PROVE  /\ Window(s, i) \in Seq(OpRec) /\ Len(Window(s, i)) <= 3 /\ ExtAccess(Window(s, i)) \in SUBSET Address
         /\ i.op \in Flushes => Window(s, i) = <<>>
         /\ i.op \notin Flushes =>
              /\ Window(s, i) # <<>> /\ Last(Window(s, i)) = [op |-> i.op, to |-> i.to]
              /\ Len(Window(s, i)) = IF Len(s) = 3 THEN 3 ELSE Len(s) + 1
              /\ s # <<>> => Window(s, i)[Len(Window(s, i)) - 1] = Last(s)
<1>. DEFINE x == [op |-> i.op, to |-> i.to]
            w == Append(s, x)
            v == Window(s, i)
<1>1. x \in OpRec
  BY InstrTypes DEF OpRec
<1>2. /\ w \in Seq(OpRec) /\ Len(w) = Len(s) + 1 /\ Len(s) \in Nat /\ w[Len(s) + 1] = x
      /\ \A k \in 1 .. Len(s) : w[k] = s[k]
  BY <1>1, Appended
<1>3. v = IF i.op \in Flushes THEN <<>> ELSE IF Len(w) > 3 THEN Tail(w) ELSE w
  BY DEF Window
<1>. HIDE DEF x, w, v
<1>4. CASE i.op \in Flushes
  <2>1. v = <<>> /\ ExtAccess(v) = {}
    BY <1>3, <1>4 DEF ExtAccess
  <2>2. Len(v) = 0
    BY <2>1
  <2>. QED
    BY <1>4, <2>1, <2>2 DEF v
<1>5. CASE i.op \notin Flushes
  <2>0. PICK n \in Nat : Len(s) = n /\ n <= 3 /\ Len(w) = n + 1 /\ w[n + 1] = x /\ \A k \in 1 .. n : w[k] = s[k]
    BY <1>2
  <2>1. /\ v \in Seq(OpRec) /\ Len(v) = (IF n = 3 THEN 3 ELSE n + 1) /\ v[Len(v)] = x
        /\ n > 0 => v[Len(v) - 1] = s[n]
    <3>1. CASE n = 3
      <4>1. n + 1 > 3 /\ n \in 1 .. n /\ n - 1 \in 1 .. n /\ (n - 1) + 1 = n /\ (n + 1) - 1 = n
        BY <3>1
      <4>2. v = Tail(w)
        BY <1>3, <1>5, <2>0, <4>1
      <4>3. w # <<>>
        BY <2>0
      <4>4. Len(Tail(w)) = n /\ Tail(w) \in Seq(OpRec) /\ \A k \in 1 .. n : Tail(w)[k] = w[k + 1]
        BY <1>2, <2>0, <4>1, <4>3, TailOf
      <4>5. v \in Seq(OpRec) /\ Len(v) = n /\ v[n] = w[n + 1] /\ v[n - 1] = w[n]
        BY <4>1, <4>2, <4>4
      <4>. QED
        BY <2>0, <3>1, <4>1, <4>5
    <3>2. CASE n # 3
      <4>1. ~(n + 1 > 3)
        BY <2>0, <3>2
      <4>2. v = w
        BY <1>3, <1>5, <2>0, <4>1
      <4>3. v \in Seq(OpRec) /\ Len(v) = n + 1 /\ (n + 1) - 1 = n
        BY <1>2, <2>0, <4>2
      <4>4. n > 0 => n \in 1 .. n
        OBVIOUS
      <4>. QED
        BY <2>0, <3>2, <4>2, <4>3, <4>4
    <3>. QED
      BY <3>1, <3>2
  <2>2. PICK m \in Nat : Len(v) = m /\ m >= 1 /\ m <= 3 /\ v # <<>>
    <3>1. CASE n = 3
      BY <2>1, <3>1
    <3>2. CASE n # 3
      BY <2>0, <2>1, <3>2
    <3>. QED
      BY <3>1, <3>2
  <2>3. ExtAccess(v) \in SUBSET Address
    <3>1. CASE Len(v) >= 2
      <4>1. v[m - 1] \in OpRec
        <5>1. m - 1 \in 1 .. m
          BY <2>2, <3>1
        <5>. QED
          BY <2>1, <2>2, <5>1
      <4>2. v[Len(v) - 1].to \in Address
        BY <2>2, <4>1 DEF OpRec
      <4>. QED
        BY <4>2 DEF ExtAccess
    <3>2. CASE ~(Len(v) >= 2)
      BY <3>2 DEF ExtAccess
    <3>. QED
      BY <3>1, <3>2
  <2>4. s # <<>> => n > 0
    BY <2>0
  <2>5. Len(v) = IF Len(s) = 3 THEN 3 ELSE Len(s) + 1
    BY <2>0, <2>1
  <2>6. v # <<>> /\ Last(v) = x /\ (s # <<>> => v[Len(v) - 1] = Last(s)) /\ Len(v) <= 3
    BY <2>0, <2>1, <2>2, <2>4 DEF Last
  <2>. QED
    BY <1>5, <2>1, <2>3, <2>5, <2>6 DEF v, x
<1>. QED
  BY <1>4, <1>5

LEMMA Collected ==
  ASSUME TypeInv, NEW i \in Ran, NEW oog \in BOOLEAN, Runs(i, oog), Here \in Address
  PROVE  /\ DOMAIN level' = DOMAIN level /\ role' = role /\ role \in DOMAIN level
         /\ \A r \in DOMAIN level : r # role => level'[r] = level[r]
         /\ level' \in [DOMAIN level -> LevelRec]
         /\ level'[role].oog = (level[role].oog \/ oog)
         /\ level'[role].ext = level[role].ext \cup ExtAccess(lastThree')
         /\ level'[role].seen = level[role].seen \cup FirstMet(level[role], i)
         /\ level'[role].empty = level[role].empty \cup (FirstMet(level[role], i) \ code)
         /\ level'[role].opcodes = Counted(level[role].opcodes, i)
         /\ level'[role].reads = level[role].reads \cup
              (IF i.op = "SLOAD" THEN {<<Here, i.slot>>} \ level[role].writes ELSE {})
         /\ level'[role].writes = level[role].writes \cup
              (IF i.op = "SSTORE" THEN {<<Here, i.slot>>} ELSE {})
         /\ lastThree' = Window(lastThree, i) /\ lastOp' = i.op
<1>. DEFINE l == level[role]
            w == Window(lastThree, i)
            l1 == [l EXCEPT !.oog = @ \/ oog,
                            !.ext = @ \cup ExtAccess(w),
                            !.seen = @ \cup FirstMet(l, i),
                            !.empty = @ \cup (FirstMet(l, i) \ code),
                            !.opcodes = Counted(@, i)]
            n == Accessed(l1, i, Here)
<1>1. /\ role \in DOMAIN level /\ role' = role /\ level' = [level EXCEPT ![role] = n]
      /\ lastThree' = w /\ lastOp' = i.op
  BY DEF Runs, Collect, TypeInv
<1>2. l \in LevelRec /\ level \in [DOMAIN level -> LevelRec]
  BY <1>1 DEF TypeInv
<1>3. level' \in [DOMAIN level -> {n} \cup LevelRec] /\ level'[role] = n
      /\ \A r \in DOMAIN level : r # role => level'[r] = level[r]
  <2>. HIDE DEF n
  <2>. QED
    BY <1>1, <1>2
<1>4. /\ i.op \in Ops /\ i.to \in Address /\ ExtAccess(w) \in SUBSET Address
      /\ Counted(l.opcodes, i) \in Counts
  BY <1>2, InstrTypes, WindowTypes, CountedTypes DEF TypeInv, TracerTypeOK, LevelRec
<1>5. FirstMet(l, i) \in SUBSET Address
  BY <1>4 DEF FirstMet
<1>6. i.op \in {"SLOAD", "SSTORE"} => <<Here, i.slot>> \in Access
  <2>1. i.op \in {"SLOAD", "SSTORE"} => i \in Instr
    BY InstrTypes DEF Exits, Flushes
  <2>. QED
    BY <2>1 DEF Access
<1>7. /\ l1 = [reads |-> l.reads, writes |-> l.writes, opcodes |-> Counted(l.opcodes, i),
               seen |-> l.seen \cup FirstMet(l, i), empty |-> l.empty \cup (FirstMet(l, i) \ code),
               ext |-> l.ext \cup ExtAccess(w), oog |-> l.oog \/ oog]
      /\ l1 \in LevelRec
  <2>1. /\ l = [reads |-> l.reads, writes |-> l.writes, opcodes |-> l.opcodes, seen |-> l.seen,
               empty |-> l.empty, ext |-> l.ext, oog |-> l.oog]
        /\ l.reads \in SUBSET Access /\ l.writes \in SUBSET Access /\ l.opcodes \in Counts
        /\ l.seen \in SUBSET Address /\ l.empty \in SUBSET Address /\ l.ext \in SUBSET Address /\ l.oog \in BOOLEAN
    BY <1>2 DEF LevelRec
  <2>2. l1 = [reads |-> l.reads, writes |-> l.writes, opcodes |-> Counted(l.opcodes, i),
               seen |-> l.seen \cup FirstMet(l, i), empty |-> l.empty \cup (FirstMet(l, i) \ code),
               ext |-> l.ext \cup ExtAccess(w), oog |-> l.oog \/ oog]
    <3>. DEFINE o == l.oog \/ oog
                e == l.ext \cup ExtAccess(w)
                f == l.seen \cup FirstMet(l, i)
                g == l.empty \cup (FirstMet(l, i) \ code)
                c == Counted(l.opcodes, i)
                y == [l EXCEPT !.oog = o, !.ext = e, !.seen = f]
    <3>1. l1 = [y EXCEPT !.empty = g, !.opcodes = c]
      OBVIOUS
    <3>. HIDE DEF l, w, o, e, f, g, c
    <3>. DEFINE z == [l EXCEPT !.oog = o]
    <3>4. z = [reads |-> l.reads, writes |-> l.writes, opcodes |-> l.opcodes, seen |-> l.seen,
               empty |-> l.empty, ext |-> l.ext, oog |-> o]
      <4>1. l = [reads |-> l.reads, writes |-> l.writes, opcodes |-> l.opcodes, seen |-> l.seen,
                 empty |-> l.empty, ext |-> l.ext, oog |-> l.oog]
        BY <2>1
      <4>. QED
        BY <4>1
    <3>5. y = [z EXCEPT !.ext = e, !.seen = f]
      OBVIOUS
    <3>. HIDE DEF y, z
    <3>2. y = [reads |-> l.reads, writes |-> l.writes, opcodes |-> l.opcodes, seen |-> f,
               empty |-> l.empty, ext |-> e, oog |-> o]
      BY <3>4, <3>5
    <3>. HIDE DEF l1
    <3>3. l1 = [reads |-> l.reads, writes |-> l.writes, opcodes |-> c, seen |-> f,
                empty |-> g, ext |-> e, oog |-> o]
      BY <3>1, <3>2
    <3>. QED
      BY <3>3 DEF o, e, f, g, c
  <2>3. /\ l.seen \cup FirstMet(l, i) \in SUBSET Address
        /\ l.empty \cup (FirstMet(l, i) \ code) \in SUBSET Address
        /\ l.ext \cup ExtAccess(w) \in SUBSET Address /\ (l.oog \/ oog) \in BOOLEAN
    <3>. HIDE DEF l, w
    <3>. QED
      BY <1>4, <1>5, <2>1
  <2>. HIDE DEF l, w, l1
  <2>. QED
    BY <1>4, <2>1, <2>2, <2>3 DEF LevelRec
<1>. HIDE DEF l1
<1>. DEFINE rd == l.reads \cup (IF i.op = "SLOAD" THEN {<<Here, i.slot>>} \ l.writes ELSE {})
            wr == l.writes \cup (IF i.op = "SSTORE" THEN {<<Here, i.slot>>} ELSE {})
<1>8. /\ n = [reads |-> rd, writes |-> wr, opcodes |-> l1.opcodes, seen |-> l1.seen,
              empty |-> l1.empty, ext |-> l1.ext, oog |-> l1.oog]
  <2>1. /\ l1 = [reads |-> l1.reads, writes |-> l1.writes, opcodes |-> l1.opcodes, seen |-> l1.seen,
                empty |-> l1.empty, ext |-> l1.ext, oog |-> l1.oog]
        /\ l1.reads = l.reads /\ l1.writes = l.writes
    <3>. HIDE DEF l, w
    <3>. QED
      BY <1>7
  <2>. HIDE DEF l, w
  <2>2. CASE i.op = "SLOAD"
    BY <2>1, <2>2 DEF Accessed
  <2>3. CASE i.op = "SSTORE"
    BY <2>1, <2>3 DEF Accessed
  <2>4. CASE i.op \notin {"SLOAD", "SSTORE"}
    BY <2>1, <2>4 DEF Accessed
  <2>. QED
    BY <2>2, <2>3, <2>4
<1>9. n \in LevelRec
  <2>1. rd \in SUBSET Access /\ wr \in SUBSET Access
    <3>1. l.reads \in SUBSET Access /\ l.writes \in SUBSET Access
      BY <1>2 DEF LevelRec
    <3>. HIDE DEF l
    <3>. QED
      BY <1>6, <3>1
  <2>2. /\ l1.opcodes \in Counts /\ l1.seen \in SUBSET Address /\ l1.empty \in SUBSET Address
        /\ l1.ext \in SUBSET Address /\ l1.oog \in BOOLEAN
    BY <1>7 DEF LevelRec
  <2>. HIDE DEF l, w, n, rd, wr
  <2>. QED
    BY <1>8, <2>1, <2>2 DEF LevelRec
<1>10. /\ n.reads = l.reads \cup (IF i.op = "SLOAD" THEN {<<Here, i.slot>>} \ l.writes ELSE {})
       /\ n.writes = l.writes \cup (IF i.op = "SSTORE" THEN {<<Here, i.slot>>} ELSE {})
       /\ n.opcodes = Counted(l.opcodes, i) /\ n.seen = l.seen \cup FirstMet(l, i)
       /\ n.empty = l.empty \cup (FirstMet(l, i) \ code) /\ n.ext = l.ext \cup ExtAccess(w)
       /\ n.oog = (l.oog \/ oog)
  <2>. HIDE DEF l, w, n
  <2>. QED
    BY <1>7, <1>8
<1>. HIDE DEF n
<1>. QED
  BY <1>1, <1>3, <1>9, <1>10

-----------------------------------------------------------------------------
(* The types are kept                                                      *)

LEMMA CallTypes ==
  /\ \A failed \in BOOLEAN, context \in Contexts : Leave(failed, context) \in CallRec
  /\ \A i \in Instr, at \in Address : i.op \in CallOps \cup {"CREATE2"} =>
       Enter(i.op, at, i.to, i.method, i.value) \in CallRec
  /\ \A r \in Role : Enter("CALL", EntryPoint, Target[r], Method[r], FALSE) \in CallRec
  /\ Enter("CALL", SenderCreator, Factory, "create", FALSE) \in CallRec
  /\ 0 \in Contexts
<1>0. /\ \A i \in Instr : i.to \in Address
      /\ {Sender, Factory, Paymaster, EntryPoint, SenderCreator} \subseteq Address
      /\ 0 \in Contexts
  BY InstrAssumption DEF Address
<1>1. ASSUME NEW failed \in BOOLEAN, NEW context \in Contexts PROVE Leave(failed, context) \in CallRec
  <2>. DEFINE t == IF failed THEN "REVERT" ELSE "RETURN"
              m == {i.method : i \in Instr} \cup {"", "create"} \cup {Method[r] : r \in Role}
  <2>1. t \in {"CALL", "DELEGATECALL", "CREATE2", "REVERT", "RETURN"} /\ "" \in m /\ EntryPoint \in Address
    BY <1>0
  <2>2. Leave(failed, context) = [[type |-> t, from |-> EntryPoint, to |-> EntryPoint, method |-> "",
          value |-> FALSE, context |-> 0] EXCEPT !.context = context]
    BY DEF Leave, Enter
  <2>3. CallRec = [type : {"CALL", "DELEGATECALL", "CREATE2", "REVERT", "RETURN"}, from : Address, to : Address,
                   method : m, value : BOOLEAN, context : Contexts]
    BY DEF CallRec
  <2>. HIDE DEF t, m
  <2>. QED
    BY <2>1, <2>2, <2>3
<1>2. ASSUME NEW i \in Instr, NEW at \in Address, i.op \in CallOps \cup {"CREATE2"}
      PROVE  Enter(i.op, at, i.to, i.method, i.value) \in CallRec
  <2>1. i.value \in BOOLEAN /\ i.method \in {j.method : j \in Instr}
    BY InstrAssumption
  <2>. QED
    BY <1>0, <1>2, <2>1 DEF CallRec, Enter, CallOps
<1>3. ASSUME NEW r \in Role PROVE Enter("CALL", EntryPoint, Target[r], Method[r], FALSE) \in CallRec
  <2>1. Target[r] \in Address
    BY <1>0 DEF Target, Role
  <2>. QED
    BY <1>0, <2>1 DEF CallRec, Enter
<1>4. Enter("CALL", SenderCreator, Factory, "create", FALSE) \in CallRec
  BY <1>0 DEF CallRec, Enter
<1>. QED
  BY <1>0, <1>1, <1>2, <1>3, <1>4

LEMMA TypeInit ==
  ASSUME Init
  PROVE  TypeInv
<1>1. /\ "account" \in entities /\ entities \subseteq Role
  BY InstrAssumption DEF Init
<1>2. DOMAIN level = {} /\ level \in [DOMAIN level -> LevelRec]
  BY DEF Init
<1>0. /\ frames = <<>> /\ calls = <<>> /\ steps = <<>> /\ left = <<>> /\ lastThree = <<>>
      /\ role = "none" /\ ended = FALSE
  BY DEF Init
<1>3. TracerTypeOK
  <2>1. Len(lastThree) <= 3
    <3>1. Len(lastThree) = 0
      BY <1>0
    <3>. QED
      BY <3>1
  <2>. QED
    BY <1>0, <1>1, <1>2, <2>1, ZenonT(30) DEF TracerTypeOK
<1>4. code \in SUBSET (Address \cup Deployed) /\ HaveCode \subseteq code
  <2>1. HaveCode \cup {Sender} \subseteq Address
    BY DEF Address, HaveCode
  <2>2. code = Deployed \cup HaveCode \/ code = Deployed \cup HaveCode \cup {Sender}
    BY DEF Init, HaveCode
  <2>. QED
    BY <2>1, <2>2
<1>5. DOMAIN frames = {}
  BY <1>0
<1>6. /\ frames \in Seq(FrameRec) /\ calls \in Seq(CallRec) /\ steps \in Seq(StepRec)
      /\ left \in Seq(Address) /\ lastThree \in Seq(OpRec)
  BY <1>0
<1>. QED
  BY <1>0, <1>2, <1>3, <1>4, <1>5, <1>6 DEF TypeInv

LEMMA FrameTypes ==
  ASSUME TypeInv, frames # <<>>
  PROVE  /\ Last(frames) \in FrameRec /\ Last(frames) = frames[Len(frames)] /\ Here \in Address
         /\ Last(frames).callee \in Address /\ HaveCode \subseteq Last(frames).code
         /\ Last(frames).code \in SUBSET (Address \cup Deployed)
<1>1. frames \in Seq(FrameRec) /\ \A k \in DOMAIN frames : HaveCode \subseteq frames[k].code
  BY DEF TypeInv
<1>2. Last(frames) \in FrameRec /\ Last(frames) = frames[Len(frames)] /\ Len(frames) \in DOMAIN frames
  <2>1. Last(frames) \in FrameRec /\ Last(frames) = frames[Len(frames)] /\ Len(frames) \in Nat \ {0}
    BY <1>1, LastOf
  <2>. QED
    BY <1>1, <2>1
<1>. QED
  BY <1>1, <1>2 DEF FrameRec, Here

\* what TypeInv says of frames
FramesOK(f) == f \in Seq(FrameRec) /\ \A k \in DOMAIN f : HaveCode \subseteq f[k].code

LEMMA FramesKept ==
  ASSUME NEW f, FramesOK(f)
  PROVE  /\ \A x \in FrameRec : HaveCode \subseteq x.code => FramesOK(Append(f, x))
         /\ f # <<>> => FramesOK(Front(f))
<1>. f \in Seq(FrameRec) /\ \A k \in DOMAIN f : HaveCode \subseteq f[k].code
  BY DEF FramesOK
<1>1. ASSUME NEW x \in FrameRec, HaveCode \subseteq x.code PROVE FramesOK(Append(f, x))
  <2>. DEFINE g == Append(f, x)
  <2>1. /\ g \in Seq(FrameRec) /\ Len(f) \in Nat /\ DOMAIN f = 1 .. Len(f) /\ DOMAIN g = 1 .. Len(f) + 1
        /\ g[Len(f) + 1] = x /\ \A k \in 1 .. Len(f) : g[k] = f[k]
    BY Appended
  <2>. HIDE DEF g
  <2>2. ASSUME NEW k \in DOMAIN g PROVE HaveCode \subseteq g[k].code
    BY <1>1, <2>1
  <2>3. FramesOK(g)
    BY <2>1, <2>2 DEF FramesOK
  <2>. QED
    BY <2>3 DEF g
<1>2. ASSUME f # <<>> PROVE FramesOK(Front(f))
  <2>. DEFINE g == Front(f)
  <2>1. g \in Seq(FrameRec) /\ Len(g) = Len(f) - 1 /\ Len(f) \in Nat /\ \A k \in 1 .. Len(f) - 1 : g[k] = f[k]
    BY <1>2, LastOf
  <2>. HIDE DEF g
  <2>2. DOMAIN g = 1 .. Len(f) - 1 /\ DOMAIN f = 1 .. Len(f)
    BY <2>1
  <2>3. FramesOK(g)
    BY <2>1, <2>2 DEF FramesOK
  <2>. QED
    BY <2>3 DEF g
<1>. QED
  BY <1>1, <1>2

LEMMA TypeStep ==
  ASSUME TypeInv, NEW i \in Ran, NEW oog \in BOOLEAN, Step(i, oog)
  PROVE  TypeInv'
<1>0. Runs(i, oog) /\ Frames(i, oog) /\ frames # <<>>
  BY DEF Step, Runs
<1>1. /\ Last(frames) \in FrameRec /\ Here \in Address /\ Last(frames).callee \in Address
      /\ HaveCode \subseteq Last(frames).code /\ Last(frames).code \in SUBSET (Address \cup Deployed)
  BY <1>0, FrameTypes
<1>2. i.op \in Ops /\ i.to \in Address /\ (i.op \notin Exits => i \in Instr)
  BY InstrTypes
<1>3. /\ role \in DOMAIN level /\ role' = role /\ entities' = entities /\ ended' = ended /\ ended = FALSE
      /\ role \in Role /\ DOMAIN level \subseteq entities /\ "account" \in entities /\ entities \subseteq Role
  BY <1>0 DEF TypeInv, TracerTypeOK, Runs, Collect
<1>4. steps' \in Seq(StepRec)
  <2>. DEFINE x == [role |-> role, at |-> Here, callee |-> Last(frames).callee,
                    i |-> i, oog |-> oog, hasCode |-> i.to \in code]
  <2>1. x \in StepRec
    BY <1>1, <1>3 DEF StepRec
  <2>2. steps' = Append(steps, x) /\ steps \in Seq(StepRec)
    BY <1>0 DEF Runs, Record, TypeInv
  <2>. HIDE DEF x
  <2>. QED
    BY <2>1, <2>2
<1>5. /\ DOMAIN level' = DOMAIN level /\ level' \in [DOMAIN level -> LevelRec]
      /\ \A r \in DOMAIN level : r # role => level'[r] = level[r]
      /\ level'[role].seen = level[role].seen \cup FirstMet(level[role], i)
      /\ level'[role].empty = level[role].empty \cup (FirstMet(level[role], i) \ code)
      /\ lastThree' = Window(lastThree, i)
  BY <1>0, <1>1, Collected
<1>6. lastThree' \in Seq(OpRec) /\ Len(lastThree') <= 3
  <2>1. lastThree \in Seq(OpRec) /\ Len(lastThree) <= 3
    BY DEF TypeInv, TracerTypeOK
  <2>. QED
    BY <1>5, <2>1, WindowTypes
<1>7. TracerTypeOK'
  <2>1. ASSUME NEW r \in DOMAIN level
        PROVE  /\ level'[r].empty \subseteq level'[r].seen
               /\ level'[r].oog \in BOOLEAN
               /\ \A op \in DOMAIN level'[r].opcodes : level'[r].opcodes[op] \in Nat \ {0}
    <3>1. level[r].empty \subseteq level[r].seen
      BY DEF TypeInv, TracerTypeOK
    <3>2. level'[r].empty \subseteq level'[r].seen
      BY <1>3, <1>5, <3>1
    <3>3. level'[r] \in LevelRec
      BY <1>5
    <3>4. level'[r].oog \in BOOLEAN /\ level'[r].opcodes \in Counts
      BY <3>3 DEF LevelRec
    <3>. QED
      BY <3>2, <3>4 DEF Counts
  <2>. QED
    BY <1>3, <1>5, <1>6, <2>1 DEF TracerTypeOK
<1>8. /\ code' \in SUBSET (Address \cup Deployed) /\ HaveCode \subseteq code'
      /\ FramesOK(frames') /\ calls' \in Seq(CallRec) /\ left' \in Seq(Address)
  <2>0. /\ code \in SUBSET (Address \cup Deployed) /\ HaveCode \subseteq code
        /\ FramesOK(frames) /\ calls \in Seq(CallRec) /\ left \in Seq(Address)
    BY DEF TypeInv, FramesOK
  <2>1. CASE NoFrame(i)
    BY <2>0, <2>1 DEF NoFrame
  <2>2. CASE NewFrame(i)
    <3>. DEFINE c == Enter(i.op, Here, i.to, i.method, i.value)
                f == Frame(i.op, IF i.op = "DELEGATECALL" THEN Here ELSE i.to, i.to)
    <3>1. c \in CallRec
      BY <1>1, <2>2, CallTypes DEF NewFrame
    <3>2. f \in FrameRec /\ f.code = code
      BY <1>1, <1>2, <2>0, <2>2 DEF NewFrame, Frame, FrameRec, CallOps
    <3>3. calls' = Append(calls, c) /\ frames' = Append(frames, f) /\ UNCHANGED <<code, left>>
      BY <2>2 DEF NewFrame
    <3>. HIDE DEF c, f
    <3>. QED
      BY <2>0, <3>1, <3>2, <3>3, FramesKept
  <2>3. CASE EmptyFrame(i)
    <3>. DEFINE c == Enter(i.op, Here, i.to, i.method, i.value)
                d == Leave(FALSE, 0)
    <3>1. c \in CallRec /\ d \in CallRec
      BY <1>1, <2>3, CallTypes DEF EmptyFrame
    <3>2. calls' = calls \o <<c, d>> /\ left' = Append(left, i.to) /\ UNCHANGED <<code, frames>>
      BY <2>3 DEF EmptyFrame
    <3>. HIDE DEF c, d
    <3>3. <<c, d>> \in Seq(CallRec)
      BY <3>1
    <3>4. calls' \in Seq(CallRec)
      BY <2>0, <3>2, <3>3
    <3>. QED
      BY <1>2, <2>0, <3>2, <3>4
  <2>4. ASSUME NEW failed \in BOOLEAN, NEW context \in Contexts, Over(i, oog, failed, context)
        PROVE  <1>8!:
    <3>1. Pop(failed, context)
      BY <2>4 DEF Over
    <3>2. Leave(failed, context) \in CallRec
      BY CallTypes
    <3>3. calls' \in Seq(CallRec) /\ left' \in Seq(Address)
      <4>. HIDE DEF Leave
      <4>. QED
        BY <1>1, <2>0, <3>1, <3>2 DEF Pop
    <3>4. FramesOK(frames')
      BY <1>0, <2>0, <3>1, FramesKept DEF Pop
    <3>5. code' \in {Last(frames).code, code \cup {Last(frames).callee}, code}
      BY <3>1 DEF Pop
    <3>6. code' \in SUBSET (Address \cup Deployed) /\ HaveCode \subseteq code'
      BY <1>1, <2>0, <3>5
    <3>. QED
      BY <3>3, <3>4, <3>6
  <2>. QED
    BY <1>0, <2>1, <2>2, <2>3, <2>4 DEF Frames
<1>. QED
  BY <1>3, <1>4, <1>5, <1>6, <1>7, <1>8 DEF TypeInv, FramesOK

\* A level that opens
LEMMA Opened ==
  ASSUME TypeInv, NEW r \in Role, CallEntity(r)
  PROVE  /\ DOMAIN level' = DOMAIN level \cup {r} /\ r \notin DOMAIN level /\ r \in entities
         /\ \A x \in DOMAIN level : level'[x] = level[x]
         /\ level' \in [DOMAIN level' -> LevelRec]
         /\ level'[r].reads = {} /\ level'[r].writes = {} /\ level'[r].empty = {} /\ level'[r].ext = {}
         /\ level'[r].oog = FALSE /\ level'[r].seen \subseteq {Factory}
         /\ r # "factory" => level'[r].opcodes = [op \in {} |-> 0] /\ level'[r].seen = {}
         /\ r = "factory" => level'[r].opcodes = CountSlot([op \in {} |-> 0], "CALL") /\ level'[r].seen = {Factory}
<1>. DEFINE none == [op \in {} |-> 0]
            one == CountSlot(none, "CALL")
            l == IF r = "factory" THEN [NewLevel EXCEPT !.seen = {Factory}, !.opcodes = CountSlot(@, "CALL")]
                 ELSE NewLevel
            seen == IF r = "factory" THEN {Factory} ELSE {}
            count == IF r = "factory" THEN one ELSE none
<1>1. level' = [x \in DOMAIN level \cup {r} |-> IF x = r THEN l ELSE level[x]]
      /\ r \notin DOMAIN level /\ r \in entities
  <2>1. CASE r = "factory"
    BY <2>1 DEF CallEntity
  <2>2. CASE r # "factory"
    BY <2>2 DEF CallEntity
  <2>. QED
    BY <2>1, <2>2
<1>2. none \in Counts /\ one \in Counts
  <2>1. "CALL" \in Ops
    BY DEF Ops
  <2>2. none \in Counts
    <3>1. none \in [{} -> Nat \ {0}]
      OBVIOUS
    <3>. QED
      BY <3>1 DEF Counts
  <2>. HIDE DEF none
  <2>. QED
    BY <2>1, <2>2, CountSlotTypes
<1>3. l = [reads |-> {}, writes |-> {}, opcodes |-> count, seen |-> seen, empty |-> {}, ext |-> {}, oog |-> FALSE]
  <2>1. NewLevel = [reads |-> {}, writes |-> {}, opcodes |-> none, seen |-> {}, empty |-> {}, ext |-> {}, oog |-> FALSE]
    BY DEF NewLevel
  <2>2. CASE r = "factory"
    <3>1. l = [NewLevel EXCEPT !.seen = {Factory}, !.opcodes = CountSlot(NewLevel.opcodes, "CALL")]
      BY <2>2
    <3>2. CountSlot(NewLevel.opcodes, "CALL") = one
      BY <2>1
    <3>. HIDE DEF none, one, l
    <3>. QED
      BY <2>1, <2>2, <3>1, <3>2
  <2>3. CASE r # "factory"
    BY <2>1, <2>3
  <2>. QED
    BY <2>2, <2>3
<1>4. l \in LevelRec
  <2>1. Factory \in Address
    BY DEF Address
  <2>2. seen \in SUBSET Address /\ count \in Counts
    BY <1>2, <2>1
  <2>. HIDE DEF l, seen, count
  <2>. QED
    BY <1>3, <2>2 DEF LevelRec
<1>5. l = level'[r]
  <2>. HIDE DEF l
  <2>. QED
    BY <1>1
<1>6. level \in [DOMAIN level -> LevelRec]
  BY DEF TypeInv
<1>. HIDE DEF l, one, none
<1>7. level' \in [DOMAIN level' -> LevelRec]
  BY <1>1, <1>4, <1>6
<1>8. /\ l.reads = {} /\ l.writes = {} /\ l.empty = {} /\ l.ext = {} /\ l.oog = FALSE
      /\ l.seen = seen /\ l.opcodes = count
  BY <1>3
<1>9. /\ DOMAIN level' = DOMAIN level \cup {r}
      /\ \A x \in DOMAIN level : level'[x] = level[x]
  BY <1>1
<1>. QED
  BY <1>1, <1>5, <1>7, <1>8, <1>9 DEF one, none

LEMMA TypeEntity ==
  ASSUME TypeInv, NEW r \in Role, CallEntity(r)
  PROVE  TypeInv'
<1>0. /\ {Sender, Factory, Paymaster, EntryPoint, SenderCreator} \subseteq Address
      /\ Target[r] \in Address
  BY DEF Address, Target, Role
<1>1. /\ frames = <<>> /\ ~ended /\ role' = r /\ r \in entities
      /\ UNCHANGED <<keccak, entities, code, steps, left, ended>>
  BY DEF CallEntity
<1>2. /\ code \in SUBSET (Address \cup Deployed) /\ HaveCode \subseteq code
      /\ calls \in Seq(CallRec) /\ steps \in Seq(StepRec) /\ left \in Seq(Address)
      /\ "account" \in entities /\ entities \subseteq Role /\ DOMAIN level \subseteq entities
  BY DEF TypeInv, TracerTypeOK
<1>3. /\ DOMAIN level' = DOMAIN level \cup {r} /\ level' \in [DOMAIN level' -> LevelRec]
      /\ \A x \in DOMAIN level : level'[x] = level[x]
      /\ level'[r].empty = {}
  BY Opened
<1>4. FramesOK(frames')
  <2>. DEFINE f == Frame("CALL", Target[r], Target[r])
              g == Frame("CALL", Factory, Factory)
  <2>1. f \in FrameRec /\ g \in FrameRec /\ f.code = code /\ g.code = code
    BY <1>0, <1>2 DEF Frame, FrameRec
  <2>2. frames' = <<f>> \/ frames' = <<f, g>>
    BY DEF CallEntity
  <2>. HIDE DEF f, g
  <2>3. CASE frames' = <<f>>
    BY <1>2, <2>1, <2>3 DEF FramesOK
  <2>4. CASE frames' = <<f, g>>
    BY <1>2, <2>1, <2>4 DEF FramesOK
  <2>. QED
    BY <2>2, <2>3, <2>4
<1>5. calls' \in Seq(CallRec)
  <2>. DEFINE c == Enter("CALL", EntryPoint, Target[r], Method[r], FALSE)
              d == Enter("CALL", SenderCreator, Factory, "create", FALSE)
  <2>1. c \in CallRec /\ d \in CallRec
    BY CallTypes
  <2>2. calls' = Append(calls, c) \/ calls' = calls \o <<c, d>>
    BY DEF CallEntity
  <2>. HIDE DEF c, d
  <2>3. <<c, d>> \in Seq(CallRec)
    BY <2>1
  <2>4. Append(calls, c) \in Seq(CallRec) /\ calls \o <<c, d>> \in Seq(CallRec)
    BY <1>2, <2>1, <2>3
  <2>. QED
    BY <2>2, <2>4
<1>6. lastThree' \in Seq(OpRec) /\ Len(lastThree') <= 3
  <2>1. PICK x \in OpRec : lastThree' = <<x>>
    <3>1. "CALL" \in Ops
      BY DEF Ops
    <3>2. [op |-> "CALL", to |-> Factory] \in OpRec /\ [op |-> "CALL", to |-> Target[r]] \in OpRec
      BY <1>0, <3>1 DEF OpRec
    <3>3. lastThree' = <<[op |-> "CALL", to |-> Factory]>> \/ lastThree' = <<[op |-> "CALL", to |-> Target[r]]>>
      BY DEF CallEntity
    <3>. QED
      BY <3>2, <3>3
  <2>2. <<x>> \in Seq(OpRec) /\ Len(<<x>>) = 1
    OBVIOUS
  <2>. QED
    BY <2>1, <2>2
<1>7. TracerTypeOK'
  <2>1. ASSUME NEW x \in DOMAIN level'
        PROVE  /\ level'[x].empty \subseteq level'[x].seen
               /\ level'[x].oog \in BOOLEAN
               /\ \A op \in DOMAIN level'[x].opcodes : level'[x].opcodes[op] \in Nat \ {0}
    <3>1. x \in DOMAIN level => level[x].empty \subseteq level[x].seen
      BY DEF TypeInv, TracerTypeOK
    <3>2. level'[x].empty \subseteq level'[x].seen
      BY <1>3, <3>1
    <3>3. level'[x] \in LevelRec
      BY <1>3
    <3>4. level'[x].oog \in BOOLEAN /\ level'[x].opcodes \in Counts
      BY <3>3 DEF LevelRec
    <3>. QED
      BY <3>2, <3>4 DEF Counts
  <2>2. ended' \in BOOLEAN
    BY <1>1 DEF TypeInv, TracerTypeOK
  <2>. QED
    BY <1>1, <1>2, <1>3, <1>6, <2>1, <2>2 DEF TracerTypeOK
<1>. QED
  BY <1>1, <1>2, <1>3, <1>4, <1>5, <1>6, <1>7 DEF TypeInv, FramesOK

LEMMA TypeEnd ==
  ASSUME TypeInv, EndTrace
  PROVE  TypeInv'
<1>1. Leave(TRUE, 0) \in CallRec
  BY CallTypes
<1>2. /\ frames = <<>> /\ ended' = TRUE /\ calls' = Append(calls, Leave(TRUE, 0)) /\ lastThree' = <<>>
      /\ UNCHANGED <<role, level, keccak, entities, code, frames, steps, left>>
  BY DEF EndTrace
<1>3. calls' \in Seq(CallRec)
  <2>. DEFINE c == Leave(TRUE, 0)
  <2>1. c \in CallRec /\ calls \in Seq(CallRec) /\ calls' = Append(calls, c)
    BY <1>1, <1>2 DEF TypeInv
  <2>. HIDE DEF c
  <2>. QED
    BY <2>1
<1>4. Len(lastThree') = 0 /\ lastThree' \in Seq(OpRec)
  BY <1>2
<1>5. TracerTypeOK'
  BY <1>2, <1>4 DEF TypeInv, TracerTypeOK
<1>. QED
  BY <1>2, <1>3, <1>4, <1>5 DEF TypeInv

\* What the tracer keeps, and the history beside it, is typed in every reachable
\* state (BundlerCollectorTracer.ts:80-325).
THEOREM TracesTyped == Spec => []TypeInv
<1>1. Init => TypeInv
  BY TypeInit
<1>2. TypeInv /\ [Next]_vars => TypeInv'
  <2>. SUFFICES ASSUME TypeInv, [Next]_vars PROVE TypeInv'
    OBVIOUS
  <2>1. CASE UNCHANGED vars
    BY <2>1 DEF vars, evmVars, tracerVars, TypeInv, TracerTypeOK
  <2>. QED
    BY <2>1, NextCases, TypeEntity, TypeStep, TypeEnd
<1>. QED
  BY <1>1, <1>2, PTL DEF Spec

\* What the tracer keeps has its types, whatever instructions run: levels of the
\* operation's roles only, at most three opcodes of history, no address found
\* empty that was not met.
THEOREM TracerTypeCorrect == Spec => []TracerTypeOK
<1>1. TypeInv => TracerTypeOK
  BY DEF TypeInv
<1>. QED
  BY <1>1, TracesTyped, PTL

-----------------------------------------------------------------------------
(* The call stack: one step of the parser per frame that begins or ends    *)

P == ParseCallStack

LEMMA AppendTwo ==
  ASSUME NEW S, NEW s \in Seq(S), NEW c \in S, NEW d \in S
  PROVE  s \o <<c, d>> = Append(Append(s, c), d)
OBVIOUS

LEMMA ParsedEnter ==
  ASSUME NEW S, NEW p \in Parses(S), NEW c, c.type \notin Exits
  PROVE  Parsed(p, c).stack = Append(p.stack, c) /\ Parsed(p, c).out = p.out
BY DEF Parsed, Parses

LEMMA ParsedLeave ==
  ASSUME NEW S, NEW p \in Parses(S), NEW c, c.type \in Exits
  PROVE  /\ p.stack # <<>> => /\ Parsed(p, c).stack = Front(p.stack)
                              /\ Parsed(p, c).out = Append(p.out, CallEntry(Last(p.stack), c))
         /\ p.stack = <<>> => /\ Parsed(p, c).stack = <<>>
                              /\ Parsed(p, c).out = Append(p.out, CallEntry(Top, c))
BY DEF Parsed, Parses

LEMMA EnterLeave ==
  /\ \A type, from, to, method, value :
       LET e == Enter(type, from, to, method, value)
       IN  e.type = type /\ e.from = from /\ e.to = to /\ e.method = method /\ e.value = value /\ e.context = 0
  /\ \A failed \in BOOLEAN, context \in Contexts :
       LET e == Leave(failed, context)
       IN  e.type = (IF failed THEN "REVERT" ELSE "RETURN") /\ e.context = context /\ e.type \in Exits
<1>1. ASSUME NEW type, NEW from, NEW to, NEW method, NEW value
      PROVE  LET e == Enter(type, from, to, method, value)
             IN  e.type = type /\ e.from = from /\ e.to = to /\ e.method = method /\ e.value = value /\ e.context = 0
  BY DEF Enter
<1>2. ASSUME NEW failed \in BOOLEAN, NEW context \in Contexts
      PROVE  LET e == Leave(failed, context)
             IN  e.type = (IF failed THEN "REVERT" ELSE "RETURN") /\ e.context = context /\ e.type \in Exits
  BY DEF Leave, Enter, Exits, Flushes
<1>. QED
  BY <1>1, <1>2

LEMMA NotExits ==
  /\ \A i : i.op \in CallOps \cup {"CREATE2"} => i.op \notin Exits
  /\ "CALL" \notin Exits
BY DEF CallOps, Exits, Flushes

\* What a step makes of the stack and the entries
Entered(i) == Enter(i.op, Here, i.to, i.method, i.value)
EntityEntry(r) == Enter("CALL", EntryPoint, Target[r], Method[r], FALSE)
FactoryEntry == Enter("CALL", SenderCreator, Factory, "create", FALSE)

LEMMA ParseTypes ==
  ASSUME TypeInv
  PROVE  P \in Parses(CallRec) /\ P.stack \in Seq(CallRec) /\ P.out \in Seq(OutOf(CallRec))
<1>1. calls \in Seq(CallRec) /\ Leave(TRUE, 0) \in CallRec
  BY CallTypes DEF TypeInv
<1>2. Parse(calls) \in Parses(CallRec)
  BY <1>1, ParseAppend
<1>. QED
  BY <1>2 DEF P, ParseCallStack, Parses

LEMMA ParseMoves ==
  ASSUME TypeInv, Len(P.stack) = Len(frames), NEW i \in Ran, NEW oog \in BOOLEAN, Step(i, oog)
  PROVE  /\ NoFrame(i) => P' = P
         /\ NewFrame(i) => P'.stack = Append(P.stack, Entered(i)) /\ P'.out = P.out
         /\ EmptyFrame(i) => P'.stack = P.stack /\ P'.out = Append(P.out, CallEntry(Entered(i), Leave(FALSE, 0)))
         /\ P.stack # <<>> /\ frames # <<>>
         /\ \A failed \in BOOLEAN, context \in Contexts : Over(i, oog, failed, context) =>
              /\ P'.stack = Front(P.stack)
              /\ P'.out = Append(P.out, CallEntry(Last(P.stack), Leave(failed, context)))
<1>0. calls \in Seq(CallRec) /\ frames \in Seq(FrameRec) /\ frames # <<>> /\ Here \in Address
  BY FrameTypes DEF TypeInv, Step, Runs
<1>1. P = Parse(calls) /\ P' = Parse(calls')
  BY DEF P, ParseCallStack
<1>2. P \in Parses(CallRec) /\ P.stack \in Seq(CallRec)
  BY ParseTypes
<1>3. P.stack # <<>>
  BY <1>0, <1>2
<1>4. ASSUME NEW c \in CallRec PROVE Parse(Append(calls, c)) = Parsed(P, c) /\ Parsed(P, c) \in Parses(CallRec)
  BY <1>0, <1>1, <1>2, <1>4, ParseAppend, ParsedTypes
<1>5. ASSUME NoFrame(i) PROVE P' = P
  BY <1>1, <1>5 DEF NoFrame
<1>6. ASSUME NewFrame(i) PROVE P'.stack = Append(P.stack, Entered(i)) /\ P'.out = P.out
  <2>1. Entered(i) \in CallRec /\ Entered(i).type \notin Exits
    BY <1>0, <1>6, CallTypes, EnterLeave, NotExits DEF NewFrame, Entered
  <2>2. calls' = Append(calls, Entered(i))
    BY <1>6 DEF NewFrame, Entered
  <2>. QED
    BY <1>1, <1>2, <1>4, <2>1, <2>2, ParsedEnter
<1>7. ASSUME EmptyFrame(i)
      PROVE  P'.stack = P.stack /\ P'.out = Append(P.out, CallEntry(Entered(i), Leave(FALSE, 0)))
  <2>. DEFINE c == Entered(i)
              d == Leave(FALSE, 0)
              q == Parsed(P, c)
  <2>1. c \in CallRec /\ c.type \notin Exits
    BY <1>0, <1>7, CallTypes, EnterLeave, NotExits DEF EmptyFrame, Entered
  <2>2. d \in CallRec /\ d.type \in Exits
    BY CallTypes, EnterLeave
  <2>3. calls' = calls \o <<c, d>>
    BY <1>7 DEF EmptyFrame, Entered
  <2>. HIDE DEF c, d
  <2>4. calls' = Append(Append(calls, c), d)
    BY <1>0, <2>1, <2>2, <2>3, AppendTwo
  <2>5. q = Parse(Append(calls, c)) /\ q \in Parses(CallRec) /\ q.stack = Append(P.stack, c) /\ q.out = P.out
    BY <1>2, <1>4, <2>1, ParsedEnter
  <2>6. Append(calls, c) \in Seq(CallRec)
    BY <1>0, <2>1
  <2>. HIDE DEF q
  <2>7. P' = Parsed(q, d)
    BY <1>1, <2>2, <2>4, <2>5, <2>6, ParseAppend
  <2>8. q.stack # <<>> /\ Last(q.stack) = c /\ Front(q.stack) = P.stack
    BY <1>2, <2>1, <2>5, Appended
  <2>9. P'.stack = P.stack /\ P'.out = Append(P.out, CallEntry(c, d))
    BY <2>2, <2>5, <2>7, <2>8, ParsedLeave
  <2>. QED
    BY <2>9 DEF c, d
<1>8. ASSUME NEW failed \in BOOLEAN, NEW context \in Contexts, Over(i, oog, failed, context)
      PROVE  /\ P'.stack = Front(P.stack)
             /\ P'.out = Append(P.out, CallEntry(Last(P.stack), Leave(failed, context)))
  <2>. DEFINE d == Leave(failed, context)
  <2>1. d \in CallRec /\ d.type \in Exits
    BY CallTypes, EnterLeave
  <2>2. calls' = Append(calls, d)
    BY <1>8 DEF Over, Pop
  <2>. HIDE DEF d
  <2>3. P'.stack = Front(P.stack) /\ P'.out = Append(P.out, CallEntry(Last(P.stack), d))
    BY <1>1, <1>2, <1>3, <1>4, <2>1, <2>2, ParsedLeave
  <2>. QED
    BY <2>3 DEF d
<1>. QED
  BY <1>0, <1>3, <1>5, <1>6, <1>7, <1>8

LEMMA ParseOpens ==
  ASSUME TypeInv, NEW r \in Role, CallEntity(r)
  PROVE  /\ P'.out = P.out
         /\ r # "factory" => P'.stack = Append(P.stack, EntityEntry(r))
         /\ r = "factory" => P'.stack = Append(Append(P.stack, EntityEntry(r)), FactoryEntry)
<1>. DEFINE c == EntityEntry(r)
            d == FactoryEntry
            q == Parsed(P, c)
<1>0. calls \in Seq(CallRec) /\ P = Parse(calls) /\ P' = Parse(calls') /\ P \in Parses(CallRec)
  BY ParseTypes DEF TypeInv, P, ParseCallStack
<1>1. c \in CallRec /\ c.type \notin Exits /\ d \in CallRec /\ d.type \notin Exits
  <2>1. EntityEntry(r).type = "CALL" /\ FactoryEntry.type = "CALL"
    BY DEF EntityEntry, FactoryEntry, Enter
  <2>2. EntityEntry(r) \in CallRec /\ FactoryEntry \in CallRec
    BY CallTypes DEF EntityEntry, FactoryEntry
  <2>. QED
    BY <2>1, <2>2, NotExits
<1>2. r # "factory" => calls' = Append(calls, c)
  BY DEF CallEntity, EntityEntry
<1>3. r = "factory" => calls' = calls \o <<c, d>>
  BY DEF CallEntity, EntityEntry, FactoryEntry
<1>. HIDE DEF c, d
<1>4. q = Parse(Append(calls, c)) /\ q \in Parses(CallRec) /\ q.stack = Append(P.stack, c) /\ q.out = P.out
  BY <1>0, <1>1, ParseAppend, ParsedTypes, ParsedEnter
<1>. HIDE DEF q
<1>5. CASE r # "factory"
  BY <1>0, <1>2, <1>4, <1>5 DEF c
<1>6. CASE r = "factory"
  <2>1. calls' = Append(Append(calls, c), d) /\ Append(calls, c) \in Seq(CallRec)
    BY <1>0, <1>1, <1>3, <1>6, AppendTwo
  <2>2. P' = Parsed(q, d)
    BY <1>0, <1>1, <1>4, <2>1, ParseAppend
  <2>3. P'.stack = Append(q.stack, d) /\ P'.out = q.out
    BY <1>1, <1>4, <2>2, ParsedEnter
  <2>. QED
    BY <1>4, <1>6, <2>3 DEF c, d
<1>. QED
  BY <1>5, <1>6

LEMMA ParseEnds ==
  ASSUME TypeInv, EndTrace, P.stack = <<>>
  PROVE  P'.stack = <<>> /\ P'.out = Append(P.out, CallEntry(Top, Leave(TRUE, 0)))
<1>. DEFINE d == Leave(TRUE, 0)
<1>0. calls \in Seq(CallRec) /\ P = Parse(calls) /\ P' = Parse(calls') /\ P \in Parses(CallRec)
  BY ParseTypes DEF TypeInv, P, ParseCallStack
<1>1. d \in CallRec /\ d.type \in Exits
  BY CallTypes, EnterLeave
<1>2. calls' = Append(calls, d)
  BY DEF EndTrace
<1>. HIDE DEF d
<1>3. P' = Parsed(P, d)
  BY <1>0, <1>1, <1>2, ParseAppend
<1>4. P'.stack = <<>> /\ P'.out = Append(P.out, CallEntry(Top, d))
  BY <1>0, <1>1, <1>3, ParsedLeave
<1>. QED
  BY <1>4 DEF d

-----------------------------------------------------------------------------
(* The stack is the frames, the entries are the frames that were left      *)

StackInv ==
  /\ Len(P.stack) = Len(frames)
  /\ \A k \in 1 .. Len(frames) : P.stack[k].to = frames[k].callee
  /\ Len(P.out) = Len(left) + (IF ended THEN 1 ELSE 0)
  /\ \A k \in 1 .. Len(left) : P.out[k].to = left[k]
  /\ ended => frames = <<>> /\ P.out # <<>> /\ Last(P.out).type = "top"

LEMMA EntryOf ==
  \A c, e : CallEntry(c, e).to = c.to /\ CallEntry(c, e).type = c.type
BY DEF CallEntry

LEMMA EntryTypes ==
  ASSUME NEW c \in CallRec \cup {Top}, NEW e \in CallRec
  PROVE  CallEntry(c, e) \in OutOf(CallRec)
<1>1. <<c, e>> \in (CallRec \cup {Top}) \X CallRec
  OBVIOUS
<1>2. CallEntry(<<c, e>>[1], <<c, e>>[2]) \in OutOf(CallRec)
  BY <1>1 DEF OutOf
<1>. QED
  BY <1>2

LEMMA StackStep ==
  ASSUME TypeInv, StackInv, NEW i \in Ran, NEW oog \in BOOLEAN, Step(i, oog)
  PROVE  StackInv'
<1>. DEFINE n == Len(frames)
            m == Len(left)
<1>0. Len(P.stack) = n /\ ended = FALSE /\ ended' = FALSE /\ Runs(i, oog) /\ Frames(i, oog) /\ Here \in Address
  BY FrameTypes DEF StackInv, Step, Runs, TypeInv, TracerTypeOK
<1>1. /\ P.stack \in Seq(CallRec) /\ P.out \in Seq(OutOf(CallRec)) /\ frames \in Seq(FrameRec)
      /\ left \in Seq(Address) /\ n \in Nat /\ m \in Nat /\ n = Len(P.stack) /\ m = Len(P.out)
      /\ \A k \in 1 .. n : P.stack[k].to = frames[k].callee
      /\ \A k \in 1 .. m : P.out[k].to = left[k]
  <2>1. Len(P.out) = m + 0
    BY <1>0 DEF StackInv
  <2>2. m \in Nat /\ n \in Nat /\ left \in Seq(Address) /\ frames \in Seq(FrameRec)
    BY DEF TypeInv
  <2>. QED
    BY <1>0, <2>1, <2>2, ParseTypes DEF StackInv
<1>2. P.stack # <<>> /\ frames # <<>>
  BY <1>0, ParseMoves
<1>3. \A failed \in BOOLEAN, context \in Contexts : Leave(failed, context) \in CallRec
  BY CallTypes
\* an entry for a frame that was left
<1>4. ASSUME NEW c \in CallRec, NEW e \in CallRec,
             P'.out = Append(P.out, CallEntry(c, e)), left' = Append(left, c.to), c.to \in Address
      PROVE  Len(P'.out) = Len(left') /\ \A k \in 1 .. Len(left') : P'.out[k].to = left'[k]
  <2>. DEFINE o == P'.out
              x == CallEntry(c, e)
  <2>1. x.to = c.to /\ x \in OutOf(CallRec)
    BY EntryOf, EntryTypes
  <2>2. Len(o) = m + 1 /\ o[m + 1] = x /\ \A k \in 1 .. m : o[k] = P.out[k]
    <3>1. o = Append(P.out, x) /\ P.out \in Seq(OutOf(CallRec)) /\ Len(P.out) = m
      BY <1>1, <1>4
    <3>. HIDE DEF x, o, m
    <3>. QED
      BY <2>1, <3>1, Appended
  <2>3. Len(left') = m + 1 /\ left'[m + 1] = c.to /\ \A k \in 1 .. m : left'[k] = left[k]
    BY <1>1, <1>4, Appended
  <2>5. m \in Nat
    BY <1>1
  <2>. HIDE DEF o, x, m
  <2>4. ASSUME NEW k \in 1 .. m + 1 PROVE o[k].to = left'[k]
    <3>1. CASE k \in 1 .. m
      BY <1>1, <2>2, <2>3, <3>1
    <3>2. CASE k = m + 1
      BY <2>1, <2>2, <2>3, <3>2
    <3>. QED
      BY <2>5, <3>1, <3>2
  <2>. QED
    BY <2>2, <2>3, <2>4 DEF o
<1>5. CASE NoFrame(i)
  <2>1. P' = P /\ frames' = frames /\ left' = left
    BY <1>0, <1>5, ParseMoves DEF NoFrame
  <2>. QED
    BY <1>0, <2>1 DEF StackInv
<1>6. CASE NewFrame(i)
  <2>. DEFINE f == Frame(i.op, IF i.op = "DELEGATECALL" THEN Here ELSE i.to, i.to)
              c == Entered(i)
  <2>1. P'.stack = Append(P.stack, c) /\ P'.out = P.out /\ left' = left /\ frames' = Append(frames, f)
    BY <1>0, <1>6, ParseMoves DEF NewFrame
  <2>2. f.callee = i.to /\ c.to = i.to
    BY DEF Frame, Entered, Enter
  <2>3. c \in CallRec /\ f \in FrameRec
    <3>1. c \in CallRec
      BY <1>0, <1>6, CallTypes DEF NewFrame, Entered
    <3>2. i.to \in Address /\ code \in SUBSET (Address \cup Deployed)
      BY <1>0, InstrTypes DEF TypeInv
    <3>3. f \in FrameRec
      BY <1>0, <1>6, <3>2 DEF NewFrame, Frame, FrameRec, CallOps
    <3>. QED
      BY <3>1, <3>3
  <2>. DEFINE t == P'.stack
              g == frames'
  <2>. HIDE DEF c, f
  <2>4. Len(t) = n + 1 /\ t[n + 1] = c /\ \A k \in 1 .. n : t[k] = P.stack[k]
    BY <1>1, <2>1, <2>3, Appended
  <2>5. Len(g) = n + 1 /\ g[n + 1] = f /\ \A k \in 1 .. n : g[k] = frames[k]
    BY <1>1, <2>1, <2>3, Appended
  <2>8. n \in Nat
    BY <1>1
  <2>. HIDE DEF t, g, n
  <2>6. ASSUME NEW k \in 1 .. n + 1 PROVE t[k].to = g[k].callee
    <3>1. CASE k \in 1 .. n
      BY <1>1, <2>4, <2>5, <3>1
    <3>2. CASE k = n + 1
      BY <2>2, <2>4, <2>5, <3>2
    <3>. QED
      BY <2>8, <3>1, <3>2
  <2>7. Len(P'.stack) = Len(frames') /\ \A k \in 1 .. Len(frames') : P'.stack[k].to = frames'[k].callee
    BY <2>4, <2>5, <2>6 DEF t, g
  <2>. QED
    BY <1>0, <2>1, <2>7 DEF StackInv
<1>7. CASE EmptyFrame(i)
  <2>1. /\ P'.stack = P.stack /\ P'.out = Append(P.out, CallEntry(Entered(i), Leave(FALSE, 0)))
        /\ left' = Append(left, i.to) /\ frames' = frames
    BY <1>0, <1>7, ParseMoves DEF EmptyFrame
  <2>2. Entered(i) \in CallRec /\ Entered(i).to = i.to /\ i.to \in Address
    <3>1. Entered(i) \in CallRec
      BY <1>0, <1>7, CallTypes DEF EmptyFrame, Entered
    <3>. QED
      BY <3>1, InstrTypes DEF Entered, Enter
  <2>3. Len(P'.out) = Len(left') /\ \A k \in 1 .. Len(left') : P'.out[k].to = left'[k]
    <3>1. PICK d \in CallRec : d = Leave(FALSE, 0)
      BY CallTypes
    <3>. QED
      BY <1>4, <2>1, <2>2, <3>1
  <2>4. Len(left') \in Nat
    BY <1>1, <2>1, <2>2
  <2>5. Len(P'.stack) = Len(frames') /\ \A k \in 1 .. Len(frames') : P'.stack[k].to = frames'[k].callee
    BY <1>0, <1>1, <2>1
  <2>. QED
    BY <1>0, <2>3, <2>4, <2>5 DEF StackInv
<1>8. ASSUME NEW failed \in BOOLEAN, NEW context \in Contexts, Over(i, oog, failed, context)
      PROVE  StackInv'
  <2>1. /\ P'.stack = Front(P.stack) /\ P'.out = Append(P.out, CallEntry(Last(P.stack), Leave(failed, context)))
        /\ left' = Append(left, Last(frames).callee) /\ frames' = Front(frames)
    BY <1>0, <1>8, ParseMoves DEF Over, Pop
  <2>2. /\ Last(P.stack) = P.stack[n] /\ Last(frames) = frames[n] /\ n \in 1 .. n /\ Last(P.stack) \in CallRec
        /\ Len(Front(P.stack)) = n - 1 /\ \A k \in 1 .. n - 1 : Front(P.stack)[k] = P.stack[k]
        /\ Len(Front(frames)) = n - 1 /\ \A k \in 1 .. n - 1 : Front(frames)[k] = frames[k]
    <3>1. /\ Last(P.stack) = P.stack[n] /\ Last(P.stack) \in CallRec /\ n \in Nat \ {0}
          /\ Len(Front(P.stack)) = n - 1 /\ \A k \in 1 .. n - 1 : Front(P.stack)[k] = P.stack[k]
      BY <1>1, <1>2, LastOf
    <3>2. /\ Last(frames) = frames[n]
          /\ Len(Front(frames)) = n - 1 /\ \A k \in 1 .. n - 1 : Front(frames)[k] = frames[k]
      BY <1>1, <1>2, LastOf
    <3>. QED
      BY <3>1, <3>2
  <2>3. Last(P.stack).to = Last(frames).callee /\ Last(frames).callee \in Address
    BY <1>1, <1>2, <2>2, FrameTypes
  <2>4. Len(P'.out) = Len(left') /\ \A k \in 1 .. Len(left') : P'.out[k].to = left'[k]
    BY <1>3, <1>4, <2>1, <2>2, <2>3
  <2>5. Len(P'.stack) = Len(frames') /\ \A k \in 1 .. Len(frames') : P'.stack[k].to = frames'[k].callee
    <3>1. \A k \in 1 .. n - 1 : k \in 1 .. n
      BY <1>1
    <3>. QED
      BY <1>1, <2>1, <2>2, <3>1
  <2>6. Len(left') \in Nat
    BY <1>1, <2>1, <2>3
  <2>. QED
    BY <1>0, <2>4, <2>5, <2>6 DEF StackInv
<1>. QED
  BY <1>0, <1>5, <1>6, <1>7, <1>8 DEF Frames

LEMMA StackEntity ==
  ASSUME TypeInv, StackInv, NEW r \in Role, CallEntity(r)
  PROVE  StackInv'
<1>1. frames = <<>> /\ ~ended /\ ended' = ended /\ left' = left
  BY DEF CallEntity
<1>2. P.stack = <<>> /\ P.stack \in Seq(CallRec)
  <2>1. P.stack \in Seq(CallRec) /\ Len(P.stack) = 0
    BY <1>1, ParseTypes DEF StackInv
  <2>. QED
    BY <2>1
<1>3. P'.out = P.out
  BY ParseOpens
<1>4. Len(P'.stack) = Len(frames') /\ \A k \in 1 .. Len(frames') : P'.stack[k].to = frames'[k].callee
  <2>. DEFINE c == EntityEntry(r)
              d == FactoryEntry
              f == Frame("CALL", Target[r], Target[r])
              g == Frame("CALL", Factory, Factory)
  <2>1. c.to = f.callee /\ d.to = g.callee
    BY DEF EntityEntry, FactoryEntry, Enter, Frame
  <2>2. CASE r # "factory"
    <3>1. P'.stack = <<c>>
      <4>1. P'.stack = Append(P.stack, c)
        BY <2>2, ParseOpens
      <4>. HIDE DEF c
      <4>. QED
        BY <1>2, <4>1
    <3>2. frames' = <<f>>
      BY <2>2 DEF CallEntity
    <3>. HIDE DEF c, f
    <3>. QED
      BY <2>1, <3>1, <3>2
  <2>3. CASE r = "factory"
    <3>1. P'.stack = <<c, d>>
      <4>1. P'.stack = Append(Append(P.stack, c), d)
        BY <2>3, ParseOpens
      <4>2. c \in CallRec /\ d \in CallRec
        BY CallTypes DEF EntityEntry, FactoryEntry
      <4>. HIDE DEF c, d
      <4>3. P'.stack = P.stack \o <<c, d>>
        <5>1. P.stack \in Seq(CallRec)
          BY <1>2
        <5>. QED
          BY <4>1, <4>2, <5>1, AppendTwo
      <4>4. <<>> \o <<c, d>> = <<c, d>>
        BY <4>2
      <4>5. P.stack = <<>>
        BY <1>2
      <4>. QED
        BY <4>3, <4>4, <4>5
    <3>2. frames' = <<f, g>>
      BY <2>3 DEF CallEntity
    <3>. HIDE DEF c, d, f, g
    <3>. QED
      BY <2>1, <3>1, <3>2
  <2>. QED
    BY <2>2, <2>3
<1>. QED
  BY <1>1, <1>3, <1>4 DEF StackInv

LEMMA StackEnd ==
  ASSUME TypeInv, StackInv, EndTrace
  PROVE  StackInv'
<1>1. frames = <<>> /\ frames' = frames /\ ended = FALSE /\ ended' = TRUE /\ left' = left
  BY DEF EndTrace, TypeInv, TracerTypeOK
<1>2. P.stack = <<>> /\ P.stack \in Seq(CallRec) /\ P.out \in Seq(OutOf(CallRec))
      /\ Len(P.out) = Len(left) /\ Len(left) \in Nat /\ \A k \in 1 .. Len(left) : P.out[k].to = left[k]
  <2>1. P.stack \in Seq(CallRec) /\ Len(P.stack) = 0
    BY <1>1, ParseTypes DEF StackInv
  <2>2. Len(left) \in Nat /\ Len(P.out) = Len(left) + 0
    BY <1>1 DEF TypeInv, StackInv
  <2>. QED
    BY <2>1, <2>2, ParseTypes DEF StackInv
<1>. DEFINE x == CallEntry(Top, Leave(TRUE, 0))
            m == Len(left)
<1>3. P'.stack = <<>> /\ P'.out = Append(P.out, x)
  BY <1>2, ParseEnds
<1>4. x.type = "top" /\ x \in OutOf(CallRec)
  <2>1. Top.type = "top"
    BY DEF Top, Enter
  <2>. QED
    BY <2>1, CallTypes, EntryOf, EntryTypes
<1>. HIDE DEF x
<1>5. /\ Len(P'.out) = m + 1 /\ P'.out # <<>> /\ Last(P'.out) = x /\ \A k \in 1 .. m : P'.out[k] = P.out[k]
  BY <1>2, <1>3, <1>4, Appended
<1>6. Len(P'.stack) = Len(frames') /\ \A k \in 1 .. Len(frames') : P'.stack[k].to = frames'[k].callee
  BY <1>1, <1>3
<1>. QED
  BY <1>1, <1>2, <1>4, <1>5, <1>6 DEF StackInv

\* While the trace goes on, the parser's stack has one entry per frame of the
\* virtual machine and its output one per frame left (BundlerCollectorTracer.ts
\* enter and exit, TracerResultParser.ts:64-135).
THEOREM StackKept == Spec => [](TypeInv /\ StackInv)
<1>1. Init => TypeInv /\ StackInv
  <2>. SUFFICES ASSUME Init PROVE TypeInv /\ StackInv
    OBVIOUS
  <2>1. frames = <<>> /\ left = <<>> /\ calls = <<>> /\ ended = FALSE
    BY DEF Init
  <2>2. P = Nothing
    BY <2>1, ParseEmpty DEF P, ParseCallStack
  <2>3. P.stack = <<>> /\ P.out = <<>>
    BY <2>2 DEF Nothing
  <2>4. StackInv
    BY <2>1, <2>3 DEF StackInv
  <2>. QED
    BY <2>4, TypeInit
<1>2. TypeInv /\ StackInv /\ [Next]_vars => (TypeInv /\ StackInv)'
  <2>. SUFFICES ASSUME TypeInv, StackInv, [Next]_vars PROVE TypeInv' /\ StackInv'
    OBVIOUS
  <2>1. CASE UNCHANGED vars
    BY <2>1 DEF vars, evmVars, tracerVars, TypeInv, TracerTypeOK, StackInv, P, ParseCallStack
  <2>. QED
    BY <2>1, NextCases, TypeEntity, TypeStep, TypeEnd, StackEntity, StackStep, StackEnd
<1>. QED
  BY <1>1, <1>2, PTL DEF Spec

\* However the frames nest and end, the call stack that is parsed has one entry
\* per frame, in the order in which they were left, then the EntryPoint's own,
\* and leaves nothing on the stack.
THEOREM CallStackAlways == Spec => []CallStackSound
<1>1. TypeInv /\ StackInv => CallStackSound
  <2>. SUFFICES ASSUME TypeInv, StackInv, ended PROVE CallStackSound
    BY DEF CallStackSound
  <2>1. P.stack = <<>>
    <3>1. P.stack \in Seq(CallRec) /\ Len(P.stack) = 0
      BY ParseTypes DEF StackInv
    <3>. QED
      BY <3>1
  <2>2. DOMAIN left = 1 .. Len(left)
    BY DEF TypeInv
  <2>. QED
    BY <2>1, <2>2 DEF StackInv, CallStackSound, P
<1>. QED
  BY <1>1, StackKept, PTL

-----------------------------------------------------------------------------
(* The storage that was accessed                                           *)

Steps == 1 .. Len(steps)

\* A step is added to the history
LEMMA StepAdded ==
  ASSUME TypeInv, NEW i \in Ran, NEW oog \in BOOLEAN, Step(i, oog)
  PROVE  /\ Len(steps) \in Nat /\ DOMAIN steps = Steps /\ Len(steps') = Len(steps) + 1
         /\ \A k : k \in Steps' <=> (k \in Steps \/ k = Len(steps) + 1)
         /\ DOMAIN steps' = Steps' /\ steps' \in Seq(StepRec)
         /\ \A k \in Steps : steps'[k] = steps[k] /\ k < Len(steps) + 1
         /\ LET s == steps'[Len(steps) + 1]
            IN  /\ s.role = role /\ s.at = Here /\ s.callee = Last(frames).callee /\ s.i = i
                /\ s.oog = oog /\ s.hasCode = (i.to \in code)
<1>. DEFINE x == [role |-> role, at |-> Here, callee |-> Last(frames).callee,
                  i |-> i, oog |-> oog, hasCode |-> i.to \in code]
            n == Len(steps)
<1>1. steps \in Seq(StepRec) /\ steps' = Append(steps, x)
  BY DEF TypeInv, Step, Runs, Record
<1>2. x \in StepRec
  <2>1. Last(frames) \in FrameRec /\ Here \in Address /\ Last(frames).callee \in Address
    BY FrameTypes DEF Step, Runs
  <2>2. role \in Role
    BY DEF TypeInv, TracerTypeOK, Step, Runs
  <2>. QED
    BY <2>1, <2>2 DEF StepRec
<1>. HIDE DEF x
<1>3. /\ steps' \in Seq(StepRec) /\ Len(steps') = n + 1 /\ n \in Nat
      /\ DOMAIN steps = 1 .. n /\ DOMAIN steps' = 1 .. n + 1
      /\ steps'[n + 1] = x /\ \A k \in 1 .. n : steps'[k] = steps[k] /\ k < n + 1
  BY <1>1, <1>2, Appended
<1>5. /\ x.role = role /\ x.at = Here /\ x.callee = Last(frames).callee /\ x.i = i
      /\ x.oog = oog /\ x.hasCode = (i.to \in code)
  BY DEF x
<1>4. \A k : k \in 1 .. n + 1 <=> (k \in 1 .. n \/ k = n + 1)
  <2>. HIDE DEF n
  <2>. QED
    BY <1>3
<1>. QED
  BY <1>3, <1>4, <1>5 DEF Steps

Rank == [factory |-> 1, account |-> 2, paymaster |-> 3]

\* The entities are called in their order, and their steps come in that order
OrderInv ==
  /\ \A r \in DOMAIN level : role \in DOMAIN level /\ Rank[r] <= Rank[role]
  /\ \A r \in DOMAIN level, q \in entities : Rank[q] <= Rank[r] => q \in DOMAIN level
  /\ \A k \in Steps : steps[k].role \in DOMAIN level
  /\ \A j, k \in Steps : j <= k => Rank[steps[j].role] <= Rank[steps[k].role]

LEMMA Ranks ==
  /\ \A r \in Role : Rank[r] \in 1 .. 3 /\ Order[Rank[r]] = r
  /\ \A k \in 1 .. 3 : Order[k] \in Role /\ Rank[Order[k]] = k
  /\ \A r, q \in Role : Rank[r] = Rank[q] => r = q
BY DEF Rank, Role, Order

LEMMA OrderStep ==
  ASSUME TypeInv, OrderInv, NEW i \in Ran, NEW oog \in BOOLEAN, Step(i, oog)
  PROVE  OrderInv'
<1>1. /\ DOMAIN level' = DOMAIN level /\ role' = role /\ role \in DOMAIN level /\ entities' = entities
  BY FrameTypes, Collected DEF Step, Runs
<1>2. /\ \A k : k \in Steps' <=> (k \in Steps \/ k = Len(steps) + 1)
      /\ \A k \in Steps : steps'[k] = steps[k]
      /\ steps'[Len(steps) + 1].role = role /\ Len(steps) \in Nat
  BY StepAdded
<1>3. /\ \A r \in DOMAIN level : Rank[r] <= Rank[role]
      /\ \A k \in Steps : steps[k].role \in DOMAIN level
      /\ \A j, k \in Steps : j <= k => Rank[steps[j].role] <= Rank[steps[k].role]
  BY DEF OrderInv
<1>4. \A k \in Steps' : steps'[k].role \in DOMAIN level
  BY <1>1, <1>2, <1>3
<1>5. ASSUME NEW j \in Steps', NEW k \in Steps', j <= k
      PROVE  Rank[steps'[j].role] <= Rank[steps'[k].role]
  <2>1. CASE k = Len(steps) + 1
    BY <1>2, <1>3, <1>4, <2>1
  <2>2. CASE k \in Steps
    <3>1. j \in Steps
      BY <1>2, <1>5, <2>2 DEF Steps
    <3>. QED
      BY <1>2, <1>3, <1>5, <2>2, <3>1
  <2>. QED
    BY <1>2, <2>1, <2>2
<1>. QED
  BY <1>1, <1>3, <1>4, <1>5 DEF OrderInv

LEMMA OrderEntity ==
  ASSUME TypeInv, OrderInv, NEW r \in Role, CallEntity(r)
  PROVE  OrderInv' /\ \A q \in DOMAIN level : Rank[q] < Rank[r]
<1>1. /\ DOMAIN level' = DOMAIN level \cup {r} /\ r \notin DOMAIN level /\ r \in entities
  BY Opened
<1>2. role' = r /\ UNCHANGED <<entities, steps>>
  BY DEF CallEntity
<1>3. DOMAIN level \subseteq entities /\ entities \subseteq Role
  BY DEF TypeInv, TracerTypeOK
<1>4. ASSUME NEW q \in DOMAIN level PROVE Rank[q] < Rank[r]
  <2>1. ~(Rank[r] <= Rank[q])
    BY <1>1 DEF OrderInv
  <2>2. Rank[r] \in 1 .. 3 /\ Rank[q] \in 1 .. 3
    BY <1>3, Ranks
  <2>. QED
    BY <2>1, <2>2
<1>5. ASSUME NEW q \in entities, Rank[q] <= Rank[r] PROVE q \in DOMAIN level'
  <2>. SUFFICES ASSUME q \notin DOMAIN level PROVE q = r
    BY <1>1
  <2>1. Rank[q] \in 1 .. 3 /\ Order[Rank[q]] = q /\ Rank[r] \in 1 .. 3
    BY <1>3, Ranks
  <2>2. \E j \in 1 .. Rank[q] : Order[j] = r
    BY <2>1 DEF CallEntity
  <2>3. PICK j \in 1 .. Rank[q] : Order[j] = r
    BY <2>2
  <2>4. j \in 1 .. 3 /\ j <= Rank[q]
    BY <2>1
  <2>5. Rank[r] = j
    BY <2>3, <2>4, Ranks
  <2>6. Rank[q] = Rank[r]
    BY <1>5, <2>1, <2>4, <2>5
  <2>. QED
    BY <1>3, <2>6, Ranks
<1>6. Rank[r] \in 1 .. 3
  BY Ranks
<1>7. ASSUME NEW q \in DOMAIN level' PROVE Rank[q] <= Rank[r] /\ Rank[q] \in 1 .. 3
  <2>1. Rank[q] \in 1 .. 3
    BY <1>1, <1>3, Ranks
  <2>. QED
    BY <1>1, <1>4, <1>6, <2>1
<1>8. ASSUME NEW p \in DOMAIN level', NEW q \in entities, Rank[q] <= Rank[p] PROVE q \in DOMAIN level'
  <2>1. Rank[q] \in 1 .. 3 /\ Rank[p] \in 1 .. 3 /\ Rank[p] <= Rank[r]
    BY <1>3, <1>7, Ranks
  <2>2. Rank[q] <= Rank[r]
    BY <1>6, <1>8, <2>1
  <2>. QED
    BY <1>5, <2>2
<1>9. /\ \A k \in Steps : steps[k].role \in DOMAIN level
      /\ \A j, k \in Steps : j <= k => Rank[steps[j].role] <= Rank[steps[k].role]
  BY DEF OrderInv
<1>. QED
  BY <1>1, <1>2, <1>4, <1>7, <1>8, <1>9 DEF OrderInv, Steps

Stores(k, r, op, x) == steps[k].role = r /\ steps[k].i.op = op /\ <<steps[k].at, steps[k].i.slot>> = x

\* What a level keeps of the storage against the steps
AccessInv ==
  /\ \A k \in Steps : LET s == steps[k] IN
       /\ s.i.op = "SLOAD" => <<s.at, s.i.slot>> \in level[s.role].reads \cup level[s.role].writes
       /\ s.i.op = "SSTORE" => <<s.at, s.i.slot>> \in level[s.role].writes
  /\ \A r \in DOMAIN level : \A x \in level[r].reads :
       \E k \in Steps : /\ Stores(k, r, "SLOAD", x)
                        /\ \A j \in Steps : Stores(j, r, "SSTORE", x) => j > k
  /\ \A r \in DOMAIN level : \A x \in level[r].writes : \E k \in Steps : Stores(k, r, "SSTORE", x)

LEMMA AccessStep ==
  ASSUME TypeInv, OrderInv, AccessInv, NEW i \in Ran, NEW oog \in BOOLEAN, Step(i, oog)
  PROVE  AccessInv'
<1>0. PICK n \in Nat : n = Len(steps)
  BY StepAdded
<1>. PICK y : y = <<Here, i.slot>>
  OBVIOUS
<1>1. /\ DOMAIN level' = DOMAIN level /\ role \in DOMAIN level
      /\ \A r \in DOMAIN level : r # role => level'[r] = level[r]
      /\ level'[role].reads = level[role].reads \cup
           (IF i.op = "SLOAD" THEN {y} \ level[role].writes ELSE {})
      /\ level'[role].writes = level[role].writes \cup (IF i.op = "SSTORE" THEN {y} ELSE {})
  BY FrameTypes, Collected DEF Step, Runs
<1>2. /\ \A k : k \in Steps' <=> (k \in Steps \/ k = n + 1)
      /\ \A k \in Steps : steps'[k] = steps[k] /\ k < n + 1
      /\ steps'[n + 1].role = role /\ steps'[n + 1].i = i /\ steps'[n + 1].at = Here
  BY <1>0, StepAdded
<1>3. \A k \in Steps : \A r, op, x : Stores(k, r, op, x)' <=> Stores(k, r, op, x)
  BY <1>2 DEF Stores
<1>4. \A r, op, x : Stores(n + 1, r, op, x)' <=> (r = role /\ op = i.op /\ x = y)
  <2>1. <<steps'[n + 1].at, steps'[n + 1].i.slot>> = y
    BY <1>2
  <2>. QED
    BY <1>2, <2>1 DEF Stores
<1>5. \A k \in Steps : steps[k].role \in DOMAIN level
  BY DEF OrderInv
<1>6. ASSUME NEW k \in Steps'
      PROVE  LET s == steps'[k] IN
             /\ s.i.op = "SLOAD" => <<s.at, s.i.slot>> \in level'[s.role].reads \cup level'[s.role].writes
             /\ s.i.op = "SSTORE" => <<s.at, s.i.slot>> \in level'[s.role].writes
  <2>1. CASE k \in Steps
    <3>1. steps'[k] = steps[k] /\ steps[k].role \in DOMAIN level
      BY <1>2, <1>5, <2>1
    <3>2. /\ level[steps[k].role].reads \subseteq level'[steps[k].role].reads
          /\ level[steps[k].role].writes \subseteq level'[steps[k].role].writes
      BY <1>1, <3>1
    <3>. QED
      BY <2>1, <3>1, <3>2 DEF AccessInv
  <2>2. CASE k = n + 1
    BY <1>1, <1>2, <2>2
  <2>. QED
    BY <1>2, <2>1, <2>2
<1>7. ASSUME NEW r \in DOMAIN level, NEW x \in level'[r].reads
      PROVE  \E k \in Steps' : /\ Stores(k, r, "SLOAD", x)'
                               /\ \A j \in Steps' : Stores(j, r, "SSTORE", x)' => j > k
  <2>1. CASE x \in level[r].reads
    <3>1. PICK k \in Steps : Stores(k, r, "SLOAD", x) /\ \A j \in Steps : Stores(j, r, "SSTORE", x) => j > k
      BY <2>1 DEF AccessInv
    <3>2. \A j \in Steps' : Stores(j, r, "SSTORE", x)' => j > k
      BY <1>2, <1>3, <3>1
    <3>. QED
      BY <1>2, <1>3, <3>1, <3>2
  <2>2. CASE x \notin level[r].reads
    <3>1. r = role /\ i.op = "SLOAD" /\ x = y /\ y \notin level[role].writes
      BY <1>1, <2>2
    <3>2. Stores(n + 1, r, "SLOAD", x)'
      BY <1>4, <3>1
    <3>3. \A j \in Steps' : ~Stores(j, r, "SSTORE", x)'
      <4>1. ASSUME NEW j \in Steps, Stores(j, r, "SSTORE", x) PROVE FALSE
        <5>1. x \in level[r].writes
          BY <4>1 DEF AccessInv, Stores
        <5>. QED
          BY <3>1, <5>1
      <4>. QED
        BY <1>2, <1>3, <1>4, <3>1, <4>1
    <3>4. n + 1 \in Steps'
      BY <1>2
    <3>. QED
      BY <3>2, <3>3, <3>4
  <2>. QED
    BY <2>1, <2>2
<1>8. ASSUME NEW r \in DOMAIN level, NEW x \in level'[r].writes
      PROVE  \E k \in Steps' : Stores(k, r, "SSTORE", x)'
  <2>1. CASE x \in level[r].writes
    BY <1>2, <1>3, <2>1 DEF AccessInv
  <2>2. CASE x \notin level[r].writes
    <3>1. r = role /\ i.op = "SSTORE" /\ x = y
      BY <1>1, <2>2
    <3>. QED
      BY <1>2, <1>4, <3>1
  <2>. QED
    BY <2>1, <2>2
<1>. QED
  BY <1>1, <1>6, <1>7, <1>8 DEF AccessInv

LEMMA AccessEntity ==
  ASSUME TypeInv, OrderInv, AccessInv, NEW r \in Role, CallEntity(r)
  PROVE  AccessInv'
<1>1. /\ DOMAIN level' = DOMAIN level \cup {r} /\ r \notin DOMAIN level
      /\ \A x \in DOMAIN level : level'[x] = level[x]
      /\ level'[r].reads = {} /\ level'[r].writes = {}
  BY Opened
<1>2. steps' = steps /\ Steps' = Steps /\ \A k \in Steps : steps[k].role \in DOMAIN level
  BY DEF CallEntity, Steps, OrderInv
<1>3. \A k, q, op, x : Stores(k, q, op, x)' <=> Stores(k, q, op, x)
  BY <1>2 DEF Stores
<1>. QED
  BY <1>1, <1>2, <1>3 DEF AccessInv

TraceInv == TypeInv /\ OrderInv /\ AccessInv

\* The reads and writes that a level keeps are those of its instructions, and the
\* levels come in the order of the entities' calls (BundlerCollectorTracer.ts,
\* SLOAD and SSTORE).
THEOREM StorageKept == Spec => []TraceInv
<1>1. Init => TraceInv
  <2>. SUFFICES ASSUME Init PROVE TraceInv
    OBVIOUS
  <2>1. DOMAIN level = {} /\ steps = <<>>
    BY DEF Init
  <2>2. Steps = {}
    BY <2>1 DEF Steps
  <2>. QED
    BY <2>1, <2>2, TypeInit DEF TraceInv, OrderInv, AccessInv
<1>2. TraceInv /\ [Next]_vars => TraceInv'
  <2>. SUFFICES ASSUME TypeInv, OrderInv, AccessInv, [Next]_vars PROVE TypeInv' /\ OrderInv' /\ AccessInv'
    BY DEF TraceInv
  <2>1. CASE UNCHANGED vars
    BY <2>1 DEF vars, evmVars, tracerVars, TypeInv, TracerTypeOK, OrderInv, AccessInv, Steps, Stores
  <2>2. CASE EndTrace
    <3>1. UNCHANGED <<role, level, entities, steps>>
      BY <2>2 DEF EndTrace
    <3>. QED
      BY <2>2, <3>1, TypeEnd DEF OrderInv, AccessInv, Steps, Stores
  <2>. QED
    BY <2>1, <2>2, NextCases, TypeEntity, TypeStep, OrderEntity, OrderStep, AccessEntity, AccessStep
<1>. QED
  BY <1>1, <1>2, PTL DEF Spec

\* the first level that accessed the storage of a
First(k, a) ==
  /\ k \in 1 .. 3
  /\ Order[k] \in DOMAIN level /\ AccessedIn(Order[k], a)
  /\ \A j \in 1 .. k - 1 : Order[j] \in DOMAIN level => ~AccessedIn(Order[j], a)

LEMMA FirstExists ==
  ASSUME DOMAIN level \subseteq Role, NEW a, NEW r \in DOMAIN level, AccessedIn(r, a)
  PROVE  \E k : First(k, a)
<1>. DEFINE T(k) == Order[k] \in DOMAIN level /\ AccessedIn(Order[k], a)
<1>1. PICK n \in 1 .. 3 : T(n)
  <2>1. Rank[r] \in 1 .. 3 /\ Order[Rank[r]] = r
    BY Ranks
  <2>. QED
    BY <2>1
<1>. HIDE DEF T
<1>2. \E k \in 1 .. 3 : T(k) /\ \A j \in 1 .. k - 1 : ~T(j)
  <2>1. CASE T(1)
    BY <2>1
  <2>2. CASE ~T(1) /\ T(2)
    BY <2>2
  <2>3. CASE ~T(1) /\ ~T(2)
    <3>1. T(3) /\ \A j \in 1 .. 3 - 1 : ~T(j)
      BY <1>1, <2>3
    <3>. QED
      BY <3>1
  <2>. QED
    BY <2>1, <2>2, <2>3
<1>3. PICK k \in 1 .. 3 : T(k) /\ \A j \in 1 .. k - 1 : ~T(j)
  BY <1>2
<1>4. First(k, a)
  BY <1>3 DEF First, T
<1>. QED
  BY <1>4

LEMMA MapDomain ==
  \A a : a \in DOMAIN StorageMap <=> \E r \in DOMAIN level : AccessedIn(r, a)
<1>. DEFINE A == UNION {level[r].reads \cup level[r].writes : r \in DOMAIN level}
<1>1. DOMAIN StorageMap = {access[1] : access \in A}
  BY DEF StorageMap
<1>2. \A x : x \in A <=> \E r \in DOMAIN level : x \in level[r].reads \cup level[r].writes
  OBVIOUS
<1>. HIDE DEF A
<1>. QED
  BY <1>1, <1>2 DEF AccessedIn

LEMMA MapSlots ==
  ASSUME DOMAIN level \subseteq Role, level \in [DOMAIN level -> LevelRec], NEW a \in DOMAIN StorageMap
  PROVE  \E k : First(k, a) /\ \A slot \in StorageMap[a] : <<a, slot>> \in level[Order[k]].reads
<1>. DEFINE K == CHOOSE k \in 1 .. 3 :
                /\ Order[k] \in DOMAIN level /\ AccessedIn(Order[k], a)
                /\ \A j \in 1 .. k - 1 : Order[j] \in DOMAIN level => ~AccessedIn(Order[j], a)
            M == {x[2] : x \in {y \in level[Order[K]].reads : y[1] = a}}
<1>1. StorageMap[a] = M
  BY DEF StorageMap
<1>2. \E k \in 1 .. 3 :
                /\ Order[k] \in DOMAIN level /\ AccessedIn(Order[k], a)
                /\ \A j \in 1 .. k - 1 : Order[j] \in DOMAIN level => ~AccessedIn(Order[j], a)
  BY MapDomain, FirstExists DEF First
<1>3. First(K, a)
  BY <1>2 DEF First
<1>. HIDE DEF K
<1>4. ASSUME NEW slot \in M PROVE <<a, slot>> \in level[Order[K]].reads
  <2>1. PICK x \in level[Order[K]].reads : x[1] = a /\ slot = x[2]
    OBVIOUS
  <2>2. level[Order[K]].reads \subseteq Access
    BY <1>3 DEF First, LevelRec
  <2>3. x \in Access
    BY <2>1, <2>2
  <2>4. x = <<x[1], x[2]>>
    BY <2>3 DEF Access
  <2>. QED
    BY <2>1, <2>4
<1>. QED
  BY <1>1, <1>3, <1>4

LEMMA AccessedSteps ==
  ASSUME TraceInv, NEW r \in DOMAIN level, NEW a
  PROVE  AccessedIn(r, a) <=>
           \E k \in Steps : steps[k].role = r /\ steps[k].at = a /\ steps[k].i.op \in {"SLOAD", "SSTORE"}
<1>1. AccessInv
  BY DEF TraceInv
<1>2. ASSUME NEW x \in level[r].reads \cup level[r].writes, x[1] = a
      PROVE  \E k \in Steps : steps[k].role = r /\ steps[k].at = a /\ steps[k].i.op \in {"SLOAD", "SSTORE"}
  <2>1. PICK k \in Steps : Stores(k, r, "SLOAD", x) \/ Stores(k, r, "SSTORE", x)
    BY <1>1, <1>2 DEF AccessInv
  <2>2. steps[k].at = x[1]
    BY <2>1 DEF Stores
  <2>. QED
    BY <1>2, <2>1, <2>2 DEF Stores
<1>3. ASSUME NEW k \in Steps, steps[k].role = r, steps[k].at = a, steps[k].i.op \in {"SLOAD", "SSTORE"}
      PROVE  AccessedIn(r, a)
  <2>. DEFINE x == <<steps[k].at, steps[k].i.slot>>
  <2>1. x \in level[r].reads \cup level[r].writes
    BY <1>1, <1>3 DEF AccessInv
  <2>2. x[1] = a
    BY <1>3
  <2>. QED
    BY <2>1, <2>2 DEF AccessedIn
<1>. QED
  BY <1>2, <1>3 DEF AccessedIn

\* Whatever the entities execute, the storage map has exactly the addresses
\* whose storage was accessed, and of each only slots that were read before
\* anything of the operation had written them.
THEOREM StorageMapAlways == Spec => []StorageMapSound
<1>1. TraceInv => StorageMapSound
  <2>. SUFFICES ASSUME TraceInv PROVE StorageMapSound
    OBVIOUS
  <2>. DEFINE access(op) == {k \in DOMAIN steps : steps[k].i.op \in op}
  <2>1. DOMAIN steps = Steps /\ DOMAIN level \subseteq Role /\ level \in [DOMAIN level -> LevelRec]
    BY DEF TraceInv, TypeInv, TracerTypeOK, Steps
  <2>2. \A k \in Steps : steps[k].role \in DOMAIN level
    BY DEF TraceInv, OrderInv
  <2>3. ASSUME NEW a
        PROVE  a \in DOMAIN StorageMap <=> a \in {steps[k].at : k \in access({"SLOAD", "SSTORE"})}
    BY <2>1, <2>2, MapDomain, AccessedSteps
  <2>4. DOMAIN StorageMap = {steps[k].at : k \in access({"SLOAD", "SSTORE"})}
    BY <2>3
  <2>5. ASSUME NEW a \in DOMAIN StorageMap, NEW slot \in StorageMap[a]
        PROVE  \E k \in access({"SLOAD"}) :
                 /\ steps[k].at = a /\ steps[k].i.slot = slot
                 /\ \A j \in access({"SSTORE"}) :
                      steps[j].at = a /\ steps[j].i.slot = slot => j > k
    <3>1. PICK f : First(f, a) /\ <<a, slot>> \in level[Order[f]].reads
      BY <2>1, <2>5, MapSlots
    <3>. DEFINE r == Order[f]
    <3>2. r \in DOMAIN level /\ Rank[r] = f /\ f \in 1 .. 3
      BY <3>1, Ranks DEF First
    <3>3. PICK k \in Steps : /\ Stores(k, r, "SLOAD", <<a, slot>>)
                             /\ \A j \in Steps : Stores(j, r, "SSTORE", <<a, slot>>) => j > k
      BY <3>1, <3>2 DEF TraceInv, AccessInv
    <3>4. steps[k].role = r /\ steps[k].at = a /\ steps[k].i.slot = slot /\ steps[k].i.op = "SLOAD"
      BY <3>3 DEF Stores
    <3>5. ASSUME NEW j \in Steps, steps[j].i.op = "SSTORE", steps[j].at = a, steps[j].i.slot = slot
          PROVE  j > k
      <4>. DEFINE q == steps[j].role
      <4>1. q \in DOMAIN level /\ Rank[q] \in 1 .. 3 /\ Order[Rank[q]] = q
        BY <2>1, <2>2, Ranks
      <4>2. AccessedIn(q, a)
        BY <3>5, <4>1, AccessedSteps
      <4>3. ~(Rank[q] < f)
        <5>1. ASSUME Rank[q] < f PROVE FALSE
          <6>1. Rank[q] \in 1 .. f - 1
            BY <3>2, <4>1, <5>1
          <6>. QED
            BY <3>1, <4>1, <4>2, <6>1 DEF First
        <5>. QED
          BY <5>1
      <4>4. CASE q = r
        BY <3>3, <3>5, <4>4 DEF Stores
      <4>5. CASE q # r
        <5>1. Rank[q] # Rank[r]
          BY <2>1, <3>2, <4>1, <4>5, Ranks
        <5>2. ~(Rank[q] <= Rank[r])
          BY <3>2, <4>1, <4>3, <5>1
        <5>3. ~(j <= k)
          BY <3>4, <5>2 DEF TraceInv, OrderInv
        <5>. QED
          BY <5>3 DEF Steps
      <4>. QED
        BY <4>4, <4>5
    <3>. QED
      BY <2>1, <3>4, <3>5
  <2>. QED
    BY <2>4, <2>5 DEF StorageMapSound
<1>. QED
  BY <1>1, StorageKept, PTL

-----------------------------------------------------------------------------
(* The opcodes that were counted                                           *)

\* An opcode that does not end a frame leaves one to go on
LEMMA FramesStay ==
  ASSUME TypeInv, NEW i \in Ran, NEW oog \in BOOLEAN, Step(i, oog), i.op \notin Exits
  PROVE  frames' # <<>>
<1>1. frames # <<>> /\ frames \in Seq(FrameRec) /\ Frames(i, oog) /\ i \notin ExitInstr
  BY InstrTypes DEF Step, Runs, TypeInv
<1>2. CASE NoFrame(i)
  BY <1>1, <1>2 DEF NoFrame
<1>3. CASE NewFrame(i)
  <2>. DEFINE f == Frame(i.op, IF i.op = "DELEGATECALL" THEN Here ELSE i.to, i.to)
  <2>1. frames' = Append(frames, f)
    BY <1>3 DEF NewFrame
  <2>. HIDE DEF f
  <2>. QED
    BY <1>1, <2>1
<1>4. CASE EmptyFrame(i)
  BY <1>1, <1>4 DEF EmptyFrame
<1>5. ASSUME NEW failed \in BOOLEAN, NEW context \in Contexts, Over(i, oog, failed, context)
      PROVE  frames' # <<>>
  <2>1. MayFail /\ frames' = Front(frames)
    BY <1>1, <1>5 DEF Over, Pop
  <2>2. Len(frames) > 1 /\ Len(frames) \in Nat
    BY <1>1, <2>1 DEF MayFail
  <2>3. Len(Front(frames)) = Len(frames) - 1
    BY <1>1, LastOf
  <2>4. Len(frames') > 0
    BY <2>1, <2>2, <2>3
  <2>. QED
    BY <2>4
<1>. QED
  BY <1>1, <1>2, <1>3, <1>4, <1>5 DEF Frames

LEMMA OpenedCounts ==
  ASSUME TypeInv, NEW r \in Role, CallEntity(r)
  PROVE  DOMAIN level'[r].opcodes \subseteq {"CALL"} /\ CountOf(level'[r].opcodes, "CREATE2") = 0
<1>. DEFINE none == [op \in {} |-> 0]
<1>1. level'[r].opcodes = none \/ level'[r].opcodes = CountSlot(none, "CALL")
  BY Opened
<1>2. DOMAIN none = {}
  OBVIOUS
<1>. HIDE DEF none
<1>3. DOMAIN CountSlot(none, "CALL") = {"CALL"}
  BY <1>2 DEF CountSlot
<1>. QED
  BY <1>1, <1>2, <1>3 DEF CountOf

Op(k) == steps[k].i.op
By(k, r) == steps[k].role = r

OogInv ==
  \A r \in DOMAIN level : level[r].oog <=> \E k \in Steps : By(k, r) /\ steps[k].oog

CountInv ==
  /\ \A k \in Steps : Op(k) \notin Unimportant \cup {"GAS"} => Op(k) \in DOMAIN level[steps[k].role].opcodes
  /\ \A r \in DOMAIN level : \A op \in DOMAIN level[r].opcodes :
       op \in {"CALL", "GAS"} \/ \E k \in Steps : By(k, r) /\ Op(k) = op
  /\ \A r \in DOMAIN level :
       /\ CountOf(level[r].opcodes, "CREATE2") >= 1 <=> \E k \in Steps : By(k, r) /\ Op(k) = "CREATE2"
       /\ CountOf(level[r].opcodes, "CREATE2") >= 2 <=>
            \E j, k \in Steps : j < k /\ By(j, r) /\ By(k, r) /\ Op(j) = "CREATE2" /\ Op(k) = "CREATE2"

\* GAS counts by the opcode after it
Lone(k) == k \in Steps /\ k + 1 \in Steps /\ Op(k) = "GAS" /\ Op(k + 1) \notin NamedCall
GasInv ==
  /\ \A k \in Steps : Lone(k) => "GAS" \in DOMAIN level[steps[k].role].opcodes
  /\ \A r \in DOMAIN level : "GAS" \in DOMAIN level[r].opcodes => \E k \in Steps : Lone(k)
  /\ lastOp = "GAS" <=> (\E n \in Steps : n = Len(steps) /\ Op(n) = "GAS")
  /\ \A n \in Steps : n = Len(steps) /\ Op(n) = "GAS" => frames # <<>> /\ By(n, role)

\* A step, as those invariants see it
Seen(n, i, oog) ==
  /\ n = Len(steps) /\ Len(steps') = n + 1 /\ n + 1 \in Steps' /\ n + 1 \notin Steps
  /\ \A k : k \in Steps' <=> (k \in Steps \/ k = n + 1)
  /\ \A k \in Steps : k < n + 1 /\ k \in Nat \ {0} /\ steps'[k] = steps[k] /\ Op(k)' = Op(k)
                      /\ \A r : By(k, r)' <=> By(k, r)
  /\ Op(n + 1)' = i.op /\ \A r : By(n + 1, r)' <=> r = role
  /\ steps'[n + 1].role = role /\ steps'[n + 1].oog = oog /\ steps'[n + 1].i = i
  /\ DOMAIN level' = DOMAIN level /\ role \in DOMAIN level /\ role' = role
  /\ \A r \in DOMAIN level : r # role => level'[r] = level[r]
  /\ \A k \in Steps : steps[k].role \in DOMAIN level

LEMMA StepSeen ==
  ASSUME TypeInv, OrderInv, NEW i \in Ran, NEW oog \in BOOLEAN, Step(i, oog)
  PROVE  \E n \in Nat : Seen(n, i, oog)
<1>1. PICK n \in Nat : n = Len(steps)
  BY StepAdded
<1>2. /\ Len(steps') = n + 1 /\ \A k : k \in Steps' <=> (k \in Steps \/ k = n + 1)
      /\ \A k \in Steps : steps'[k] = steps[k] /\ k < n + 1
      /\ steps'[n + 1].role = role /\ steps'[n + 1].oog = oog /\ steps'[n + 1].i = i
  BY <1>1, StepAdded
<1>3. /\ DOMAIN level' = DOMAIN level /\ role \in DOMAIN level /\ role' = role
      /\ \A r \in DOMAIN level : r # role => level'[r] = level[r]
  BY FrameTypes, Collected DEF Step, Runs
<1>4. \A k \in Steps : steps[k].role \in DOMAIN level
  BY DEF OrderInv
<1>5. n + 1 \notin Steps /\ \A k \in Steps : k \in Nat \ {0}
  BY <1>1 DEF Steps
<1>6. \A k \in Steps : Op(k)' = Op(k) /\ \A r : By(k, r)' <=> By(k, r)
  BY <1>2 DEF Op, By
<1>7. Op(n + 1)' = i.op /\ \A r : By(n + 1, r)' <=> r = role
  BY <1>2 DEF Op, By
<1>. QED
  BY <1>1, <1>2, <1>3, <1>4, <1>5, <1>6, <1>7 DEF Seen

LEMMA OogStep ==
  ASSUME TypeInv, OrderInv, OogInv, NEW i \in Ran, NEW oog \in BOOLEAN, Step(i, oog)
  PROVE  OogInv'
<1>0. PICK n \in Nat : Seen(n, i, oog)
  BY StepSeen
<1>1. /\ n + 1 \in Steps' /\ \A k : k \in Steps' <=> (k \in Steps \/ k = n + 1)
      /\ \A k \in Steps : steps'[k] = steps[k] /\ \A r : By(k, r)' <=> By(k, r)
      /\ \A r : By(n + 1, r)' <=> r = role
      /\ steps'[n + 1].oog = oog /\ DOMAIN level' = DOMAIN level /\ role \in DOMAIN level
      /\ \A r \in DOMAIN level : r # role => level'[r] = level[r]
  BY <1>0 DEF Seen
<1>2. level'[role].oog <=> (level[role].oog \/ oog)
  BY FrameTypes, Collected DEF Step, Runs
<1>3. ASSUME NEW r \in DOMAIN level
      PROVE  level'[r].oog <=> \E k \in Steps' : By(k, r)' /\ steps'[k].oog
  <2>1. level[r].oog <=> \E k \in Steps : By(k, r) /\ steps[k].oog
    BY DEF OogInv
  <2>2. (\E k \in Steps' : By(k, r)' /\ steps'[k].oog)
          <=> ((\E k \in Steps : By(k, r) /\ steps[k].oog) \/ (r = role /\ oog))
    BY <1>1
  <2>3. level'[r].oog <=> (level[r].oog \/ (r = role /\ oog))
    <3>1. CASE r = role
      BY <1>2, <3>1
    <3>2. CASE r # role
      BY <1>1, <3>2
    <3>. QED
      BY <3>1, <3>2
  <2>. QED
    BY <2>1, <2>2, <2>3
<1>. QED
  BY <1>1, <1>3 DEF OogInv

LEMMA CountStep ==
  ASSUME TypeInv, OrderInv, CountInv, NEW i \in Ran, NEW oog \in BOOLEAN, Step(i, oog)
  PROVE  CountInv'
<1>0. PICK n \in Nat : Seen(n, i, oog)
  BY StepSeen
<1>1. /\ n + 1 \in Steps' /\ \A k : k \in Steps' <=> (k \in Steps \/ k = n + 1)
      /\ \A k \in Steps : k < n + 1 /\ k \in Nat \ {0} /\ steps'[k] = steps[k] /\ Op(k)' = Op(k)
                            /\ \A r : By(k, r)' <=> By(k, r)
      /\ Op(n + 1)' = i.op /\ (\A r : By(n + 1, r)' <=> r = role) /\ steps'[n + 1].role = role
      /\ DOMAIN level' = DOMAIN level /\ role \in DOMAIN level
      /\ \A r \in DOMAIN level : r # role => level'[r] = level[r]
      /\ \A k \in Steps : steps[k].role \in DOMAIN level
  BY <1>0 DEF Seen
<1>. DEFINE old == level[role].opcodes
            new == level'[role].opcodes
<1>2. /\ DOMAIN new = DOMAIN old \cup Counts1(i) \cup (IF CountsGas(i) THEN {"GAS"} ELSE {})
      /\ CountOf(old, "CREATE2") \in Nat
      /\ CountOf(new, "CREATE2") = CountOf(old, "CREATE2") + IF i.op = "CREATE2" THEN 1 ELSE 0
  <2>1. new = Counted(old, i)
    BY FrameTypes, Collected DEF Step, Runs
  <2>2. old \in Counts
    BY <1>1 DEF TypeInv, LevelRec
  <2>. HIDE DEF old, new
  <2>. QED
    BY <2>1, <2>2, CountedTypes
<1>. HIDE DEF old, new
<1>3. ASSUME NEW k \in Steps', Op(k)' \notin Unimportant \cup {"GAS"}
      PROVE  Op(k)' \in DOMAIN level'[steps'[k].role].opcodes
  <2>1. CASE k = n + 1
    BY <1>1, <1>2, <1>3, <2>1 DEF Counts1, new
  <2>2. CASE k \in Steps
    <3>1. Op(k) \in DOMAIN level[steps[k].role].opcodes /\ steps'[k] = steps[k] /\ Op(k)' = Op(k)
      BY <1>1, <1>3, <2>2 DEF CountInv
    <3>2. DOMAIN level[steps[k].role].opcodes \subseteq DOMAIN level'[steps[k].role].opcodes
      BY <1>1, <1>2, <2>2 DEF new, old
    <3>. QED
      BY <3>1, <3>2
  <2>. QED
    BY <1>1, <2>1, <2>2
<1>4. ASSUME NEW r \in DOMAIN level, NEW op \in DOMAIN level'[r].opcodes, op \notin {"CALL", "GAS"}
      PROVE  \E k \in Steps' : By(k, r)' /\ Op(k)' = op
  <2>1. CASE op \in DOMAIN level[r].opcodes
    <3>1. PICK k \in Steps : By(k, r) /\ Op(k) = op
      BY <1>4, <2>1 DEF CountInv
    <3>. QED
      BY <1>1, <3>1
  <2>2. CASE op \notin DOMAIN level[r].opcodes
    <3>1. r = role
      BY <1>1, <2>2
    <3>2. op \in Counts1(i)
      BY <1>2, <1>4, <2>2, <3>1 DEF new, old
    <3>3. op = i.op
      BY <3>2 DEF Counts1
    <3>. QED
      BY <1>1, <3>1, <3>3
  <2>. QED
    BY <2>1, <2>2
<1>5. ASSUME NEW r \in DOMAIN level
      PROVE  /\ CountOf(level'[r].opcodes, "CREATE2") >= 1 <=> \E k \in Steps' : By(k, r)' /\ Op(k)' = "CREATE2"
             /\ CountOf(level'[r].opcodes, "CREATE2") >= 2 <=>
                  \E j, k \in Steps' : j < k /\ By(j, r)' /\ By(k, r)' /\ Op(j)' = "CREATE2" /\ Op(k)' = "CREATE2"
  <2>. DEFINE One == \E k \in Steps : By(k, r) /\ Op(k) = "CREATE2"
              Two == \E j, k \in Steps : j < k /\ By(j, r) /\ By(k, r) /\ Op(j) = "CREATE2" /\ Op(k) = "CREATE2"
              c == CountOf(level[r].opcodes, "CREATE2")
              d == CountOf(level'[r].opcodes, "CREATE2")
              more == r = role /\ i.op = "CREATE2"
  <2>1. (c >= 1 <=> One) /\ (c >= 2 <=> Two)
    BY DEF CountInv
  <2>2. (\E k \in Steps' : By(k, r)' /\ Op(k)' = "CREATE2") <=> (One \/ more)
    BY <1>1
  <2>3. (\E j, k \in Steps' : j < k /\ By(j, r)' /\ By(k, r)' /\ Op(j)' = "CREATE2" /\ Op(k)' = "CREATE2")
          <=> (Two \/ (One /\ more))
    <3>1. ASSUME NEW j \in Steps', NEW k \in Steps', j < k, By(j, r)', By(k, r)', Op(j)' = "CREATE2", Op(k)' = "CREATE2"
          PROVE  Two \/ (One /\ more)
      <4>1. j \in Steps
        <5>1. ASSUME j = n + 1 PROVE FALSE
          <6>1. k = n + 1 \/ (k < n + 1 /\ k \in Nat)
            BY <1>1
          <6>. QED
            BY <3>1, <5>1, <6>1
        <5>. QED
          BY <1>1, <5>1
      <4>2. CASE k = n + 1
        BY <1>1, <3>1, <4>1, <4>2
      <4>3. CASE k \in Steps
        BY <1>1, <3>1, <4>1, <4>3
      <4>. QED
        BY <1>1, <4>2, <4>3
    <3>2. ASSUME Two PROVE \E j, k \in Steps' : j < k /\ By(j, r)' /\ By(k, r)' /\ Op(j)' = "CREATE2" /\ Op(k)' = "CREATE2"
      BY <1>1, <3>2
    <3>3. ASSUME One, more PROVE \E j, k \in Steps' : j < k /\ By(j, r)' /\ By(k, r)' /\ Op(j)' = "CREATE2" /\ Op(k)' = "CREATE2"
      BY <1>1, <3>3
    <3>. QED
      BY <3>1, <3>2, <3>3
  <2>4. c \in Nat /\ d = c + IF more THEN 1 ELSE 0
    <3>1. CASE r = role
      BY <1>2, <3>1 DEF old, new
    <3>2. CASE r # role
      <4>1. c = d
        BY <1>1, <3>2
      <4>2. c \in Nat
        BY DEF CountOf, TypeInv, LevelRec, Counts
      <4>. QED
        BY <3>2, <4>1, <4>2
    <3>. QED
      BY <3>1, <3>2
  <2>5. Two => One
    OBVIOUS
  <2>. HIDE DEF One, Two, c, d, more
  <2>6. (d >= 1 <=> (One \/ more)) /\ (d >= 2 <=> (Two \/ (One /\ more)))
    BY <2>1, <2>4, <2>5
  <2>7. QED
    BY <2>2, <2>3, <2>6 DEF d
<1>. QED
  BY <1>1, <1>3, <1>4, <1>5 DEF CountInv

LEMMA GasStep ==
  ASSUME TypeInv, OrderInv, GasInv, NEW i \in Ran, NEW oog \in BOOLEAN, Step(i, oog)
  PROVE  GasInv'
<1>0. PICK n \in Nat : Seen(n, i, oog)
  BY StepSeen
<1>1. /\ n = Len(steps) /\ Len(steps') = n + 1
      /\ \A k : k \in Steps' <=> (k \in Steps \/ k = n + 1)
      /\ \A k \in Steps : k < n + 1 /\ k \in Nat \ {0} /\ steps'[k] = steps[k] /\ Op(k)' = Op(k)
                          /\ \A r : By(k, r)' <=> By(k, r)
      /\ Op(n + 1)' = i.op /\ (\A r : By(n + 1, r)' <=> r = role) /\ steps'[n + 1].role = role
      /\ DOMAIN level' = DOMAIN level /\ role \in DOMAIN level /\ role' = role
      /\ \A r \in DOMAIN level : r # role => level'[r] = level[r]
  BY <1>0 DEF Seen
<1>2. /\ lastOp' = i.op
      /\ DOMAIN level'[role].opcodes = DOMAIN level[role].opcodes \cup Counts1(i) \cup (IF CountsGas(i) THEN {"GAS"} ELSE {})
  <2>1. level'[role].opcodes = Counted(level[role].opcodes, i) /\ lastOp' = i.op
    BY FrameTypes, Collected DEF Step, Runs
  <2>2. level[role].opcodes \in Counts
    BY <1>1 DEF TypeInv, LevelRec
  <2>. QED
    BY <2>1, <2>2, CountedTypes
<1>3. "GAS" \notin Counts1(i)
  BY DEF Counts1
<1>4. \A r \in DOMAIN level : "GAS" \in DOMAIN level'[r].opcodes <=>
                                 ("GAS" \in DOMAIN level[r].opcodes \/ (r = role /\ CountsGas(i)))
  <2>. TAKE r \in DOMAIN level
  <2>1. CASE r = role
    BY <1>2, <1>3, <2>1
  <2>2. CASE r # role
    BY <1>1, <2>2
  <2>. QED
    BY <2>1, <2>2
<1>5. CountsGas(i) <=> (n \in Steps /\ Op(n) = "GAS" /\ i.op \notin NamedCall)
  BY <1>1 DEF GasInv, CountsGas
<1>6. \A k \in Steps' : Lone(k)' <=> (Lone(k) \/ (k = n /\ CountsGas(i)))
  <2>. TAKE k \in Steps'
  <2>1. CASE k = n + 1
    <3>1. n + 2 \notin Steps' /\ k + 1 = n + 2 /\ k \notin Steps
      <4>1. k + 1 = n + 2 /\ k \notin Steps /\ n + 2 # n + 1
        BY <1>1, <2>1
      <4>2. \A j \in Steps : j # n + 2
        BY <1>1
      <4>. QED
        BY <1>1, <4>1, <4>2
    <3>2. ~Lone(k)' /\ ~Lone(k) /\ k # n
      BY <2>1, <3>1 DEF Lone
    <3>. QED
      BY <3>2
  <2>2. CASE k \in Steps /\ k # n
    <3>1. k + 1 \in Steps /\ k + 1 \in Steps'
      BY <1>1, <2>2 DEF Steps
    <3>2. Op(k)' = Op(k) /\ Op(k + 1)' = Op(k + 1)
      BY <1>1, <2>2, <3>1
    <3>. QED
      BY <2>2, <3>1, <3>2 DEF Lone
  <2>3. CASE k \in Steps /\ k = n
    <3>1. ~Lone(k)
      BY <1>1, <2>3 DEF Lone
    <3>2. Lone(k)' <=> (Op(n) = "GAS" /\ i.op \notin NamedCall)
      <4>1. Op(n)' = Op(n) /\ Op(n + 1)' = i.op /\ n + 1 \in Steps' /\ n \in Steps'
        BY <1>1, <2>3
      <4>2. Lone(n)' <=> (Op(n)' = "GAS" /\ Op(n + 1)' \notin NamedCall)
        BY <4>1 DEF Lone
      <4>. QED
        BY <2>3, <4>1, <4>2
    <3>. QED
      BY <1>5, <2>3, <3>1, <3>2
  <2>. QED
    BY <1>1, <2>1, <2>2, <2>3
<1>7. n \in Steps /\ Op(n) = "GAS" => steps[n].role = role
  BY <1>1 DEF GasInv, By
<1>8. ASSUME NEW k \in Steps', Lone(k)' PROVE "GAS" \in DOMAIN level'[steps'[k].role].opcodes
  <2>1. k \in Steps
    BY <1>1, <1>5, <1>6, <1>8 DEF Lone
  <2>2. steps[k].role \in DOMAIN level /\ steps'[k] = steps[k]
    BY <1>1, <2>1 DEF OrderInv
  <2>3. CASE Lone(k)
    BY <1>4, <2>1, <2>2, <2>3 DEF GasInv
  <2>4. CASE k = n /\ CountsGas(i)
    BY <1>4, <1>5, <1>7, <2>2, <2>4
  <2>. QED
    BY <1>6, <1>8, <2>3, <2>4
<1>9. ASSUME NEW r \in DOMAIN level, "GAS" \in DOMAIN level'[r].opcodes PROVE \E k \in Steps' : Lone(k)'
  <2>1. CASE "GAS" \in DOMAIN level[r].opcodes
    <3>1. PICK k \in Steps : Lone(k)
      BY <2>1 DEF GasInv
    <3>. QED
      BY <1>1, <1>6, <3>1
  <2>2. CASE CountsGas(i)
    BY <1>1, <1>5, <1>6, <2>2
  <2>. QED
    BY <1>4, <1>9, <2>1, <2>2
<1>10. lastOp' = "GAS" <=> (\E m \in Steps' : m = Len(steps') /\ Op(m)' = "GAS")
  BY <1>1, <1>2
<1>11. ASSUME NEW m \in Steps', m = Len(steps'), Op(m)' = "GAS" PROVE frames' # <<>> /\ By(m, role)'
  <2>1. i.op = "GAS" /\ m = n + 1
    BY <1>1, <1>11
  <2>2. frames' # <<>>
    BY <2>1, FramesStay DEF Exits, Flushes
  <2>3. By(m, role)'
    BY <1>1, <2>1 DEF By
  <2>. QED
    BY <2>2, <2>3
<1>. QED
  BY <1>1, <1>8, <1>9, <1>10, <1>11 DEF GasInv

\* A level that opens, as those invariants see it
LEMMA EntitySeen ==
  ASSUME TypeInv, OrderInv, NEW r \in Role, CallEntity(r)
  PROVE  /\ steps' = steps /\ Steps' = Steps /\ frames = <<>> /\ role' = r
         /\ \A k : Op(k)' = Op(k) /\ \A q : By(k, q)' <=> By(k, q)
         /\ DOMAIN level' = DOMAIN level \cup {r} /\ r \notin DOMAIN level
         /\ \A x \in DOMAIN level : level'[x] = level[x]
         /\ \A k \in Steps : steps[k].role \in DOMAIN level /\ ~By(k, r)
<1>1. steps' = steps /\ frames = <<>> /\ role' = r
  BY DEF CallEntity
<1>2. /\ DOMAIN level' = DOMAIN level \cup {r} /\ r \notin DOMAIN level
      /\ \A x \in DOMAIN level : level'[x] = level[x]
  BY Opened
<1>3. \A k \in Steps : steps[k].role \in DOMAIN level
  BY DEF OrderInv
<1>. QED
  BY <1>1, <1>2, <1>3 DEF Steps, Op, By

LEMMA CountsEntity ==
  ASSUME TypeInv, OrderInv, OogInv, CountInv, GasInv, NEW r \in Role, CallEntity(r)
  PROVE  OogInv' /\ CountInv' /\ GasInv'
<1>1. /\ steps' = steps /\ Steps' = Steps /\ frames = <<>> /\ role' = r
      /\ \A k : Op(k)' = Op(k) /\ \A q : By(k, q)' <=> By(k, q)
      /\ DOMAIN level' = DOMAIN level \cup {r} /\ r \notin DOMAIN level
      /\ \A x \in DOMAIN level : level'[x] = level[x]
      /\ \A k \in Steps : steps[k].role \in DOMAIN level /\ ~By(k, r)
  BY EntitySeen
<1>2. level'[r].oog = FALSE /\ DOMAIN level'[r].opcodes \subseteq {"CALL"} /\ CountOf(level'[r].opcodes, "CREATE2") = 0
  BY Opened, OpenedCounts
<1>3. OogInv'
  <2>1. \A q \in DOMAIN level' : level'[q].oog <=> \E k \in Steps : By(k, q) /\ steps[k].oog
    BY <1>1, <1>2 DEF OogInv
  <2>. QED
    BY <1>1, <2>1 DEF OogInv
<1>4. CountInv'
  <2>1. \A k \in Steps : Op(k) \notin Unimportant \cup {"GAS"} => Op(k) \in DOMAIN level'[steps[k].role].opcodes
    BY <1>1 DEF CountInv
  <2>2. \A q \in DOMAIN level' : \A op \in DOMAIN level'[q].opcodes :
          op \in {"CALL", "GAS"} \/ \E k \in Steps : By(k, q) /\ Op(k) = op
    BY <1>1, <1>2 DEF CountInv
  <2>3. \A q \in DOMAIN level' :
          /\ CountOf(level'[q].opcodes, "CREATE2") >= 1 <=> \E k \in Steps : By(k, q) /\ Op(k) = "CREATE2"
          /\ CountOf(level'[q].opcodes, "CREATE2") >= 2 <=>
               \E j, k \in Steps : j < k /\ By(j, q) /\ By(k, q) /\ Op(j) = "CREATE2" /\ Op(k) = "CREATE2"
    <3>. TAKE q \in DOMAIN level'
    <3>1. CASE q = r
      BY <1>1, <1>2, <3>1
    <3>2. CASE q # r
      BY <1>1, <3>2 DEF CountInv
    <3>. QED
      BY <3>1, <3>2
  <2>. QED
    BY <1>1, <2>1, <2>2, <2>3 DEF CountInv
<1>5. GasInv'
  <2>1. \A k : Lone(k)' <=> Lone(k)
    BY <1>1 DEF Lone
  <2>2. ~(\E n \in Steps : n = Len(steps) /\ Op(n) = "GAS")
    BY <1>1 DEF GasInv
  <2>3. lastOp' # "GAS"
    BY DEF CallEntity
  <2>4. \A k \in Steps : Lone(k) => "GAS" \in DOMAIN level'[steps[k].role].opcodes
    BY <1>1 DEF GasInv
  <2>5. \A q \in DOMAIN level' : "GAS" \in DOMAIN level'[q].opcodes => \E k \in Steps : Lone(k)
    BY <1>1, <1>2 DEF GasInv
  <2>. QED
    BY <1>1, <2>1, <2>2, <2>3, <2>4, <2>5 DEF GasInv
<1>. QED
  BY <1>3, <1>4, <1>5

LEMMA CountsEnd ==
  ASSUME TypeInv, OogInv, CountInv, GasInv, EndTrace
  PROVE  OogInv' /\ CountInv' /\ GasInv'
<1>1. UNCHANGED <<role, level, frames, steps>> /\ lastOp' = "" /\ frames = <<>>
  BY DEF EndTrace
<1>2. \A k : Op(k)' = Op(k) /\ (\A q : By(k, q)' <=> By(k, q)) /\ (Lone(k)' <=> Lone(k))
  BY <1>1 DEF Op, By, Lone, Steps
<1>3. Steps' = Steps
  BY <1>1 DEF Steps
<1>4. GasInv'
  BY <1>1, <1>2, <1>3 DEF GasInv
<1>5. OogInv'
  BY <1>1 DEF OogInv, By, Steps
<1>6. CountInv'
  <2>1. /\ \A k \in Steps : Op(k) \notin Unimportant \cup {"GAS"} => Op(k) \in DOMAIN level'[steps'[k].role].opcodes
        /\ \A r \in DOMAIN level : \A op \in DOMAIN level'[r].opcodes :
             op \in {"CALL", "GAS"} \/ \E k \in Steps : By(k, r) /\ Op(k) = op
    BY <1>1 DEF CountInv
  <2>2. \A r \in DOMAIN level :
          /\ CountOf(level'[r].opcodes, "CREATE2") >= 1 <=> \E k \in Steps : By(k, r) /\ Op(k) = "CREATE2"
          /\ CountOf(level'[r].opcodes, "CREATE2") >= 2 <=>
               \E j, k \in Steps : j < k /\ By(j, r) /\ By(k, r) /\ Op(j) = "CREATE2" /\ Op(k) = "CREATE2"
    BY <1>1 DEF CountInv
  <2>3. DOMAIN level' = DOMAIN level
    BY <1>1
  <2>4. \A k : Op(k)' = Op(k) /\ \A q : By(k, q)' <=> By(k, q)
    BY <1>2
  <2>5. \A r \in DOMAIN level :
          /\ CountOf(level'[r].opcodes, "CREATE2") >= 1 <=> \E k \in Steps : By(k, r)' /\ Op(k)' = "CREATE2"
          /\ CountOf(level'[r].opcodes, "CREATE2") >= 2 <=>
               \E j, k \in Steps : j < k /\ By(j, r)' /\ By(k, r)' /\ Op(j)' = "CREATE2" /\ Op(k)' = "CREATE2"
    BY <2>2, <2>4, Zenon
  <2>6. /\ \A k \in Steps : Op(k)' \notin Unimportant \cup {"GAS"} => Op(k)' \in DOMAIN level'[steps'[k].role].opcodes
        /\ \A r \in DOMAIN level : \A op \in DOMAIN level'[r].opcodes :
             op \in {"CALL", "GAS"} \/ \E k \in Steps : By(k, r)' /\ Op(k)' = op
    BY <2>1, <2>4
  <2>. QED
    BY <1>3, <2>3, <2>5, <2>6 DEF CountInv
<1>. QED
  BY <1>4, <1>5, <1>6

-----------------------------------------------------------------------------
(* Addresses whose code was looked at, and hashed blocks                   *)

To(k) == steps[k].i.to
Met(k, r, a) == By(k, r) /\ Meets(k) /\ To(k) = a
WithCode(k, r, a) == \E j \in Steps : j <= k /\ Met(j, r, a) /\ steps[j].hasCode

EmptyInv ==
  /\ \A r \in DOMAIN level : \A a \in level[r].empty :
       a \notin Precompile /\ \E k \in Steps : Met(k, r, a) /\ ~WithCode(k, r, a)
  /\ \A r \in DOMAIN level : \A a : a \notin Precompile =>
       (a \in level[r].seen <=> (r = "factory" /\ a = Factory) \/ \E k \in Steps : Met(k, r, a))
  /\ \A k \in Steps, r \in DOMAIN level : \A a : Met(k, r, a) /\ a \notin Precompile =>
       a \in level[r].empty \/ WithCode(k, r, a)

KeccakInv == \A a : a \in keccak <=> \E k \in Steps : Op(k) = "KECCAK256" /\ steps[k].i.owner = a

LEMMA KeccakStep ==
  ASSUME TypeInv, OrderInv, KeccakInv, NEW i \in Ran, NEW oog \in BOOLEAN, Step(i, oog)
  PROVE  KeccakInv'
<1>0. PICK n \in Nat : Seen(n, i, oog)
  BY StepSeen
<1>1. /\ \A k : k \in Steps' <=> (k \in Steps \/ k = n + 1)
      /\ \A k \in Steps : steps'[k] = steps[k] /\ Op(k)' = Op(k)
      /\ Op(n + 1)' = i.op /\ steps'[n + 1].i = i
  BY <1>0 DEF Seen
<1>2. keccak' = IF i.op = "KECCAK256" THEN keccak \cup {i.owner} ELSE keccak
  BY DEF Step, Runs, Collect
<1>3. ASSUME NEW a PROVE a \in keccak' <=> \E k \in Steps' : Op(k)' = "KECCAK256" /\ steps'[k].i.owner = a
  <2>1. a \in keccak' <=> (a \in keccak \/ (i.op = "KECCAK256" /\ i.owner = a))
    BY <1>2
  <2>. QED
    BY <1>1, <2>1 DEF KeccakInv
<1>. QED
  BY <1>3 DEF KeccakInv

LEMMA EmptyStep ==
  ASSUME TypeInv, OrderInv, EmptyInv, NEW i \in Ran, NEW oog \in BOOLEAN, Step(i, oog)
  PROVE  EmptyInv'
<1>0. PICK n \in Nat : Seen(n, i, oog)
  BY StepSeen
<1>1. /\ \A k : k \in Steps' <=> (k \in Steps \/ k = n + 1)
      /\ \A k \in Steps : k < n + 1 /\ k \in Nat \ {0} /\ steps'[k] = steps[k]
      /\ steps'[n + 1].role = role /\ steps'[n + 1].i = i
      /\ DOMAIN level' = DOMAIN level /\ role \in DOMAIN level
      /\ \A r \in DOMAIN level : r # role => level'[r] = level[r]
  BY <1>0 DEF Seen
<1>. DEFINE met == IF i.op \in ExtOps \cup CallOps THEN {i.to} \ Precompile ELSE {}
            l == level[role]
<1>2. /\ level'[role].seen \ Precompile = (l.seen \ Precompile) \cup met
      /\ level'[role].empty = l.empty \cup ((met \ l.seen) \ code)
  <2>1. /\ level'[role].seen = l.seen \cup FirstMet(l, i)
        /\ level'[role].empty = l.empty \cup (FirstMet(l, i) \ code)
    BY FrameTypes, Collected DEF Step, Runs
  <2>2. FirstMet(l, i) = met \ l.seen
    BY DEF FirstMet
  <2>3. \A a \in met : a \notin Precompile
    OBVIOUS
  <2>. HIDE DEF met, l
  <2>. QED
    BY <2>1, <2>2, <2>3
<1>3. steps'[n + 1].hasCode = (i.to \in code)
  BY <1>0, StepAdded DEF Seen
<1>4. \A k \in Steps : \A r, a : Met(k, r, a)' <=> Met(k, r, a)
  BY <1>1 DEF Met, By, Meets, To
<1>5. \A r, a : Met(n + 1, r, a)' <=> (r = role /\ i.op \in CallOps \cup ExtOps /\ a = i.to)
  BY <1>1 DEF Met, By, Meets, To
<1>6. \A a : a \in met <=> (i.op \in CallOps \cup ExtOps /\ a = i.to /\ a \notin Precompile)
  OBVIOUS
<1>. HIDE DEF met, l
<1>7. \A k \in Steps : \A r, a : WithCode(k, r, a)' <=> WithCode(k, r, a)
  <2>. TAKE k \in Steps
  <2>. TAKE r, a
  <2>1. ASSUME WithCode(k, r, a)' PROVE WithCode(k, r, a)
    <3>1. PICK j \in Steps' : j <= k /\ Met(j, r, a)' /\ steps'[j].hasCode
      BY <2>1 DEF WithCode
    <3>2. j \in Steps
      <4>1. k < n + 1 /\ k \in Nat
        BY <1>1
      <4>2. j # n + 1
        BY <3>1, <4>1
      <4>. QED
        BY <1>1, <4>2
    <3>. QED
      BY <1>1, <1>4, <3>1, <3>2 DEF WithCode
  <2>2. ASSUME WithCode(k, r, a) PROVE WithCode(k, r, a)'
    <3>1. PICK j \in Steps : j <= k /\ Met(j, r, a) /\ steps[j].hasCode
      BY <2>2 DEF WithCode
    <3>2. j \in Steps' /\ Met(j, r, a)' /\ steps'[j].hasCode
      BY <1>1, <1>4, <3>1
    <3>. QED
      BY <3>1, <3>2 DEF WithCode
  <2>. QED
    BY <2>1, <2>2
<1>8. \A r, a : WithCode(n + 1, r, a)' <=>
        ((\E k \in Steps : Met(k, r, a) /\ steps[k].hasCode)
          \/ (r = role /\ i.op \in CallOps \cup ExtOps /\ a = i.to /\ i.to \in code))
  <2>. TAKE r, a
  <2>1. WithCode(n + 1, r, a)' <=> \E j \in Steps' : j <= n + 1 /\ Met(j, r, a)' /\ steps'[j].hasCode
    BY DEF WithCode
  <2>2. \A j \in Steps' : j <= n + 1
    BY <1>1
  <2>3. WithCode(n + 1, r, a)' <=> ((\E k \in Steps : Met(k, r, a)' /\ steps'[k].hasCode)
                                      \/ (Met(n + 1, r, a)' /\ steps'[n + 1].hasCode))
    BY <1>1, <2>1, <2>2
  <2>. QED
    BY <1>1, <1>3, <1>4, <1>5, <2>3
<1>9. ASSUME NEW r \in DOMAIN level, NEW a \in level'[r].empty
      PROVE  a \notin Precompile /\ \E k \in Steps' : Met(k, r, a)' /\ ~WithCode(k, r, a)'
  <2>1. CASE a \in level[r].empty
    <3>1. a \notin Precompile
      BY <2>1 DEF EmptyInv
    <3>2. PICK k \in Steps : Met(k, r, a) /\ ~WithCode(k, r, a)
      BY <2>1 DEF EmptyInv
    <3>3. Met(k, r, a)' /\ ~WithCode(k, r, a)' /\ k \in Steps'
      BY <1>1, <1>4, <1>7, <3>2
    <3>. QED
      BY <3>1, <3>3
  <2>2. CASE a \notin level[r].empty
    <3>1. r = role /\ a \in met /\ a \notin l.seen /\ a \notin code
      BY <1>1, <1>2, <2>2 DEF l
    <3>2. Met(n + 1, r, a)' /\ n + 1 \in Steps' /\ a \notin Precompile
      BY <1>1, <1>5, <1>6, <3>1
    <3>3. ~\E k \in Steps : Met(k, r, a)
      BY <3>1, <3>2 DEF EmptyInv, l
    <3>4. ~WithCode(n + 1, r, a)'
      BY <1>6, <1>8, <3>1, <3>3
    <3>. QED
      BY <3>2, <3>4
  <2>. QED
    BY <2>1, <2>2
<1>10. ASSUME NEW r \in DOMAIN level, NEW a, a \notin Precompile
       PROVE  a \in level'[r].seen <=> (r = "factory" /\ a = Factory) \/ \E k \in Steps' : Met(k, r, a)'
  <2>1. a \in level[r].seen <=> (r = "factory" /\ a = Factory) \/ \E k \in Steps : Met(k, r, a)
    BY <1>10 DEF EmptyInv
  <2>2. a \in level'[r].seen <=> (a \in level[r].seen \/ (r = role /\ a \in met))
    <3>1. CASE r = role
      BY <1>2, <1>10, <3>1 DEF l
    <3>2. CASE r # role
      BY <1>1, <3>2
    <3>. QED
      BY <3>1, <3>2
  <2>3. (\E k \in Steps' : Met(k, r, a)') <=> ((\E k \in Steps : Met(k, r, a)) \/ (r = role /\ a \in met))
    BY <1>1, <1>4, <1>5, <1>6, <1>10
  <2>. QED
    BY <2>1, <2>2, <2>3
<1>11. ASSUME NEW k \in Steps', NEW r \in DOMAIN level, NEW a, Met(k, r, a)', a \notin Precompile
       PROVE  a \in level'[r].empty \/ WithCode(k, r, a)'
  <2>1. CASE k \in Steps
    <3>1. a \in level[r].empty \/ WithCode(k, r, a)
      BY <1>4, <1>11, <2>1 DEF EmptyInv
    <3>2. level[r].empty \subseteq level'[r].empty
      BY <1>1, <1>2 DEF l
    <3>. QED
      BY <1>7, <2>1, <3>1, <3>2
  <2>2. CASE k = n + 1
    <3>1. r = role /\ i.op \in CallOps \cup ExtOps /\ a = i.to
      BY <1>5, <1>11, <2>2
    <3>2. CASE a \in code
      BY <1>8, <2>2, <3>1, <3>2
    <3>3. CASE a \notin code /\ a \notin level[r].seen
      <4>1. a \in met
        BY <1>6, <1>11, <3>1
      <4>. QED
        BY <1>2, <3>1, <3>3, <4>1 DEF l
    <3>4. CASE a \notin code /\ a \in level[r].seen
      <4>1. a # Factory
        BY <3>4 DEF TypeInv, HaveCode
      <4>2. PICK j \in Steps : Met(j, r, a)
        BY <1>11, <3>4, <4>1 DEF EmptyInv
      <4>3. a \in level[r].empty \/ WithCode(j, r, a)
        BY <1>11, <4>2 DEF EmptyInv
      <4>4. WithCode(j, r, a) => \E m \in Steps : Met(m, r, a) /\ steps[m].hasCode
        BY DEF WithCode
      <4>5. level[r].empty \subseteq level'[r].empty
        BY <1>1, <1>2 DEF l
      <4>. QED
        BY <1>8, <2>2, <4>3, <4>4, <4>5
    <3>. QED
      BY <3>2, <3>3, <3>4
  <2>. QED
    BY <1>1, <2>1, <2>2
<1>. QED
  BY <1>1, <1>9, <1>10, <1>11 DEF EmptyInv

LEMMA EmptyEntity ==
  ASSUME TypeInv, OrderInv, EmptyInv, KeccakInv, NEW r \in Role, CallEntity(r)
  PROVE  EmptyInv' /\ KeccakInv'
<1>1. /\ steps' = steps /\ Steps' = Steps
      /\ DOMAIN level' = DOMAIN level \cup {r} /\ r \notin DOMAIN level
      /\ \A x \in DOMAIN level : level'[x] = level[x]
      /\ \A k \in Steps : ~By(k, r)
  BY EntitySeen
<1>2. level'[r].empty = {} /\ level'[r].seen = IF r = "factory" THEN {Factory} ELSE {}
  BY Opened
<1>3. \A k, q, a : (Met(k, q, a)' <=> Met(k, q, a)) /\ (WithCode(k, q, a)' <=> WithCode(k, q, a))
  BY <1>1 DEF Met, By, Meets, To, WithCode
<1>4. \A k \in Steps : \A a : ~Met(k, r, a)
  BY <1>1 DEF Met
<1>5. keccak' = keccak
  BY DEF CallEntity
<1>6. KeccakInv'
  BY <1>1, <1>5 DEF KeccakInv, Op
<1>7. \A q \in DOMAIN level' : \A a \in level'[q].empty :
        a \notin Precompile /\ \E k \in Steps : Met(k, q, a) /\ ~WithCode(k, q, a)
  BY <1>1, <1>2 DEF EmptyInv
<1>8. \A q \in DOMAIN level' : \A a : a \notin Precompile =>
        (a \in level'[q].seen <=> (q = "factory" /\ a = Factory) \/ \E k \in Steps : Met(k, q, a))
  <2>. TAKE q \in DOMAIN level'
  <2>1. CASE q = r
    BY <1>2, <1>4, <2>1
  <2>2. CASE q # r
    BY <1>1, <2>2 DEF EmptyInv
  <2>. QED
    BY <2>1, <2>2
<1>9. \A k \in Steps, q \in DOMAIN level' : \A a : Met(k, q, a) /\ a \notin Precompile =>
        a \in level'[q].empty \/ WithCode(k, q, a)
  <2>. TAKE k \in Steps, q \in DOMAIN level'
  <2>. TAKE a
  <2>1. CASE q = r
    BY <1>4, <2>1
  <2>2. CASE q # r
    BY <1>1, <2>2 DEF EmptyInv
  <2>. QED
    BY <2>1, <2>2
<1>. QED
  BY <1>1, <1>3, <1>6, <1>7, <1>8, <1>9 DEF EmptyInv

LEMMA EmptyEnd ==
  ASSUME EmptyInv, KeccakInv, EndTrace
  PROVE  EmptyInv' /\ KeccakInv'
<1>1. UNCHANGED <<level, keccak, steps>>
  BY DEF EndTrace
<1>2. EmptyInv'
  BY <1>1 DEF EmptyInv, Steps, Met, WithCode, By, Meets, To
<1>3. KeccakInv'
  BY <1>1 DEF KeccakInv, Steps, Op
<1>. QED
  BY <1>2, <1>3

-----------------------------------------------------------------------------
(* The opcodes before, and the contracts that were looked at               *)

LEMMA ExtCases ==
  ASSUME NEW s \in Seq(OpRec), Len(s) <= 3, NEW i \in Ran, NEW a
  PROVE  a \in ExtAccess(Window(s, i)) <=>
           /\ i.op \notin Flushes /\ s # <<>> /\ Last(s).op \in ExtOps /\ Last(s).to = a
           /\ Len(s) # 1 => ~(Last(s).op = "EXTCODESIZE" /\ i.op = "ISZERO")
<1>. DEFINE w == Window(s, i)
            x == [op |-> i.op, to |-> i.to]
<1>1. PICK n \in Nat : Len(s) = n /\ n <= 3 /\ (s # <<>> <=> n # 0)
  OBVIOUS
<1>2. /\ i.op \in Flushes => w = <<>>
      /\ i.op \notin Flushes =>
              /\ w # <<>> /\ Last(w) = x
              /\ Len(w) = IF Len(s) = 3 THEN 3 ELSE Len(s) + 1
              /\ s # <<>> => w[Len(w) - 1] = Last(s)
  BY WindowTypes
<1>. HIDE DEF w
<1>3. CASE i.op \in Flushes
  <2>1. Len(w) = 0
    BY <1>2, <1>3
  <2>2. ExtAccess(w) = {}
    BY <2>1 DEF ExtAccess
  <2>. QED
    BY <1>3, <2>2 DEF w
<1>4. CASE i.op \notin Flushes /\ n = 0
  <2>1. PICK m \in Nat : Len(w) = m /\ m = 1
    <3>1. Len(w) = IF n = 3 THEN 3 ELSE n + 1
      BY <1>1, <1>2, <1>4
    <3>2. Len(w) = n + 1 /\ n + 1 = 1
      BY <1>4, <3>1
    <3>. QED
      BY <3>2
  <2>2. ExtAccess(w) = {}
    BY <2>1 DEF ExtAccess
  <2>. QED
    BY <1>1, <1>4, <2>2 DEF w
<1>5. CASE i.op \notin Flushes /\ n # 0
  <2>1. PICK m \in Nat : Len(w) = m /\ m >= 2 /\ (m = 3 <=> n # 1)
    <3>1. Len(w) = IF n = 3 THEN 3 ELSE n + 1
      BY <1>1, <1>2, <1>5
    <3>2. CASE n = 3
      BY <3>1, <3>2
    <3>3. CASE n = 2
      BY <3>1, <3>3
    <3>4. CASE n = 1
      BY <3>1, <3>4
    <3>. QED
      BY <1>1, <1>5, <3>2, <3>3, <3>4
  <2>2. s # <<>> /\ w[m - 1] = Last(s) /\ w[m] = x
    BY <1>1, <1>2, <1>5, <2>1 DEF Last
  <2>3. x.op = i.op
    OBVIOUS
  <2>. HIDE DEF x
  <2>4. a \in ExtAccess(w) <=>
          /\ w[m - 1].op \in ExtOps /\ ~(m = 3 /\ w[2].op = "EXTCODESIZE" /\ w[3].op = "ISZERO")
          /\ a = w[m - 1].to
    BY <2>1 DEF ExtAccess
  <2>5. m = 3 => w[2] = Last(s) /\ w[3] = x
    BY <2>2
  <2>6. Len(s) # 1 <=> n # 1
    BY <1>1
  <2>. QED
    BY <1>5, <2>1, <2>2, <2>3, <2>4, <2>5, <2>6 DEF w
<1>. QED
  BY <1>3, <1>4, <1>5

Newest(k) == k = Len(steps)
Shown(k) == [op |-> Op(k), to |-> To(k)]

WindowInv ==
  /\ frames # <<>> /\ lastThree = <<>> => \E k \in Steps : Newest(k) /\ Op(k) \in Flushes
  /\ frames # <<>> /\ lastThree # <<>> /\ Last(lastThree).op \in ExtOps =>
       \E k \in Steps : /\ Newest(k) /\ Last(lastThree) = Shown(k)
                        /\ Len(lastThree) = 1 => Before(k) \in Flushes
  /\ \A k \in Steps : Newest(k) /\ Op(k) \in ExtOps =>
       frames # <<>> /\ By(k, role) /\ lastThree # <<>> /\ Last(lastThree) = Shown(k)

SizeThenZero(k) == Op(k) = "EXTCODESIZE" /\ Op(k + 1) = "ISZERO"
ExtInv ==
  /\ \A r \in DOMAIN level : EntryPoint \in level[r].ext =>
       \E k \in Steps : k + 1 \in Steps /\ Looks(k) /\ (SizeThenZero(k) => Before(k) \in Flushes)
  /\ \A k \in Steps : k + 1 \in Steps /\ Looks(k) =>
       SizeThenZero(k) \/ Op(k + 1) \in Flushes \/ EntryPoint \in level[steps[k].role].ext

LEMMA LookSeen ==
  ASSUME TypeInv, OrderInv, NEW i \in Ran, NEW oog \in BOOLEAN, Step(i, oog), NEW n \in Nat, Seen(n, i, oog)
  PROVE  /\ \A k \in Steps : /\ To(k)' = To(k) /\ Looks(k)' = Looks(k) /\ Before(k)' = Before(k) /\ Shown(k)' = Shown(k)
                             /\ k + 1 \in Steps => SizeThenZero(k)' = SizeThenZero(k) /\ Op(k + 1)' = Op(k + 1)
                             /\ k + 1 \in Steps' => (k + 1 \in Steps \/ k = n)
                             /\ Newest(k) <=> k = n
         /\ To(n + 1)' = i.to /\ Shown(n + 1)' = [op |-> i.op, to |-> i.to]
         /\ n \in Steps => Before(n + 1)' = Op(n) /\ SizeThenZero(n)' = (Op(n) = "EXTCODESIZE" /\ i.op = "ISZERO")
         /\ \A k \in Steps' : Newest(k)' <=> k = n + 1
         /\ n + 2 \notin Steps'
<1>1. /\ n = Len(steps) /\ Len(steps') = n + 1
      /\ \A k : k \in Steps' <=> (k \in Steps \/ k = n + 1)
      /\ \A k \in Steps : k < n + 1 /\ k \in Nat \ {0} /\ steps'[k] = steps[k] /\ Op(k)' = Op(k)
      /\ Op(n + 1)' = i.op /\ steps'[n + 1].i = i
  BY DEF Seen
<1>2. ASSUME NEW k \in Steps
      PROVE  /\ To(k)' = To(k) /\ Looks(k)' = Looks(k) /\ Shown(k)' = Shown(k)
             /\ k + 1 \in Steps => SizeThenZero(k)' = SizeThenZero(k) /\ Op(k + 1)' = Op(k + 1)
             /\ k + 1 \in Steps' => (k + 1 \in Steps \/ k = n)
             /\ Newest(k) <=> k = n
  <2>1. To(k)' = To(k) /\ Looks(k)' = Looks(k)
    BY <1>1 DEF To, Looks
  <2>2. Shown(k)' = Shown(k)
    BY <1>1, <2>1 DEF Shown
  <2>3. k + 1 \in Steps => SizeThenZero(k)' = SizeThenZero(k) /\ Op(k + 1)' = Op(k + 1)
    BY <1>1 DEF SizeThenZero
  <2>4. k + 1 \in Steps' => (k + 1 \in Steps \/ k = n)
    BY <1>1
  <2>. QED
    BY <1>1, <2>1, <2>2, <2>3, <2>4 DEF Newest
<1>3. ASSUME NEW k \in Steps PROVE Before(k)' = Before(k)
  <2>1. CASE k = 1
    BY <2>1 DEF Before
  <2>2. CASE k # 1
    <3>1. k - 1 \in Steps
      BY <1>1, <2>2 DEF Steps
    <3>2. steps'[k - 1] = steps[k - 1]
      BY <1>1, <3>1
    <3>. QED
      BY <2>2, <3>2 DEF Before
  <2>. QED
    BY <2>1, <2>2
<1>4. To(n + 1)' = i.to /\ Shown(n + 1)' = [op |-> i.op, to |-> i.to]
  <2>1. To(n + 1)' = i.to
    BY <1>1 DEF To
  <2>. QED
    BY <1>1, <2>1 DEF Shown
<1>5. n \in Steps => Before(n + 1)' = Op(n) /\ SizeThenZero(n)' = (Op(n) = "EXTCODESIZE" /\ i.op = "ISZERO")
  <2>. SUFFICES ASSUME n \in Steps PROVE Before(n + 1)' = Op(n) /\ SizeThenZero(n)' = (Op(n) = "EXTCODESIZE" /\ i.op = "ISZERO")
    OBVIOUS
  <2>1. n + 1 # 1 /\ (n + 1) - 1 = n /\ steps'[n] = steps[n]
    BY <1>1
  <2>2. Before(n + 1)' = steps'[n].i.op
    BY <2>1 DEF Before
  <2>. QED
    BY <1>1, <2>1, <2>2 DEF SizeThenZero, Op
<1>6. \A k \in Steps' : Newest(k)' <=> k = n + 1
  BY <1>1 DEF Newest
<1>7. n + 2 \notin Steps'
  <2>1. n + 2 # n + 1 /\ ~(n + 2 < n + 1)
    OBVIOUS
  <2>. QED
    BY <1>1, <2>1
<1>. QED
  BY <1>2, <1>3, <1>4, <1>5, <1>6, <1>7

LEMMA WindowStep ==
  ASSUME TypeInv, OrderInv, WindowInv, NEW i \in Ran, NEW oog \in BOOLEAN, Step(i, oog)
  PROVE  WindowInv'
<1>0. PICK n \in Nat : Seen(n, i, oog)
  BY StepSeen
<1>1. /\ n = Len(steps) /\ n + 1 \in Steps' /\ \A k : k \in Steps' <=> (k \in Steps \/ k = n + 1)
      /\ Op(n + 1)' = i.op /\ (\A r : By(n + 1, r)' <=> r = role) /\ role' = role
  BY <1>0 DEF Seen
<1>2. /\ \A k \in Steps : Newest(k) <=> k = n
      /\ Shown(n + 1)' = [op |-> i.op, to |-> i.to]
      /\ n \in Steps => Before(n + 1)' = Op(n)
      /\ \A k \in Steps' : Newest(k)' <=> k = n + 1
  BY <1>0, LookSeen
<1>. PICK s : s = lastThree
  OBVIOUS
<1>. PICK w : w = Window(s, i)
  OBVIOUS
<1>3. /\ s \in Seq(OpRec) /\ Len(s) <= 3 /\ frames # <<>> /\ lastThree' = w
  BY FrameTypes, Collected DEF TypeInv, TracerTypeOK, Step, Runs
<1>4. /\ i.op \in Flushes => w = <<>>
      /\ i.op \notin Flushes =>
              /\ w # <<>> /\ Last(w) = [op |-> i.op, to |-> i.to]
              /\ Len(w) = IF Len(s) = 3 THEN 3 ELSE Len(s) + 1
  BY <1>3, WindowTypes
<1>5. frames' # <<>> /\ lastThree' = <<>> => \E k \in Steps' : Newest(k)' /\ Op(k)' \in Flushes
  BY <1>1, <1>2, <1>3, <1>4
<1>6. ASSUME frames' # <<>>, lastThree' # <<>>, Last(lastThree').op \in ExtOps
      PROVE  \E k \in Steps' : /\ Newest(k)' /\ Last(lastThree') = Shown(k)'
                               /\ Len(lastThree') = 1 => Before(k)' \in Flushes
  <2>1. i.op \notin Flushes /\ Last(w) = Shown(n + 1)'
    BY <1>2, <1>3, <1>4, <1>6
  <2>2. ASSUME Len(w) = 1 PROVE Before(n + 1)' \in Flushes
    <3>1. s = <<>>
      <4>1. PICK m \in Nat : Len(s) = m /\ (m = 0 => s = <<>>)
        BY <1>3
      <4>2. Len(w) = IF m = 3 THEN 3 ELSE m + 1
        BY <1>4, <2>1, <4>1
      <4>3. m = 0
        BY <2>2, <4>2
      <4>. QED
        BY <4>1, <4>3
    <3>2. PICK k \in Steps : Newest(k) /\ Op(k) \in Flushes
      BY <1>3, <3>1 DEF WindowInv
    <3>. QED
      BY <1>2, <3>2
  <2>. QED
    BY <1>1, <1>2, <1>3, <2>1, <2>2
<1>7. ASSUME NEW k \in Steps', Newest(k)', Op(k)' \in ExtOps
      PROVE  frames' # <<>> /\ By(k, role)' /\ lastThree' # <<>> /\ Last(lastThree') = Shown(k)'
  <2>1. k = n + 1 /\ i.op \in ExtOps
    BY <1>1, <1>2, <1>7
  <2>2. i.op \notin Exits /\ i.op \notin Flushes
    BY <2>1 DEF Exits, Flushes, ExtOps
  <2>3. frames' # <<>>
    BY <2>2, FramesStay
  <2>4. By(k, role)'
    <3>1. By(n + 1, role)' <=> steps'[n + 1].role = role'
      BY DEF By
    <3>. QED
      BY <1>0, <1>1, <2>1, <3>1 DEF Seen, By
  <2>. QED
    BY <1>2, <1>3, <1>4, <2>1, <2>2, <2>3, <2>4
<1>. QED
  BY <1>5, <1>6, <1>7 DEF WindowInv

LEMMA ExtStep ==
  ASSUME TypeInv, OrderInv, WindowInv, ExtInv, NEW i \in Ran, NEW oog \in BOOLEAN, Step(i, oog)
  PROVE  ExtInv'
<1>0. PICK n \in Nat : Seen(n, i, oog)
  BY StepSeen
<1>1. /\ n + 1 \in Steps' /\ \A k : k \in Steps' <=> (k \in Steps \/ k = n + 1)
      /\ Op(n + 1)' = i.op /\ DOMAIN level' = DOMAIN level /\ role \in DOMAIN level
      /\ \A k \in Steps : steps'[k] = steps[k] /\ k \in Nat \ {0}
      /\ \A r \in DOMAIN level : r # role => level'[r] = level[r]
      /\ \A k \in Steps : steps[k].role \in DOMAIN level
  BY <1>0 DEF Seen
<1>2. /\ \A k \in Steps : /\ Looks(k)' = Looks(k) /\ Before(k)' = Before(k)
                          /\ k + 1 \in Steps => SizeThenZero(k)' = SizeThenZero(k) /\ Op(k + 1)' = Op(k + 1)
                          /\ k + 1 \in Steps' => (k + 1 \in Steps \/ k = n)
                          /\ Newest(k) <=> k = n
      /\ n \in Steps => SizeThenZero(n)' = (Op(n) = "EXTCODESIZE" /\ i.op = "ISZERO")
      /\ n + 2 \notin Steps'
  <2>1. ASSUME NEW k \in Steps
        PROVE  /\ Looks(k)' = Looks(k) /\ Before(k)' = Before(k)
               /\ k + 1 \in Steps => SizeThenZero(k)' = SizeThenZero(k) /\ Op(k + 1)' = Op(k + 1)
               /\ k + 1 \in Steps' => (k + 1 \in Steps \/ k = n)
               /\ Newest(k) <=> k = n
    BY <1>0, LookSeen, ZenonT(30)
  <2>2. n \in Steps => SizeThenZero(n)' = (Op(n) = "EXTCODESIZE" /\ i.op = "ISZERO")
    BY <1>0, LookSeen
  <2>3. n + 2 \notin Steps'
    BY <1>0, LookSeen
  <2>. QED
    BY <2>1, <2>2, <2>3
<1>3. /\ lastThree \in Seq(OpRec) /\ Len(lastThree) <= 3 /\ frames # <<>>
      /\ level'[role].ext = level[role].ext \cup ExtAccess(Window(lastThree, i))
  <2>1. level'[role].ext = level[role].ext \cup ExtAccess(lastThree') /\ lastThree' = Window(lastThree, i)
    BY FrameTypes, Collected DEF Step, Runs
  <2>. QED
    BY <2>1 DEF TypeInv, TracerTypeOK, Step, Runs
<1>. DEFINE s == lastThree
            found == EntryPoint \in ExtAccess(Window(s, i))
<1>4. found <=>
        /\ i.op \notin Flushes /\ s # <<>> /\ Last(s).op \in ExtOps /\ Last(s).to = EntryPoint
        /\ Len(s) # 1 => ~(Last(s).op = "EXTCODESIZE" /\ i.op = "ISZERO")
  BY <1>3, ExtCases
<1>5. \A k \in Steps : Looks(k) <=> (Op(k) \in ExtOps /\ To(k) = EntryPoint)
  BY DEF Looks, Op, To
<1>6. \A r \in DOMAIN level : EntryPoint \in level'[r].ext <=> (EntryPoint \in level[r].ext \/ (r = role /\ found))
  <2>. TAKE r \in DOMAIN level
  <2>. HIDE DEF found
  <2>1. EntryPoint \in level'[role].ext <=> (EntryPoint \in level[role].ext \/ found)
    BY <1>3 DEF found
  <2>. QED
    BY <1>1, <2>1
<1>. HIDE DEF found
<1>7. ASSUME NEW r \in DOMAIN level, EntryPoint \in level'[r].ext
      PROVE  \E k \in Steps' : k + 1 \in Steps' /\ Looks(k)' /\ (SizeThenZero(k)' => Before(k)' \in Flushes)
  <2>1. CASE EntryPoint \in level[r].ext
    <3>1. PICK k \in Steps : k + 1 \in Steps /\ Looks(k) /\ (SizeThenZero(k) => Before(k) \in Flushes)
      BY <2>1 DEF ExtInv
    <3>2. k \in Steps' /\ k + 1 \in Steps'
      BY <1>1, <3>1
    <3>. QED
      BY <1>2, <3>1, <3>2
  <2>2. CASE found
    <3>1. PICK k \in Steps : /\ Newest(k) /\ Last(s) = Shown(k)
                             /\ Len(s) = 1 => Before(k) \in Flushes
      BY <1>3, <1>4, <2>2 DEF WindowInv
    <3>2. k = n /\ Last(s).op = Op(k) /\ Last(s).to = To(k)
      BY <1>2, <3>1 DEF Shown
    <3>3. Looks(k)' /\ k \in Steps' /\ k + 1 \in Steps'
      BY <1>1, <1>2, <1>4, <1>5, <2>2, <3>2
    <3>4. SizeThenZero(k)' => Len(s) = 1
      BY <1>2, <1>4, <2>2, <3>2
    <3>5. SizeThenZero(k)' => Before(k)' \in Flushes
      BY <1>2, <3>1, <3>4
    <3>. QED
      BY <3>3, <3>5
  <2>. QED
    BY <1>6, <1>7, <2>1, <2>2
<1>8. ASSUME NEW k \in Steps', k + 1 \in Steps', Looks(k)'
      PROVE  SizeThenZero(k)' \/ Op(k + 1)' \in Flushes \/ EntryPoint \in level'[steps'[k].role].ext
  <2>0. k \in Steps
    <3>1. k = n + 1 => k + 1 = n + 2
      OBVIOUS
    <3>. QED
      BY <1>1, <1>2, <1>8, <3>1
  <2>1. CASE k + 1 \in Steps
    <3>1. SizeThenZero(k) \/ Op(k + 1) \in Flushes \/ EntryPoint \in level[steps[k].role].ext
      BY <1>2, <1>8, <2>0, <2>1 DEF ExtInv
    <3>. QED
      BY <1>1, <1>2, <1>6, <2>0, <2>1, <3>1
  <2>2. CASE k = n
    <3>1. Op(k) \in ExtOps /\ To(k) = EntryPoint /\ Newest(k)
      BY <1>2, <1>5, <1>8, <2>0, <2>2
    <3>2. By(k, role) /\ s # <<>> /\ Last(s) = Shown(k)
      BY <2>0, <3>1 DEF WindowInv
    <3>3. Last(s).op = Op(k) /\ Last(s).to = To(k) /\ steps'[k].role = role
      BY <1>1, <2>0, <3>2 DEF Shown, By
    <3>4. found \/ i.op \in Flushes \/ SizeThenZero(k)'
      BY <1>2, <1>4, <2>0, <2>2, <3>1, <3>2, <3>3
    <3>. QED
      BY <1>1, <1>6, <2>2, <3>3, <3>4
  <2>. QED
    BY <1>2, <1>8, <2>0, <2>1, <2>2
<1>. QED
  BY <1>1, <1>7, <1>8 DEF ExtInv

LEMMA WindowEntity ==
  ASSUME TypeInv, OrderInv, WindowInv, ExtInv, NEW r \in Role, CallEntity(r)
  PROVE  WindowInv' /\ ExtInv'
<1>1. /\ steps' = steps /\ Steps' = Steps /\ frames = <<>>
      /\ DOMAIN level' = DOMAIN level \cup {r} /\ r \notin DOMAIN level
      /\ \A x \in DOMAIN level : level'[x] = level[x]
      /\ \A k : Op(k)' = Op(k)
      /\ \A k \in Steps : steps[k].role \in DOMAIN level
  BY EntitySeen
<1>2. level'[r].ext = {}
  BY Opened
<1>3. \A k : Looks(k)' = Looks(k) /\ SizeThenZero(k)' = SizeThenZero(k) /\ Before(k)' = Before(k) /\ Newest(k)' = Newest(k)
  BY <1>1 DEF Looks, SizeThenZero, Before, Newest
<1>4. \A k \in Steps : ~(Newest(k) /\ Op(k) \in ExtOps)
  BY <1>1 DEF WindowInv
<1>5. lastThree' # <<>> /\ Last(lastThree').op = "CALL"
  <2>1. \E x : lastThree' = <<x>> /\ x.op = "CALL"
    <3>1. lastThree' = <<[op |-> "CALL", to |-> Factory]>> \/ lastThree' = <<[op |-> "CALL", to |-> Target[r]]>>
      BY DEF CallEntity
    <3>. QED
      BY <3>1
  <2>2. PICK x : lastThree' = <<x>> /\ x.op = "CALL"
    BY <2>1
  <2>3. Last(<<x>>) = x /\ <<x>> # <<>>
    BY DEF Last
  <2>. QED
    BY <2>2, <2>3
<1>6. WindowInv'
  <2>1. "CALL" \notin ExtOps
    BY DEF ExtOps
  <2>. QED
    BY <1>1, <1>3, <1>4, <1>5, <2>1 DEF WindowInv
<1>7. ExtInv'
  <2>1. \A q \in DOMAIN level' : EntryPoint \in level'[q].ext =>
          \E k \in Steps : k + 1 \in Steps /\ Looks(k) /\ (SizeThenZero(k) => Before(k) \in Flushes)
    BY <1>1, <1>2 DEF ExtInv
  <2>2. \A k \in Steps : k + 1 \in Steps /\ Looks(k) =>
          SizeThenZero(k) \/ Op(k + 1) \in Flushes \/ EntryPoint \in level'[steps[k].role].ext
    BY <1>1 DEF ExtInv
  <2>. QED
    BY <1>1, <1>3, <2>1, <2>2 DEF ExtInv
<1>. QED
  BY <1>6, <1>7

LEMMA WindowEnd ==
  ASSUME TypeInv, WindowInv, ExtInv, EndTrace
  PROVE  WindowInv' /\ ExtInv'
<1>1. UNCHANGED <<role, level, frames, steps>> /\ frames = <<>>
  BY DEF EndTrace
<1>2. Steps' = Steps /\ \A k : Op(k)' = Op(k) /\ Looks(k)' = Looks(k) /\ SizeThenZero(k)' = SizeThenZero(k)
                               /\ Before(k)' = Before(k) /\ Newest(k)' = Newest(k)
  BY <1>1 DEF Op, Looks, SizeThenZero, Before, Newest, Steps
<1>3. \A k \in Steps : ~(Newest(k) /\ Op(k) \in ExtOps)
  BY <1>1 DEF WindowInv
<1>4. WindowInv'
  BY <1>1, <1>2, <1>3 DEF WindowInv
<1>5. ExtInv'
  <2>1. \A k \in Steps : k + 1 \in Steps /\ Looks(k) =>
          SizeThenZero(k) \/ Op(k + 1) \in Flushes \/ EntryPoint \in level'[steps'[k].role].ext
    BY <1>1 DEF ExtInv
  <2>2. \A r \in DOMAIN level' : EntryPoint \in level'[r].ext =>
          \E k \in Steps : k + 1 \in Steps /\ Looks(k) /\ (SizeThenZero(k) => Before(k) \in Flushes)
    BY <1>1 DEF ExtInv
  <2>. QED
    BY <1>2, <2>1, <2>2 DEF ExtInv
<1>. QED
  BY <1>4, <1>5

-----------------------------------------------------------------------------
(* The entries of the call stack against the calls that were executed      *)

InStack(e) == \E k \in 1 .. Len(P.stack) : P.stack[k] = e
InOut(e) == \E k \in 1 .. Len(P.out) : P.out[k] = e

\* what a frame that ends leaves
Closed(i, oog, failed, context, c) ==
  /\ Over(i, oog, failed, context)
  /\ InStack(c) /\ c \in CallRec /\ c.to = Last(frames).callee
  /\ P.stack # <<>> /\ c = P.stack[Len(P.stack)] /\ P'.stack = Front(P.stack)
  /\ \A e : InStack(e) => InStack(e)' \/ e = c
  /\ \A e : InStack(e)' => InStack(e)
  /\ \A e : InOut(e)' <=> (InOut(e) \/ e = CallEntry(c, Leave(failed, context)))

LEMMA AppendIn ==
  ASSUME NEW S, NEW s \in Seq(S), NEW x \in S
  PROVE  \A e : (\E k \in 1 .. Len(Append(s, x)) : Append(s, x)[k] = e)
                  <=> ((\E k \in 1 .. Len(s) : s[k] = e) \/ e = x)
<1>. DEFINE t == Append(s, x)
<1>1. /\ Len(t) = Len(s) + 1 /\ Len(s) \in Nat /\ t[Len(s) + 1] = x
      /\ \A k \in 1 .. Len(s) : t[k] = s[k]
  BY Appended
<1>. PICK n \in Nat : n = Len(s)
  BY <1>1
<1>2. \A k : k \in 1 .. n + 1 <=> (k \in 1 .. n \/ k = n + 1)
  OBVIOUS
<1>. HIDE DEF t
<1>3. Len(t) = n + 1 /\ t[n + 1] = x /\ \A k \in 1 .. n : t[k] = s[k]
  BY <1>1
<1>4. \A e : (\E k \in 1 .. Len(t) : t[k] = e) <=> ((\E k \in 1 .. n : s[k] = e) \/ e = x)
  BY <1>2, <1>3
<1>. QED
  BY <1>4 DEF t

LEMMA OutGrows ==
  ASSUME NEW x \in OutOf(CallRec), P.out \in Seq(OutOf(CallRec)), P'.out = Append(P.out, x)
  PROVE  \A e : InOut(e)' <=> (InOut(e) \/ e = x)
BY AppendIn DEF InOut

LEMMA EntryMoves ==
  ASSUME TypeInv, StackInv, NEW i \in Ran, NEW oog \in BOOLEAN, Step(i, oog)
  PROVE  \/ /\ NoFrame(i)
            /\ \A e : (InStack(e)' <=> InStack(e)) /\ (InOut(e)' <=> InOut(e))
         \/ /\ NewFrame(i) /\ Entered(i) \in CallRec
            /\ \A e : (InStack(e)' <=> (InStack(e) \/ e = Entered(i))) /\ (InOut(e)' <=> InOut(e))
         \/ /\ EmptyFrame(i) /\ Entered(i) \in CallRec
            /\ \A e : /\ InStack(e)' <=> InStack(e)
                      /\ InOut(e)' <=> (InOut(e) \/ e = CallEntry(Entered(i), Leave(FALSE, 0)))
         \/ \E failed \in BOOLEAN, context \in Contexts : \E c : Closed(i, oog, failed, context, c)
<1>0. Len(P.stack) = Len(frames) /\ Frames(i, oog) /\ Here \in Address
  BY FrameTypes DEF StackInv, Step, Runs
<1>1. P.stack \in Seq(CallRec) /\ P.out \in Seq(OutOf(CallRec)) /\ P.stack # <<>> /\ frames # <<>>
  BY <1>0, ParseTypes, ParseMoves
<1>2. CASE NoFrame(i)
  <2>1. P' = P
    BY <1>0, <1>2, ParseMoves
  <2>. QED
    BY <1>2, <2>1 DEF InStack, InOut
<1>3. CASE NewFrame(i)
  <2>1. P'.stack = Append(P.stack, Entered(i)) /\ P'.out = P.out
    BY <1>0, <1>3, ParseMoves
  <2>2. Entered(i) \in CallRec
    BY <1>0, <1>3, CallTypes DEF NewFrame, Entered
  <2>3. \A e : InStack(e)' <=> (InStack(e) \/ e = Entered(i))
    BY <1>1, <2>1, <2>2, AppendIn DEF InStack
  <2>4. \A e : InOut(e)' <=> InOut(e)
    BY <2>1 DEF InOut
  <2>. QED
    BY <1>3, <2>2, <2>3, <2>4
<1>4. CASE EmptyFrame(i)
  <2>1. P'.stack = P.stack /\ P'.out = Append(P.out, CallEntry(Entered(i), Leave(FALSE, 0)))
    BY <1>0, <1>4, ParseMoves
  <2>2. Entered(i) \in CallRec
    BY <1>0, <1>4, CallTypes DEF EmptyFrame, Entered
  <2>3. CallEntry(Entered(i), Leave(FALSE, 0)) \in OutOf(CallRec)
    BY <2>2, CallTypes, EntryTypes
  <2>4. \A e : InOut(e)' <=> (InOut(e) \/ e = CallEntry(Entered(i), Leave(FALSE, 0)))
    <3>. PICK x \in OutOf(CallRec) : x = CallEntry(Entered(i), Leave(FALSE, 0))
      BY <2>3
    <3>0. P'.out = Append(P.out, x)
      BY <2>1
    <3>1. \A e : InOut(e)' <=> (InOut(e) \/ e = x)
      BY <1>1, <3>0, OutGrows
    <3>. QED
      BY <3>1
  <2>5. \A e : InStack(e)' <=> InStack(e)
    BY <2>1 DEF InStack
  <2>. QED
    BY <1>4, <2>2, <2>4, <2>5
<1>5. ASSUME NEW failed \in BOOLEAN, NEW context \in Contexts, Over(i, oog, failed, context)
      PROVE  \E c : Closed(i, oog, failed, context, c)
  <2>1. P'.stack = Front(P.stack) /\ P'.out = Append(P.out, CallEntry(Last(P.stack), Leave(failed, context)))
    BY <1>0, <1>5, ParseMoves
  <2>2. PICK n \in Nat \ {0} : n = Len(P.stack)
    BY <1>1, LastOf
  <2>3. PICK c \in CallRec : c = Last(P.stack) /\ c = P.stack[n]
    BY <1>1, <2>2, LastOf
  <2>4. Len(P'.stack) = n - 1 /\ \A k \in 1 .. n - 1 : P'.stack[k] = P.stack[k]
    BY <1>1, <2>1, <2>2, LastOf
  <2>5. \A k : k \in 1 .. n <=> (k \in 1 .. n - 1 \/ k = n)
    BY <2>2
  <2>6. InStack(c) /\ (\A e : InStack(e) => InStack(e)' \/ e = c) /\ (\A e : InStack(e)' => InStack(e))
    BY <2>2, <2>3, <2>4, <2>5 DEF InStack
  <2>7. PICK x \in OutOf(CallRec) : x = CallEntry(c, Leave(failed, context))
    BY CallTypes, EntryTypes
  <2>8. \A e : InOut(e)' <=> (InOut(e) \/ e = x)
    BY <1>1, <2>1, <2>3, <2>7, AppendIn DEF InOut
  <2>9. c.to = Last(frames).callee
    <3>1. Last(frames) = frames[Len(frames)]
      BY <1>1, FrameTypes
    <3>2. n \in 1 .. Len(frames) /\ n = Len(frames)
      BY <1>0, <2>2
    <3>. QED
      BY <2>3, <3>1, <3>2 DEF StackInv
  <2>. QED
    BY <1>1, <1>5, <2>1, <2>2, <2>3, <2>6, <2>7, <2>8, <2>9 DEF Closed
<1>. QED
  BY <1>0, <1>2, <1>3, <1>4, <1>5 DEF Frames

Failed == \E k \in Steps : steps[k].oog \/ (steps[k].callee = EntryPoint /\ Op(k) = "REVERT")

\* where an entry of the stack, and of the parsed stack, comes from
Source(e) ==
  \/ e.from = EntryPoint /\ ~e.value
  \/ e.to # EntryPoint /\ (e.type = "CREATE2" \/ ~e.value)
  \/ /\ e.type # "CREATE2"
     /\ \E j \in Steps : Op(j) \in CallOps /\ To(j) = e.to /\ steps[j].i.value = e.value /\ steps[j].i.method = e.method
Sound(o) ==
  \/ o.from = EntryPoint /\ ~o.value
  \/ o.to # EntryPoint /\ ~o.value
  \/ \E j \in Steps : /\ Op(j) \in CallOps /\ To(j) = o.to /\ steps[j].i.value = o.value
                      /\ steps[j].i.method = o.method \/ (o.to = EntryPoint => Failed)

\* the entry of a call that was executed
Shows(e, j) ==
  /\ e.to = To(j) /\ e.value = steps[j].i.value /\ e.from = steps[j].at /\ e.type \in CallOps
  /\ e.method = steps[j].i.method \/ e.method = "undefined"

EntryInv ==
  /\ \A e : InStack(e) => Source(e)
  /\ \A o : InOut(o) => Sound(o)
  /\ \A j \in Steps : Op(j) \in CallOps => steps[j].at # EntryPoint /\ \E e : (InStack(e) \/ InOut(e)) /\ Shows(e, j)
  /\ \A o : InOut(o) /\ o.context # 0 => \E m \in 1 .. Len(calls) : Decoded(calls[m].context) # 0

\* no context is none to the parser
LEMMA NoneDecoded ==
  ASSUME NEW c, c.context = 0
  PROVE  Decoded(c.context) = 0
BY DEF Decoded, Cut

LEMMA DecodedZero == Decoded(0) = 0 /\ 0 \in Contexts
BY InstrAssumption DEF Decoded, Cut

LEMMA EntryFields ==
  ASSUME NEW c \in CallRec, NEW failed \in BOOLEAN, NEW context \in Contexts
  PROVE  LET o == CallEntry(c, Leave(failed, context))
         IN  /\ o.type = c.type /\ o.from = c.from /\ o.to = c.to /\ o.context = Decoded(context)
             /\ o.value = (c.type # "CREATE2" /\ c.value)
             /\ c.type # "CREATE2" => o.method \in {c.method, "undefined"}
             /\ c.type # "CREATE2" /\ ~failed => o.method = c.method
             /\ c.type = "CREATE2" => o.method = ""
             /\ c.type # "CREATE2" /\ c.method \in Named => o.method = c.method
<1>. PICK d : d = Leave(failed, context)
  OBVIOUS
<1>1. d.type = (IF failed THEN "REVERT" ELSE "RETURN") /\ d.context = context
  BY EnterLeave
<1>2. CallEntry(c, d).method =
        IF c.type = "CREATE2" THEN "" ELSE IF d.type = "REVERT" /\ c.method \notin Named THEN "undefined" ELSE c.method
  BY DEF CallEntry
<1>2a. c.type = "CREATE2" => CallEntry(c, d).method = ""
  BY <1>2
<1>3. /\ CallEntry(c, d).type = c.type /\ CallEntry(c, d).from = c.from /\ CallEntry(c, d).to = c.to
      /\ CallEntry(c, d).context = Decoded(d.context) /\ CallEntry(c, d).value = (c.type # "CREATE2" /\ c.value)
  BY DEF CallEntry
<1>4. PICK t : t = c.type
  OBVIOUS
<1>5. PICK m : m = c.method
  OBVIOUS
<1>6. PICK o : o = CallEntry(c, d)
  OBVIOUS
<1>. HIDE DEF Named
<1>7. t = "CREATE2" => o.method = ""
  BY <1>2a, <1>4, <1>6
<1>8. t # "CREATE2" => o.method = IF failed /\ m \notin Named THEN "undefined" ELSE m
  BY <1>1, <1>2, <1>4, <1>5, <1>6
<1>. QED
  BY <1>1, <1>3, <1>4, <1>5, <1>6, <1>7, <1>8

\* a source makes a sound entry
LEMMA SourceSound ==
  ASSUME NEW c \in CallRec, NEW failed \in BOOLEAN, NEW context \in Contexts, Source(c),
         failed /\ c.to = EntryPoint => Failed
  PROVE  Sound(CallEntry(c, Leave(failed, context)))
<1>. PICK o : o = CallEntry(c, Leave(failed, context))
  OBVIOUS
<1>1. /\ o.from = c.from /\ o.to = c.to /\ o.value = (c.type # "CREATE2" /\ c.value)
      /\ c.type # "CREATE2" /\ ~failed => o.method = c.method
  BY EntryFields
<1>0. c.value \in BOOLEAN
  BY DEF CallRec
<1>2. CASE c.from = EntryPoint /\ ~c.value
  BY <1>1, <1>2 DEF Sound
<1>3. CASE c.to # EntryPoint /\ (c.type = "CREATE2" \/ ~c.value)
  BY <1>1, <1>3 DEF Sound
<1>5. CASE /\ c.type # "CREATE2"
           /\ \E j \in Steps : Op(j) \in CallOps /\ To(j) = c.to /\ steps[j].i.value = c.value /\ steps[j].i.method = c.method
  <2>1. PICK j \in Steps : Op(j) \in CallOps /\ To(j) = c.to /\ steps[j].i.value = c.value /\ steps[j].i.method = c.method
    BY <1>5
  <2>2. o.value = c.value
    BY <1>0, <1>1, <1>5
  <2>3. steps[j].i.method = o.method \/ (o.to = EntryPoint => Failed)
    BY <1>1, <1>5, <2>1
  <2>. QED
    BY <1>1, <2>1, <2>2, <2>3 DEF Sound
<1>. QED
  BY <1>2, <1>3, <1>5 DEF Source

LEMMA SourceKept ==
  ASSUME NEW i \in Ran, NEW oog \in BOOLEAN, NEW n \in Nat, Seen(n, i, oog)
  PROVE  /\ Failed => Failed'
         /\ \A e : (Source(e) => Source(e)') /\ (Sound(e) => Sound(e)')
         /\ \A j \in Steps : j \in Steps' /\ Op(j)' = Op(j) /\ steps'[j] = steps[j] /\ \A e : Shows(e, j) => Shows(e, j)'
         /\ \A j \in Steps' : j \in Steps \/ j = n + 1
<1>1. \A j \in Steps : j \in Steps' /\ Op(j)' = Op(j) /\ steps'[j] = steps[j] /\ To(j)' = To(j)
  BY DEF Seen, To
<1>2. Failed => Failed'
  BY <1>1 DEF Failed
<1>3. \A e : Source(e) => Source(e)'
  BY <1>1 DEF Source
<1>4. \A e : Sound(e) => Sound(e)'
  BY <1>1, <1>2 DEF Sound
<1>5. \A j \in Steps : \A e : Shows(e, j) => Shows(e, j)'
  BY <1>1 DEF Shows
<1>6. \A j \in Steps' : j \in Steps \/ j = n + 1
  BY DEF Seen
<1>. QED
  BY <1>1, <1>2, <1>3, <1>4, <1>5, <1>6

\* the entry of a frame that ends shows the same call
LEMMA ShowsStill ==
  ASSUME NEW c \in CallRec, NEW failed \in BOOLEAN, NEW context \in Contexts, NEW j, Shows(c, j)
  PROVE  Shows(CallEntry(c, Leave(failed, context)), j)
<1>. PICK o : o = CallEntry(c, Leave(failed, context))
  OBVIOUS
<1>1. c.type \in CallOps /\ c.type # "CREATE2" /\ c.value \in BOOLEAN
  BY DEF Shows, CallOps, CallRec
<1>2. o.type = c.type /\ o.from = c.from /\ o.to = c.to /\ o.value = c.value /\ o.method \in {c.method, "undefined"}
  BY <1>1, EntryFields
<1>. QED
  BY <1>1, <1>2 DEF Shows

LEMMA CallsGrow ==
  ASSUME TypeInv, NEW c \in CallRec, calls' = Append(calls, c)
  PROVE  (\E m \in 1 .. Len(calls') : Decoded(calls'[m].context) # 0) <=>
           ((\E m \in 1 .. Len(calls) : Decoded(calls[m].context) # 0) \/ Decoded(c.context) # 0)
<1>1. calls \in Seq(CallRec)
  BY DEF TypeInv
<1>2. /\ Len(calls) \in Nat /\ Len(calls') = Len(calls) + 1 /\ calls'[Len(calls) + 1] = c
      /\ \A k \in 1 .. Len(calls) : calls'[k] = calls[k]
  BY <1>1, Appended
<1>. QED
  BY <1>2

LEMMA CallsGrowTwo ==
  ASSUME TypeInv, NEW c \in CallRec, NEW d \in CallRec, calls' = calls \o <<c, d>>
  PROVE  (\E m \in 1 .. Len(calls') : Decoded(calls'[m].context) # 0) <=>
           ((\E m \in 1 .. Len(calls) : Decoded(calls[m].context) # 0) \/ Decoded(c.context) # 0 \/ Decoded(d.context) # 0)
<1>1. calls \in Seq(CallRec)
  BY DEF TypeInv
<1>2. PICK s \in Seq(CallRec) : s = Append(calls, c)
  BY <1>1, Appended
<1>3. /\ Len(calls) \in Nat /\ Len(s) = Len(calls) + 1 /\ s[Len(calls) + 1] = c
      /\ \A k \in 1 .. Len(calls) : s[k] = calls[k]
  BY <1>1, <1>2, Appended
<1>4. calls' = Append(s, d)
  BY <1>1, <1>2, AppendTwo
<1>5. Len(calls') = Len(s) + 1 /\ calls'[Len(s) + 1] = d /\ \A k \in 1 .. Len(s) : calls'[k] = s[k]
  BY <1>4, Appended
<1>6. (\E m \in 1 .. Len(s) : Decoded(s[m].context) # 0) <=> ((\E m \in 1 .. Len(calls) : Decoded(calls[m].context) # 0) \/ Decoded(c.context) # 0)
  BY <1>3
<1>7. (\E m \in 1 .. Len(calls') : Decoded(calls'[m].context) # 0) <=> ((\E m \in 1 .. Len(s) : Decoded(s[m].context) # 0) \/ Decoded(d.context) # 0)
  <2>1. PICK n \in Nat : n = Len(s)
    BY <1>3
  <2>2. \A m : m \in 1 .. n + 1 <=> (m \in 1 .. n \/ m = n + 1)
    BY <2>1
  <2>3. Len(calls') = n + 1 /\ calls'[n + 1] = d /\ \A k \in 1 .. n : calls'[k] = s[k]
    BY <1>5, <2>1
  <2>. QED
    BY <2>1, <2>2, <2>3
<1>. QED
  BY <1>6, <1>7

Told == \E m \in 1 .. Len(calls) : Decoded(calls[m].context) # 0

LEMMA ToldStep ==
  ASSUME TypeInv, NEW i \in Ran, NEW oog \in BOOLEAN, Step(i, oog)
  PROVE  /\ Told => Told'
         /\ NoFrame(i) \/ NewFrame(i) \/ EmptyFrame(i) => (Told' <=> Told)
         /\ \A failed \in BOOLEAN, context \in Contexts : Over(i, oog, failed, context) => (Told' <=> (Told \/ Decoded(context) # 0))
<1>0. Frames(i, oog) /\ Here \in Address
  BY FrameTypes DEF Step, Runs
<1>1. NoFrame(i) => (Told' <=> Told)
  BY DEF NoFrame, Told
<1>2. ASSUME NewFrame(i) PROVE Told' <=> Told
  <2>1. PICK c \in CallRec : c = Entered(i) /\ c.context = 0
    BY <1>0, <1>2, CallTypes, EnterLeave DEF NewFrame, Entered
  <2>2. calls' = Append(calls, c)
    BY <1>2, <2>1 DEF NewFrame, Entered
  <2>. QED
    BY <2>1, <2>2, CallsGrow, NoneDecoded DEF Told
<1>3. ASSUME EmptyFrame(i) PROVE Told' <=> Told
  <2>1. PICK c \in CallRec : c = Entered(i) /\ c.context = 0
    BY <1>0, <1>3, CallTypes, EnterLeave DEF EmptyFrame, Entered
  <2>2. PICK d \in CallRec : d = Leave(FALSE, 0) /\ d.context = 0
    BY CallTypes, EnterLeave
  <2>3. calls' = calls \o <<c, d>>
    BY <1>3, <2>1, <2>2 DEF EmptyFrame, Entered
  <2>. QED
    BY <2>1, <2>2, <2>3, CallsGrowTwo, NoneDecoded DEF Told
<1>4. ASSUME NEW failed \in BOOLEAN, NEW context \in Contexts, Over(i, oog, failed, context)
      PROVE  Told' <=> (Told \/ Decoded(context) # 0)
  <2>1. PICK d \in CallRec : d = Leave(failed, context) /\ d.context = context
    BY CallTypes, EnterLeave
  <2>2. calls' = Append(calls, d)
    BY <1>4, <2>1 DEF Over, Pop
  <2>. QED
    BY <2>1, <2>2, CallsGrow, NoneDecoded DEF Told
<1>5. Told => Told'
  BY <1>0, <1>1, <1>2, <1>3, <1>4 DEF Frames
<1>6. \A failed \in BOOLEAN, context \in Contexts : Over(i, oog, failed, context) => (Told' <=> (Told \/ Decoded(context) # 0))
  BY ONLY <1>4
<1>. QED
  BY <1>1, <1>2, <1>3, <1>5, <1>6

LEMMA EntryStep ==
  ASSUME TypeInv, StackInv, OrderInv, EntryInv, NEW i \in Ran, NEW oog \in BOOLEAN, Step(i, oog)
  PROVE  EntryInv'
<1>. PICK n \in Nat : Seen(n, i, oog)
  BY StepSeen
<1>1. /\ Failed => Failed'
      /\ \A e : (Source(e) => Source(e)') /\ (Sound(e) => Sound(e)')
      /\ \A j \in Steps : j \in Steps' /\ Op(j)' = Op(j) /\ steps'[j] = steps[j] /\ \A e : Shows(e, j) => Shows(e, j)'
      /\ \A j \in Steps' : j \in Steps \/ j = n + 1
  BY SourceKept
<1>2. n + 1 \in Steps' /\ steps'[n + 1].i = i /\ Op(n + 1)' = i.op /\ steps'[n + 1].oog = oog
  BY DEF Seen
<1>3. steps'[n + 1].at = Here /\ steps'[n + 1].callee = Last(frames).callee
  BY StepAdded DEF Seen
<1>4. To(n + 1)' = i.to
  BY <1>2 DEF To
<1>5. i.op \in CallOps => Here # EntryPoint
  <2>1. Here = EntryPoint => i.op \in {"SLOAD", "SSTORE"} \cup Exits
    BY DEF Step
  <2>. QED
    BY <2>1 DEF CallOps, Exits, Flushes
<1>6. Told => Told'
  BY ToldStep
<1>7. CASE /\ NoFrame(i)
           /\ \A e : (InStack(e)' <=> InStack(e)) /\ (InOut(e)' <=> InOut(e))
  <2>1. i.op \notin CallOps
    BY <1>7 DEF NoFrame
  <2>. QED
    BY <1>1, <1>2, <1>3, <1>5, <1>6, <1>7, <2>1 DEF EntryInv, Told
<1>8. CASE /\ NewFrame(i) /\ Entered(i) \in CallRec
           /\ \A e : (InStack(e)' <=> (InStack(e) \/ e = Entered(i))) /\ (InOut(e)' <=> InOut(e))
  <2>1. PICK x \in CallRec : x = Entered(i)
    BY <1>8
  <2>2. x.type = i.op /\ x.from = Here /\ x.to = i.to /\ x.method = i.method /\ x.value = i.value
    BY <2>1, EnterLeave DEF Entered
  <2>3. Source(x)'
    <3>1. i.op \in CallOps \cup {"CREATE2"} /\ (i.op = "CREATE2" => i.to # EntryPoint)
      BY <1>8 DEF NewFrame, TypeInv, HaveCode
    <3>2. CASE i.op = "CREATE2"
      BY <2>2, <3>1, <3>2 DEF Source
    <3>3. CASE i.op \in CallOps
      <4>1. x.type # "CREATE2"
        BY <2>2, <3>3 DEF CallOps
      <4>2. Op(n + 1)' \in CallOps /\ To(n + 1)' = x.to /\ steps'[n + 1].i.value = x.value /\ steps'[n + 1].i.method = x.method
        BY <1>2, <1>4, <2>2, <3>3
      <4>. QED
        BY <1>2, <4>1, <4>2 DEF Source
    <3>. QED
      BY <3>1, <3>2, <3>3
  <2>4. i.op \in CallOps => Shows(x, n + 1)'
    BY <1>2, <1>3, <1>4, <2>2 DEF Shows
  <2>5. \A e : (InStack(e)' <=> (InStack(e) \/ e = x)) /\ (InOut(e)' <=> InOut(e))
    BY <1>8, <2>1
  <2>6. \A e : InStack(e)' => Source(e)'
    BY <1>1, <2>3, <2>5 DEF EntryInv
  <2>7. \A o : InOut(o)' => Sound(o)'
    BY <1>1, <2>5 DEF EntryInv
  <2>8. \A j \in Steps' : Op(j)' \in CallOps =>
          steps'[j].at # EntryPoint /\ \E e : (InStack(e)' \/ InOut(e)') /\ Shows(e, j)'
    BY <1>1, <1>2, <1>3, <1>5, <2>4, <2>5 DEF EntryInv
  <2>9. \A o : InOut(o)' /\ o.context # 0 => Told'
    BY <1>6, <2>5 DEF EntryInv, Told
  <2>. QED
    BY <2>6, <2>7, <2>8, <2>9 DEF EntryInv, Told
<1>9. CASE /\ EmptyFrame(i) /\ Entered(i) \in CallRec
           /\ \A e : /\ InStack(e)' <=> InStack(e)
                     /\ InOut(e)' <=> (InOut(e) \/ e = CallEntry(Entered(i), Leave(FALSE, 0)))
  <2>1. PICK x \in CallRec : x = Entered(i)
    BY <1>9
  <2>2. x.type = i.op /\ x.from = Here /\ x.to = i.to /\ x.method = i.method /\ x.value = i.value
    BY <2>1, EnterLeave DEF Entered
  <2>3. PICK o : o = CallEntry(x, Leave(FALSE, 0))
    OBVIOUS
  <2>4. i.op \in CallOps /\ x.type # "CREATE2"
    BY <1>9, <2>2 DEF EmptyFrame, CallOps
  <2>5. Source(x)'
    <3>1. Op(n + 1)' \in CallOps /\ To(n + 1)' = x.to /\ steps'[n + 1].i.value = x.value /\ steps'[n + 1].i.method = x.method
      BY <1>2, <1>4, <2>2, <2>4
    <3>. QED
      BY <1>2, <2>4, <3>1 DEF Source
  <2>6. Sound(o)'
    <3>1. /\ o.to = x.to /\ o.value = (x.type # "CREATE2" /\ x.value) /\ (x.type # "CREATE2" /\ ~FALSE => o.method = x.method)
      BY <2>3, EntryFields, DecodedZero
    <3>2. o.to = x.to /\ o.value = x.value /\ o.method = x.method
      BY <2>4, <3>1 DEF CallRec
    <3>3. Op(n + 1)' \in CallOps /\ To(n + 1)' = o.to /\ steps'[n + 1].i.value = o.value /\ steps'[n + 1].i.method = o.method
      BY <1>2, <1>4, <2>2, <2>4, <3>2
    <3>. QED
      BY <1>2, <3>3 DEF Sound
  <2>7. Shows(o, n + 1)'
    <3>1. Shows(x, n + 1)'
      BY <1>2, <1>3, <1>4, <2>2, <2>4 DEF Shows
    <3>2. /\ o.type = x.type /\ o.from = x.from /\ o.to = x.to /\ o.value = x.value /\ o.method \in {x.method, "undefined"}
      BY <2>3, <2>4, EntryFields, DecodedZero DEF CallRec
    <3>. QED
      BY <3>1, <3>2 DEF Shows
  <2>8. o.context = 0
    BY <2>3, EntryFields, DecodedZero
  <2>9. \A e : (InStack(e)' <=> InStack(e)) /\ (InOut(e)' <=> (InOut(e) \/ e = o))
    BY <1>9, <2>1, <2>3
  <2>10. \A e : InStack(e)' => Source(e)'
    BY <1>1, <2>9 DEF EntryInv
  <2>11. \A e : InOut(e)' => Sound(e)'
    BY <1>1, <2>6, <2>9 DEF EntryInv
  <2>12. \A j \in Steps' : Op(j)' \in CallOps =>
          steps'[j].at # EntryPoint /\ \E e : (InStack(e)' \/ InOut(e)') /\ Shows(e, j)'
    BY <1>1, <1>2, <1>3, <1>5, <2>7, <2>9 DEF EntryInv
  <2>13. \A e : InOut(e)' /\ e.context # 0 => Told'
    BY <1>6, <2>8, <2>9 DEF EntryInv, Told
  <2>. QED
    BY <2>10, <2>11, <2>12, <2>13 DEF EntryInv, Told
<1>10. ASSUME NEW failed \in BOOLEAN, NEW context \in Contexts, NEW c, Closed(i, oog, failed, context, c)
       PROVE  EntryInv'
  <2>1. /\ Over(i, oog, failed, context) /\ InStack(c) /\ c \in CallRec /\ c.to = Last(frames).callee
        /\ \A e : InStack(e) => InStack(e)' \/ e = c
        /\ \A e : InStack(e)' => InStack(e)
    BY <1>10 DEF Closed
  <2>2. PICK o : o = CallEntry(c, Leave(failed, context))
    OBVIOUS
  <2>3. \A e : InOut(e)' <=> (InOut(e) \/ e = o)
    BY <1>10, <2>2 DEF Closed
  <2>4. i.op \notin CallOps
    BY <2>1 DEF Over
  <2>5. failed => oog \/ i.op = "REVERT"
    BY <2>1 DEF Over
  <2>6. failed /\ c.to = EntryPoint => Failed'
    BY <1>2, <1>3, <2>1, <2>5 DEF Failed
  <2>7. Source(c)'
    BY <1>1, <2>1 DEF EntryInv
  <2>8. Sound(o)'
    <3>1. \/ c.from = EntryPoint /\ ~c.value
          \/ c.to # EntryPoint /\ (c.type = "CREATE2" \/ ~c.value)
          \/ /\ c.type # "CREATE2"
             /\ \E j \in Steps' : Op(j)' \in CallOps /\ To(j)' = c.to /\ steps'[j].i.value = c.value /\ steps'[j].i.method = c.method
      BY <2>7 DEF Source
    <3>2. /\ o.from = c.from /\ o.to = c.to /\ o.value = (c.type # "CREATE2" /\ c.value)
          /\ c.type # "CREATE2" /\ ~failed => o.method = c.method
      BY <2>1, <2>2, EntryFields
    <3>3. c.value \in BOOLEAN
      BY <2>1 DEF CallRec
    <3>4. CASE c.from = EntryPoint /\ ~c.value
      BY <3>2, <3>4 DEF Sound
    <3>5. CASE c.to # EntryPoint /\ (c.type = "CREATE2" \/ ~c.value)
      BY <3>2, <3>5 DEF Sound
    <3>6. CASE /\ c.type # "CREATE2"
               /\ \E j \in Steps' : Op(j)' \in CallOps /\ To(j)' = c.to /\ steps'[j].i.value = c.value /\ steps'[j].i.method = c.method
      <4>1. PICK j \in Steps' : Op(j)' \in CallOps /\ To(j)' = c.to /\ steps'[j].i.value = c.value /\ steps'[j].i.method = c.method
        BY <3>6
      <4>2. o.value = c.value /\ (steps'[j].i.method = o.method \/ (o.to = EntryPoint => Failed'))
        BY <2>6, <3>2, <3>3, <3>6, <4>1
      <4>. QED
        BY <3>2, <4>1, <4>2 DEF Sound
    <3>. QED
      BY <3>1, <3>4, <3>5, <3>6
  <2>9. \A j \in Steps : Shows(c, j) => Shows(o, j)
    BY <2>1, <2>2, ShowsStill
  <2>10. o.context = Decoded(context) /\ (Decoded(context) # 0 => Told')
    BY <2>1, <2>2, EntryFields, ToldStep
  <2>11. \A e : InStack(e)' => Source(e)'
    BY <1>1, <2>1 DEF EntryInv
  <2>12. \A e : InOut(e)' => Sound(e)'
    BY <1>1, <2>3, <2>8 DEF EntryInv
  <2>13. \A j \in Steps' : Op(j)' \in CallOps =>
          steps'[j].at # EntryPoint /\ \E e : (InStack(e)' \/ InOut(e)') /\ Shows(e, j)'
    <3>. SUFFICES ASSUME NEW j \in Steps', Op(j)' \in CallOps
                  PROVE  steps'[j].at # EntryPoint /\ \E e : (InStack(e)' \/ InOut(e)') /\ Shows(e, j)'
      OBVIOUS
    <3>1. j \in Steps /\ Op(j) \in CallOps /\ steps'[j] = steps[j]
      BY <1>1, <1>2, <2>4
    <3>2. PICK e : (InStack(e) \/ InOut(e)) /\ Shows(e, j)
      BY <3>1 DEF EntryInv
    <3>3. steps'[j].at # EntryPoint
      BY <3>1 DEF EntryInv
    <3>4. CASE e = c
      BY <1>1, <2>3, <2>9, <3>1, <3>2, <3>3, <3>4
    <3>5. CASE e # c
      BY <1>1, <2>1, <2>3, <3>1, <3>2, <3>3, <3>5
    <3>. QED
      BY <3>4, <3>5
  <2>14. \A e : InOut(e)' /\ e.context # 0 => Told'
    BY <1>6, <2>3, <2>10 DEF EntryInv, Told
  <2>. QED
    BY <2>11, <2>12, <2>13, <2>14 DEF EntryInv, Told
<1>. QED
  BY <1>7, <1>8, <1>9, <1>10, EntryMoves

LEMMA ToldEntity ==
  ASSUME TypeInv, NEW r \in Role, CallEntity(r)
  PROVE  Told' <=> Told
<1>1. PICK x \in CallRec : x = EntityEntry(r) /\ x.context = 0
  <2>1. EntityEntry(r) \in CallRec
    BY CallTypes DEF EntityEntry
  <2>2. EntityEntry(r).context = 0
    BY DEF EntityEntry, Enter
  <2>. QED
    BY <2>1, <2>2
<1>2. PICK y \in CallRec : y = FactoryEntry /\ y.context = 0
  <2>1. FactoryEntry \in CallRec
    BY CallTypes DEF FactoryEntry
  <2>2. FactoryEntry.context = 0
    BY DEF FactoryEntry, Enter
  <2>. QED
    BY <2>1, <2>2
<1>3. calls' = Append(calls, x) \/ calls' = calls \o <<x, y>>
  BY <1>1, <1>2 DEF CallEntity, EntityEntry, FactoryEntry
<1>. QED
  BY <1>1, <1>2, <1>3, CallsGrow, CallsGrowTwo, NoneDecoded DEF Told

LEMMA EntryEntity ==
  ASSUME TypeInv, StackInv, OrderInv, EntryInv, NEW r \in Role, CallEntity(r)
  PROVE  EntryInv'
<1>1. steps' = steps /\ Steps' = Steps
  BY EntitySeen
<1>2. /\ P'.out = P.out
      /\ r # "factory" => P'.stack = Append(P.stack, EntityEntry(r))
      /\ r = "factory" => P'.stack = Append(Append(P.stack, EntityEntry(r)), FactoryEntry)
  BY ParseOpens
<1>3. PICK x \in CallRec : x = EntityEntry(r)
  BY CallTypes DEF EntityEntry
<1>4. PICK y \in CallRec : y = FactoryEntry
  BY CallTypes DEF FactoryEntry
<1>5. x.from = EntryPoint /\ ~x.value /\ y.to = Factory /\ ~y.value
  BY <1>3, <1>4 DEF EntityEntry, FactoryEntry, Enter
<1>6. P.stack \in Seq(CallRec)
  BY ParseTypes
<1>7. \A e : InStack(e)' => InStack(e) \/ e = x \/ e = y
  <2>1. Append(P.stack, x) \in Seq(CallRec)
    BY <1>6, Appended
  <2>2. \A e : (\E k \in 1 .. Len(Append(P.stack, x)) : Append(P.stack, x)[k] = e) <=> (InStack(e) \/ e = x)
    BY <1>6, AppendIn DEF InStack
  <2>3. CASE r # "factory"
    <3>1. P'.stack = Append(P.stack, x)
      BY <1>2, <1>3, <2>3
    <3>. QED
      BY <2>2, <3>1 DEF InStack
  <2>4. CASE r = "factory"
    <3>1. P'.stack = Append(Append(P.stack, x), y)
      BY <1>2, <1>3, <1>4, <2>4
    <3>2. PICK s \in Seq(CallRec) : s = Append(P.stack, x)
      BY <2>1
    <3>3. P'.stack = Append(s, y)
      BY <3>1, <3>2
    <3>4. \A e : InStack(e)' => (\E k \in 1 .. Len(s) : s[k] = e) \/ e = y
      BY <3>3, AppendIn DEF InStack
    <3>. QED
      BY <2>2, <3>2, <3>4
  <2>. QED
    BY <2>3, <2>4
<1>8. \A e : InStack(e) => InStack(e)'
  <2>1. PICK s \in Seq(CallRec) : s = Append(P.stack, x)
    BY <1>6, Appended
  <2>2. Len(s) = Len(P.stack) + 1 /\ Len(P.stack) \in Nat /\ \A k \in 1 .. Len(P.stack) : s[k] = P.stack[k]
    BY <1>6, <2>1, Appended
  <2>3. \A e : InStack(e) => \E k \in 1 .. Len(s) : s[k] = e
    BY <2>2 DEF InStack
  <2>4. Len(Append(s, y)) = Len(s) + 1 /\ \A k \in 1 .. Len(s) : Append(s, y)[k] = s[k]
    BY Appended
  <2>5. \A e : InStack(e) => \E k \in 1 .. Len(Append(s, y)) : Append(s, y)[k] = e
    BY <2>2, <2>3, <2>4
  <2>6. P'.stack = s \/ P'.stack = Append(s, y)
    BY <1>2, <1>3, <1>4, <2>1
  <2>. QED
    BY <2>3, <2>5, <2>6 DEF InStack
<1>9. \A e : InOut(e)' <=> InOut(e)
  BY <1>2 DEF InOut
<1>10. Source(x) /\ Source(y)
  BY <1>5, InstrAssumption DEF Source
<1>11. \A e : (Source(e)' <=> Source(e)) /\ (Sound(e)' <=> Sound(e)) /\ \A j \in Steps : Shows(e, j)' <=> Shows(e, j)
  BY <1>1 DEF Source, Sound, Shows, Failed, Op, To
<1>12. Told => Told'
  BY ToldEntity
<1>13. \A e : InStack(e)' => Source(e)'
  BY <1>7, <1>10, <1>11 DEF EntryInv
<1>14. \A o : InOut(o)' => Sound(o)'
  BY <1>9, <1>11 DEF EntryInv
<1>15. \A j \in Steps' : Op(j)' \in CallOps =>
         steps'[j].at # EntryPoint /\ \E e : (InStack(e)' \/ InOut(e)') /\ Shows(e, j)'
  BY <1>1, <1>8, <1>9, <1>11 DEF EntryInv, Op
<1>16. \A o : InOut(o)' /\ o.context # 0 => Told'
  BY <1>9, <1>12 DEF EntryInv, Told
<1>. QED
  BY <1>13, <1>14, <1>15, <1>16 DEF EntryInv, Told

LEMMA EntryEnd ==
  ASSUME TypeInv, StackInv, EntryInv, EndTrace
  PROVE  EntryInv'
<1>1. steps' = steps /\ Steps' = Steps /\ frames = <<>>
  BY DEF EndTrace, Steps
<1>2. P.stack = <<>>
  BY <1>1, ParseTypes DEF StackInv
<1>3. P'.stack = <<>> /\ P'.out = Append(P.out, CallEntry(Top, Leave(TRUE, 0)))
  BY <1>2, ParseEnds
<1>4. PICK d \in CallRec : d = Leave(TRUE, 0) /\ d.context = 0
  BY CallTypes, EnterLeave
<1>5. PICK x \in OutOf(CallRec) : x = CallEntry(Top, d)
  BY EntryTypes
<1>6. x.to = SenderCreator /\ ~x.value /\ x.context = 0
  <2>1. Top.to = SenderCreator /\ ~Top.value
    BY DEF Top, Enter
  <2>2. Decoded(d.context) = 0
    BY <1>4, NoneDecoded
  <2>. QED
    BY <1>5, <2>1, <2>2 DEF CallEntry
<1>7. \A e : InOut(e)' <=> (InOut(e) \/ e = x)
  BY <1>3, <1>4, <1>5, ParseTypes, OutGrows
<1>8. \A e : ~InStack(e)' /\ ~InStack(e)
  BY <1>2, <1>3 DEF InStack
<1>9. \A e : (Sound(e)' <=> Sound(e)) /\ \A j \in Steps : Shows(e, j)' <=> Shows(e, j)
  BY <1>1 DEF Sound, Shows, Failed, Op, To
<1>10. Sound(x)
  BY <1>6, InstrAssumption DEF Sound
<1>11. Told => Told'
  BY <1>4, CallsGrow, NoneDecoded DEF EndTrace, Told
<1>12. \A o : InOut(o)' => Sound(o)'
  BY <1>7, <1>9, <1>10 DEF EntryInv
<1>13. \A j \in Steps' : Op(j)' \in CallOps =>
         steps'[j].at # EntryPoint /\ \E e : (InStack(e)' \/ InOut(e)') /\ Shows(e, j)'
  BY <1>1, <1>7, <1>8, <1>9 DEF EntryInv, Op
<1>14. \A o : InOut(o)' /\ o.context # 0 => Told'
  BY <1>6, <1>7, <1>11 DEF EntryInv, Told
<1>. QED
  BY <1>8, <1>12, <1>13, <1>14 DEF EntryInv, Told

-----------------------------------------------------------------------------
(* The context that the paymaster returns                                  *)

\* Nobody but the EntryPoint calls the paymaster to validate: tracerResultParser
\* takes the first entry of that name for the EntryPoint's own call.
OnlyEntryPointValidates == \A i \in Instr : ~(i.to = Paymaster /\ i.method = "validatePaymasterUserOp")

Val(e) == e.method = "validatePaymasterUserOp" /\ e.to = Paymaster

ContextInv ==
  /\ Len(P.stack) >= 1 => P.stack[1].type = "CALL"
  /\ \A k \in 1 .. Len(P.stack) : Val(P.stack[k]) <=> (k = 1 /\ role = "paymaster")
  /\ \A o : InOut(o) /\ Val(o) => frames = <<>> /\ "paymaster" \in DOMAIN level
  /\ \A o, p : InOut(o) /\ InOut(p) /\ Val(o) /\ Val(p) => o = p
  /\ Told => \E o : InOut(o) /\ Val(o) /\ o.context # 0

LEMMA ValEntry ==
  ASSUME NEW c \in CallRec, NEW failed \in BOOLEAN, NEW context \in Contexts
  PROVE  LET o == CallEntry(c, Leave(failed, context))
         IN  /\ ~Val(c) => ~Val(o)
             /\ Val(c) /\ c.type = "CALL" => Val(o)
             /\ o.context = Decoded(context)
<1>. PICK o : o = CallEntry(c, Leave(failed, context))
  OBVIOUS
<1>0. o.context = Decoded(context)
  BY EntryFields
<1>1. /\ o.to = c.to
      /\ c.type # "CREATE2" => o.method \in {c.method, "undefined"}
      /\ c.type = "CREATE2" => o.method = ""
      /\ c.type # "CREATE2" /\ c.method \in Named => o.method = c.method
  <2>1. o.to = c.to
    BY EntryFields
  <2>2. c.type # "CREATE2" => o.method \in {c.method, "undefined"}
    BY EntryFields
  <2>3. c.type = "CREATE2" => o.method = ""
    BY DEF CallEntry
  <2>4. c.type # "CREATE2" /\ c.method \in Named => o.method = c.method
    BY EntryFields
  <2>. QED
    BY <2>1, <2>2, <2>3, <2>4
<1>2. "validatePaymasterUserOp" \in Named
  BY DEF Named
<1>3. "validatePaymasterUserOp" # "undefined" /\ "validatePaymasterUserOp" # "" /\ "CALL" # "CREATE2"
  OBVIOUS
<1>. QED
  BY <1>0, <1>1, <1>2, <1>3 DEF Val

LEMMA ContextStep ==
  ASSUME TypeInv, StackInv, ContextInv, OnlyEntryPointValidates,
         NEW i \in Ran, NEW oog \in BOOLEAN, Step(i, oog)
  PROVE  ContextInv'
<1>0. /\ Len(P.stack) = Len(frames) /\ Frames(i, oog) /\ Here \in Address /\ frames # <<>>
      /\ role' = role /\ DOMAIN level' = DOMAIN level
  BY FrameTypes, Collected DEF StackInv, Step, Runs
<1>1. P.stack \in Seq(CallRec) /\ P.out \in Seq(OutOf(CallRec)) /\ P.stack # <<>>
  BY <1>0, ParseTypes, ParseMoves
<1>2. PICK n \in Nat \ {0} : n = Len(P.stack)
  BY <1>1, LastOf
<1>3. \A o : InOut(o) => ~Val(o)
  BY <1>0 DEF ContextInv
<1>4. ~Told
  BY <1>3 DEF ContextInv
<1>5. i \in Instr => ~Val(Entered(i))
  BY EnterLeave DEF OnlyEntryPointValidates, Val, Entered
<1>6. CASE /\ NoFrame(i)
           /\ \A e : (InStack(e)' <=> InStack(e)) /\ (InOut(e)' <=> InOut(e))
  <2>1. P' = P /\ frames' = frames
    BY <1>0, <1>6, ParseMoves DEF NoFrame
  <2>2. ~Told'
    BY <1>4, <1>6, ToldStep
  <2>. QED
    BY <1>0, <1>3, <1>6, <2>1, <2>2 DEF ContextInv, Val
<1>7. CASE /\ NewFrame(i) /\ Entered(i) \in CallRec
           /\ \A e : (InStack(e)' <=> (InStack(e) \/ e = Entered(i))) /\ (InOut(e)' <=> InOut(e))
  <2>1. PICK x \in CallRec : x = Entered(i) /\ ~Val(x)
    BY <1>5, <1>7 DEF NewFrame
  <2>2. P'.stack = Append(P.stack, x)
    BY <1>0, <1>7, <2>1, ParseMoves
  <2>3. Len(P'.stack) = n + 1 /\ P'.stack[n + 1] = x /\ \A k \in 1 .. n : P'.stack[k] = P.stack[k]
    BY <1>1, <1>2, <2>2, Appended
  <2>4. ~Told' /\ \A o : InOut(o)' => ~Val(o)
    BY <1>3, <1>4, <1>7, ToldStep
  <2>5. P'.stack[1].type = "CALL"
    BY <1>2, <2>3 DEF ContextInv
  <2>6. \A k \in 1 .. n + 1 : Val(P'.stack[k]) <=> (k = 1 /\ role = "paymaster")
    <3>1. \A k \in 1 .. n : Val(P.stack[k]) <=> (k = 1 /\ role = "paymaster")
      BY <1>2 DEF ContextInv
    <3>2. \A k \in 1 .. n : Val(P'.stack[k]) <=> (k = 1 /\ role = "paymaster")
      BY <2>3, <3>1
    <3>3. Val(P'.stack[n + 1]) <=> (n + 1 = 1 /\ role = "paymaster")
      BY <2>1, <2>3
    <3>4. \A k \in 1 .. n + 1 : k \in 1 .. n \/ k = n + 1
      OBVIOUS
    <3>. QED
      BY <3>2, <3>3, <3>4
  <2>7. \A k \in 1 .. Len(P'.stack) : Val(P'.stack[k]) <=> (k = 1 /\ role' = "paymaster")
    BY <1>0, <2>3, <2>6
  <2>. QED
    BY <2>4, <2>5, <2>7 DEF ContextInv, Val
<1>8. CASE /\ EmptyFrame(i) /\ Entered(i) \in CallRec
           /\ \A e : /\ InStack(e)' <=> InStack(e)
                     /\ InOut(e)' <=> (InOut(e) \/ e = CallEntry(Entered(i), Leave(FALSE, 0)))
  <2>1. PICK x \in CallRec : x = Entered(i) /\ ~Val(x)
    BY <1>5, <1>8 DEF EmptyFrame
  <2>2. ~Val(CallEntry(x, Leave(FALSE, 0)))
    BY <2>1, ValEntry, DecodedZero
  <2>3. ~Told' /\ \A o : InOut(o)' => ~Val(o)
    BY <1>3, <1>4, <1>8, <2>1, <2>2, ToldStep
  <2>4. P'.stack = P.stack
    BY <1>0, <1>8, ParseMoves
  <2>. QED
    BY <1>0, <2>3, <2>4 DEF ContextInv, Val
<1>9. ASSUME NEW failed \in BOOLEAN, NEW context \in Contexts, NEW c, Closed(i, oog, failed, context, c)
      PROVE  ContextInv'
  <2>1. /\ Over(i, oog, failed, context) /\ c \in CallRec /\ c = P.stack[n] /\ P'.stack = Front(P.stack)
    BY <1>2, <1>9 DEF Closed
  <2>2. PICK o : o = CallEntry(c, Leave(failed, context))
    OBVIOUS
  <2>3. \A e : InOut(e)' <=> (InOut(e) \/ e = o)
    BY <1>9, <2>2 DEF Closed
  <2>4. /\ ~Val(c) => ~Val(o)
        /\ Val(c) /\ c.type = "CALL" => Val(o)
        /\ o.context = Decoded(context)
    BY <2>1, <2>2, ValEntry
  <2>5. Len(P'.stack) = n - 1 /\ \A k \in 1 .. n - 1 : P'.stack[k] = P.stack[k]
    BY <1>1, <1>2, <2>1, LastOf
  <2>6. Told' <=> Decoded(context) # 0
    BY <1>4, <2>1, ToldStep
  <2>7. Decoded(context) # 0 => role = "paymaster" /\ n = 1
    BY <1>0, <1>2, <2>1, DecodedZero DEF Over
  <2>8. Val(c) <=> (n = 1 /\ role = "paymaster")
    <3>1. n \in 1 .. Len(P.stack)
      BY <1>2
    <3>2. \A k \in 1 .. Len(P.stack) : Val(P.stack[k]) <=> (k = 1 /\ role = "paymaster")
      BY DEF ContextInv
    <3>. QED
      BY <2>1, <3>1, <3>2
  <2>9. n = 1 => frames' = <<>>
    <3>1. frames \in Seq(FrameRec) /\ frames' = Front(frames)
      BY <2>1 DEF TypeInv, Over, Pop
    <3>2. Front(frames) \in Seq(FrameRec) /\ Len(Front(frames)) = Len(frames) - 1
      BY <1>0, <3>1, LastOf
    <3>3. Len(frames) = n
      BY <1>0, <1>2
    <3>. QED
      BY <3>1, <3>2, <3>3
  <2>10. Val(o) => n = 1 /\ role = "paymaster"
    BY <2>4, <2>8
  <2>11. role = "paymaster" => "paymaster" \in DOMAIN level'
    BY <1>0 DEF TypeInv
  <2>12. c.type = "CALL" \/ n # 1
    BY <1>2, <2>1 DEF ContextInv
  <2>13. \A e : InOut(e)' /\ Val(e) => frames' = <<>> /\ "paymaster" \in DOMAIN level' /\ e = o
    BY <1>3, <2>3, <2>9, <2>10, <2>11
  <2>14. Told' => InOut(o)' /\ Val(o) /\ o.context # 0
    BY <2>3, <2>4, <2>6, <2>7, <2>8, <2>12
  <2>15. \A k \in 1 .. Len(P'.stack) : Val(P'.stack[k]) <=> (k = 1 /\ role' = "paymaster")
    <3>1. \A k \in 1 .. n : Val(P.stack[k]) <=> (k = 1 /\ role = "paymaster")
      BY <1>2 DEF ContextInv
    <3>2. \A k \in 1 .. n - 1 : k \in 1 .. n
      OBVIOUS
    <3>3. \A k \in 1 .. n - 1 : Val(P'.stack[k]) <=> (k = 1 /\ role = "paymaster")
      BY <2>5, <3>1, <3>2
    <3>. QED
      BY <1>0, <2>5, <3>3
  <2>16. Len(P'.stack) >= 1 => P'.stack[1].type = "CALL"
    <3>1. Len(P'.stack) >= 1 => 1 \in 1 .. n - 1
      BY <2>5
    <3>2. Len(P.stack) >= 1
      BY <1>2
    <3>. QED
      BY <2>5, <3>1, <3>2 DEF ContextInv
  <2>. QED
    BY <2>13, <2>14, <2>15, <2>16 DEF ContextInv, Val
<1>. QED
  BY <1>6, <1>7, <1>8, <1>9, EntryMoves

LEMMA ContextEntity ==
  ASSUME TypeInv, StackInv, OrderInv, ContextInv, NEW r \in Role, CallEntity(r)
  PROVE  ContextInv'
<1>1. /\ DOMAIN level' = DOMAIN level \cup {r} /\ r \notin DOMAIN level /\ frames = <<>> /\ role' = r
      /\ \A q \in DOMAIN level : Rank[q] < Rank[r]
  BY EntitySeen, OrderEntity
<1>2. "paymaster" \notin DOMAIN level
  <2>1. Rank["paymaster"] = 3 /\ Rank[r] \in 1 .. 3
    BY Ranks DEF Rank
  <2>. QED
    BY <1>1, <2>1
<1>3. ~Told' /\ \A o : InOut(o)' => ~Val(o)
  <2>1. \A o : InOut(o) => ~Val(o)
    BY <1>2 DEF ContextInv
  <2>2. ~Told
    BY <2>1 DEF ContextInv
  <2>3. \A o : InOut(o)' <=> InOut(o)
    BY ParseOpens DEF InOut
  <2>. QED
    BY <2>1, <2>2, <2>3, ToldEntity
<1>4. PICK x \in CallRec : x = EntityEntry(r)
  BY CallTypes DEF EntityEntry
<1>5. PICK y \in CallRec : y = FactoryEntry
  BY CallTypes DEF FactoryEntry
<1>6. x.type = "CALL" /\ (Val(x) <=> r = "paymaster") /\ ~Val(y)
  <2>1. x.type = "CALL" /\ x.to = Target[r] /\ x.method = Method[r] /\ y.method = "create"
    BY <1>4, <1>5 DEF EntityEntry, FactoryEntry, Enter
  <2>. QED
    BY <2>1 DEF Val, Target, Method, Role
<1>7. P.stack = <<>> /\ P.stack \in Seq(CallRec)
  BY <1>1, ParseTypes DEF StackInv
<1>8. P'.stack = Append(<<>>, x) \/ (r = "factory" /\ P'.stack = Append(Append(<<>>, x), y))
  BY <1>4, <1>5, <1>7, ParseOpens
<1>9. PICK s \in Seq(CallRec) : s = Append(<<>>, x) /\ Len(s) = 1 /\ s[1] = x
  <2>1. PICK e \in Seq(CallRec) : e = P.stack
    BY <1>7
  <2>0. e = <<>> /\ Len(e) = 0
    BY <1>7, <2>1
  <2>2. Append(e, x) \in Seq(CallRec) /\ Len(Append(e, x)) = 1 /\ Append(e, x)[1] = x
    BY <2>0, Appended
  <2>. QED
    BY <2>0, <2>2
<1>10. Len(Append(s, y)) = 2 /\ Append(s, y)[1] = x /\ Append(s, y)[2] = y
  BY <1>9, Appended
<1>11. CASE P'.stack = s
  <2>1. \A k \in 1 .. 1 : k = 1
    OBVIOUS
  <2>2. P'.stack[1].type = "CALL" /\ \A k \in 1 .. Len(P'.stack) : Val(P'.stack[k]) <=> (k = 1 /\ role' = "paymaster")
    BY <1>1, <1>6, <1>9, <1>11, <2>1
  <2>. QED
    BY <1>3, <2>2 DEF ContextInv, Val
<1>12. CASE r = "factory" /\ P'.stack = Append(s, y)
  <2>1. \A k \in 1 .. 2 : k = 1 \/ k = 2
    OBVIOUS
  <2>2. P'.stack[1].type = "CALL" /\ \A k \in 1 .. Len(P'.stack) : Val(P'.stack[k]) <=> (k = 1 /\ role' = "paymaster")
    BY <1>1, <1>6, <1>10, <1>12, <2>1
  <2>. QED
    BY <1>3, <2>2 DEF ContextInv, Val
<1>. QED
  BY <1>8, <1>9, <1>11, <1>12

LEMMA ContextEnd ==
  ASSUME TypeInv, StackInv, ContextInv, EndTrace
  PROVE  ContextInv'
<1>1. frames = <<>> /\ frames' = frames /\ level' = level
  BY DEF EndTrace
<1>2. P.stack = <<>>
  BY <1>1, ParseTypes DEF StackInv
<1>3. P'.stack = <<>> /\ P'.out = Append(P.out, CallEntry(Top, Leave(TRUE, 0)))
  BY <1>2, ParseEnds
<1>4. PICK d \in CallRec : d = Leave(TRUE, 0) /\ d.type = "REVERT" /\ d.context = 0
  BY CallTypes, EnterLeave
<1>5. PICK x \in OutOf(CallRec) : x = CallEntry(Top, d)
  BY EntryTypes
<1>6. ~Val(x)
  <2>1. Top.type = "top" /\ Top.method = "validateUserOp"
    BY DEF Top, Enter
  <2>2. "validateUserOp" \notin Named
    BY DEF Named
  <2>3. x.method = IF Top.type = "CREATE2" THEN "" ELSE IF d.type = "REVERT" /\ Top.method \notin Named THEN "undefined" ELSE Top.method
    BY <1>5 DEF CallEntry
  <2>4. x.method = "undefined"
    BY <1>4, <2>1, <2>2, <2>3
  <2>. QED
    BY <2>4 DEF Val
<1>7. \A e : InOut(e)' <=> (InOut(e) \/ e = x)
  BY <1>3, <1>4, <1>5, ParseTypes, OutGrows
<1>8. Told' <=> Told
  BY <1>4, CallsGrow, NoneDecoded DEF EndTrace, Told
<1>9. Len(P'.stack) = 0 /\ \A k : k \notin 1 .. 0
  BY <1>3
<1>10. \A k \in 1 .. Len(P'.stack) : Val(P'.stack[k]) <=> (k = 1 /\ role' = "paymaster")
  BY <1>9
<1>11. ~(Len(P'.stack) >= 1)
  BY <1>9
<1>12. /\ \A o : InOut(o)' /\ Val(o) => frames' = <<>> /\ "paymaster" \in DOMAIN level'
       /\ \A o, p : InOut(o)' /\ InOut(p)' /\ Val(o) /\ Val(p) => o = p
       /\ Told' => \E o : InOut(o)' /\ Val(o) /\ o.context # 0
  BY <1>1, <1>6, <1>7, <1>8 DEF ContextInv
<1>. QED
  BY <1>10, <1>11, <1>12 DEF ContextInv, Val

-----------------------------------------------------------------------------
(* All of it                                                               *)

DoneInv == ended => DOMAIN level = entities

RuleInv ==
  /\ TypeInv /\ OrderInv /\ AccessInv /\ StackInv /\ DoneInv
  /\ OogInv /\ CountInv /\ GasInv /\ EmptyInv /\ KeccakInv /\ WindowInv /\ ExtInv /\ EntryInv

LEMMA RuleInit ==
  ASSUME Init
  PROVE  RuleInv /\ ContextInv
<1>1. /\ DOMAIN level = {} /\ steps = <<>> /\ frames = <<>> /\ left = <<>> /\ calls = <<>> /\ ended = FALSE
      /\ lastOp = "" /\ keccak = {}
  BY DEF Init
<1>0. steps = <<>> /\ calls = <<>> /\ frames = <<>> /\ left = <<>>
  BY DEF Init
<1>2. Steps = {}
  <2>1. Len(steps) = 0
    BY <1>0
  <2>. QED
    BY <2>1 DEF Steps
<1>3. P = Nothing
  BY <1>1, ParseEmpty DEF P, ParseCallStack
<1>4. P.stack = <<>> /\ P.out = <<>>
  BY <1>3 DEF Nothing
<1>5. \A e : ~InStack(e) /\ ~InOut(e)
  BY <1>4 DEF InStack, InOut
<1>6. ~Told
  <2>1. Len(calls) = 0
    BY <1>0
  <2>. QED
    BY <2>1 DEF Told
<1>7. EntryInv
  BY <1>2, <1>5 DEF EntryInv
<1>8. ContextInv
  BY <1>4, <1>5, <1>6 DEF ContextInv
<1>9. StackInv
  <2>1. ~ended
    BY DEF Init
  <2>2. Len(frames) = 0 /\ Len(left) = 0 /\ Len(P.stack) = 0 /\ Len(P.out) = 0
    BY <1>0, <1>4
  <2>. QED
    BY <2>1, <2>2 DEF StackInv
<1>10. OrderInv /\ AccessInv /\ DoneInv /\ OogInv
  BY <1>1, <1>2 DEF OrderInv, AccessInv, DoneInv, OogInv
<1>11. CountInv
  BY <1>1, <1>2 DEF CountInv
<1>12. GasInv
  BY <1>1, <1>2 DEF GasInv, Lone
<1>13. EmptyInv /\ KeccakInv
  BY <1>1, <1>2 DEF EmptyInv, KeccakInv
<1>14. WindowInv /\ ExtInv
  BY <1>1, <1>2 DEF WindowInv, ExtInv
<1>. QED
  BY <1>7, <1>8, <1>9, <1>10, <1>11, <1>12, <1>13, <1>14, TypeInit DEF RuleInv

LEMMA RuleStill ==
  ASSUME UNCHANGED vars
  PROVE  (RuleInv => RuleInv') /\ (ContextInv => ContextInv')
<1>1. /\ entities' = entities /\ code' = code /\ frames' = frames /\ steps' = steps /\ left' = left /\ ended' = ended
      /\ role' = role /\ level' = level /\ lastOp' = lastOp /\ lastThree' = lastThree /\ keccak' = keccak /\ calls' = calls
  BY DEF vars, evmVars, tracerVars
<1>2. P' = P /\ Steps' = Steps
  BY <1>1 DEF P, ParseCallStack, Steps
<1>3. \A e : (InStack(e)' <=> InStack(e)) /\ (InOut(e)' <=> InOut(e))
  BY <1>2 DEF InStack, InOut
<1>4. (TypeInv => TypeInv') /\ (StackInv => StackInv') /\ (DoneInv => DoneInv') /\ (OrderInv => OrderInv')
  BY <1>1, <1>2 DEF TypeInv, TracerTypeOK, StackInv, DoneInv, OrderInv
<1>5. (AccessInv => AccessInv') /\ (OogInv => OogInv') /\ (CountInv => CountInv') /\ (KeccakInv => KeccakInv')
  BY <1>1, <1>2 DEF AccessInv, Stores, OogInv, CountInv, KeccakInv, Op, By
<1>6. GasInv => GasInv'
  BY <1>1, <1>2 DEF GasInv, Lone, Op, By
<1>7. EmptyInv => EmptyInv'
  BY <1>1, <1>2 DEF EmptyInv, Met, WithCode, To, By, Meets
<1>8. (WindowInv => WindowInv') /\ (ExtInv => ExtInv')
  BY <1>1, <1>2 DEF WindowInv, ExtInv, Newest, Shown, Op, To, By, Before, Looks, SizeThenZero
<1>9. EntryInv => EntryInv'
  BY <1>1, <1>2, <1>3 DEF EntryInv, Source, Sound, Shows, Failed, Op, To
<1>10. ContextInv => ContextInv'
  BY <1>1, <1>2, <1>3 DEF ContextInv, Val, Told
<1>. QED
  BY <1>4, <1>5, <1>6, <1>7, <1>8, <1>9, <1>10 DEF RuleInv

LEMMA RuleNext ==
  ASSUME RuleInv, [Next]_vars
  PROVE  RuleInv'
<1>0. /\ TypeInv /\ OrderInv /\ AccessInv /\ StackInv /\ DoneInv
      /\ OogInv /\ CountInv /\ GasInv /\ EmptyInv /\ KeccakInv /\ WindowInv /\ ExtInv /\ EntryInv
  BY DEF RuleInv
<1>1. CASE UNCHANGED vars
  BY <1>1, RuleStill
<1>2. ASSUME NEW r \in Role, CallEntity(r) PROVE RuleInv'
  <2>1. DoneInv'
    BY <1>2 DEF DoneInv, CallEntity
  <2>2. TypeInv' /\ OrderInv' /\ AccessInv' /\ StackInv'
    BY <1>0, <1>2, TypeEntity, OrderEntity, AccessEntity, StackEntity
  <2>3. OogInv' /\ CountInv' /\ GasInv' /\ EmptyInv' /\ KeccakInv'
    BY <1>0, <1>2, CountsEntity, EmptyEntity
  <2>4. WindowInv' /\ ExtInv' /\ EntryInv'
    BY <1>0, <1>2, WindowEntity, EntryEntity
  <2>. QED
    BY <2>1, <2>2, <2>3, <2>4 DEF RuleInv
<1>3. ASSUME NEW i \in Ran, NEW oog \in BOOLEAN, Step(i, oog) PROVE RuleInv'
  <2>1. DoneInv'
    <3>1. frames # <<>> /\ ended' = ended
      BY <1>3 DEF Step, Runs
    <3>. QED
      BY <1>0, <3>1 DEF DoneInv, TypeInv
  <2>2. TypeInv' /\ OrderInv' /\ AccessInv' /\ StackInv'
    BY <1>0, <1>3, TypeStep, OrderStep, AccessStep, StackStep
  <2>3. OogInv' /\ CountInv' /\ GasInv' /\ EmptyInv' /\ KeccakInv'
    BY <1>0, <1>3, OogStep, CountStep, GasStep, EmptyStep, KeccakStep
  <2>4. WindowInv' /\ ExtInv' /\ EntryInv'
    BY <1>0, <1>3, WindowStep, ExtStep, EntryStep
  <2>. QED
    BY <2>1, <2>2, <2>3, <2>4 DEF RuleInv
<1>4. CASE EndTrace
  <2>1. DoneInv' /\ UNCHANGED <<role, level, entities, steps>>
    BY <1>4 DEF DoneInv, EndTrace
  <2>2. OrderInv' /\ AccessInv'
    BY <1>0, <2>1 DEF OrderInv, AccessInv, Steps, Stores
  <2>3. TypeInv' /\ StackInv' /\ OogInv' /\ CountInv' /\ GasInv' /\ EmptyInv' /\ KeccakInv'
    BY <1>0, <1>4, TypeEnd, StackEnd, CountsEnd, EmptyEnd
  <2>4. WindowInv' /\ ExtInv' /\ EntryInv'
    BY <1>0, <1>4, WindowEnd, EntryEnd
  <2>. QED
    BY <2>1, <2>2, <2>3, <2>4 DEF RuleInv
<1>. QED
  BY <1>0, <1>1, <1>2, <1>3, <1>4, NextCases

\* What the levels, the history and the parsed call stack keep is what the
\* instructions that were executed make them keep.
THEOREM RulesKept == Spec => []RuleInv
<1>1. Init => RuleInv
  BY RuleInit
<1>2. RuleInv /\ [Next]_vars => RuleInv'
  BY RuleNext
<1>. QED
  BY <1>1, <1>2, PTL DEF Spec

\* The context that the paymaster returned is that of the entry in which the parser
\* looks for it, where nobody but the EntryPoint has the paymaster validate
\* (TracerResultParser.ts:440-450).
THEOREM ContextKept == OnlyEntryPointValidates /\ Spec => [](RuleInv /\ ContextInv)
<1>. DEFINE Both == OnlyEntryPointValidates /\ ContextInv
<1>1. OnlyEntryPointValidates /\ Init => Both
  BY RuleInit
<1>2. RuleInv /\ Both /\ [Next]_vars => Both'
  <2>. SUFFICES ASSUME OnlyEntryPointValidates, RuleInv, ContextInv, [Next]_vars PROVE ContextInv'
    OBVIOUS
  <2>1. TypeInv /\ StackInv /\ OrderInv
    BY DEF RuleInv
  <2>. QED
    BY <2>1, NextCases, RuleStill, ContextEntity, ContextStep, ContextEnd
<1>. QED
  BY <1>1, <1>2, RulesKept, PTL DEF Spec

-----------------------------------------------------------------------------
(* The rules                                                               *)

\* when the trace has ended
LEMMA WhenEnded ==
  ASSUME RuleInv, ended
  PROVE  /\ DOMAIN steps = Steps /\ DOMAIN P.out = 1 .. Len(P.out)
         /\ DOMAIN level = entities /\ entities \subseteq Role
         /\ \A k \in Steps : steps[k].role \in entities
         /\ \A e : ~InStack(e)
         /\ \A k \in Steps : Op(k) = "GAS" \/ Looks(k) => k + 1 \in Steps /\ After(k) = Op(k + 1)
<1>1. /\ TypeInv /\ OrderInv /\ StackInv /\ DoneInv /\ GasInv /\ WindowInv
  BY DEF RuleInv
<1>2. DOMAIN steps = Steps /\ Len(steps) \in Nat
  BY <1>1 DEF TypeInv, Steps
<1>3. DOMAIN P.out = 1 .. Len(P.out) /\ P.stack \in Seq(CallRec)
  BY <1>1, ParseTypes
<1>4. DOMAIN level = entities /\ entities \subseteq Role
  BY <1>1 DEF DoneInv, TypeInv, TracerTypeOK
<1>5. \A k \in Steps : steps[k].role \in entities
  BY <1>1, <1>4 DEF OrderInv
<1>6. frames = <<>>
  BY <1>1 DEF StackInv
<1>7. \A e : ~InStack(e)
  <2>1. Len(P.stack) = 0
    BY <1>1, <1>6 DEF StackInv
  <2>. QED
    BY <2>1 DEF InStack
<1>8. ASSUME NEW k \in Steps, Op(k) = "GAS" \/ Looks(k)
      PROVE  k + 1 \in Steps /\ After(k) = Op(k + 1)
  <2>1. Op(k) = "GAS" \/ Op(k) \in ExtOps
    BY <1>8 DEF Looks, Op
  <2>2. k # Len(steps)
    BY <1>1, <1>6, <2>1 DEF GasInv, WindowInv, Newest
  <2>3. k + 1 \in Steps
    <3>1. PICK n \in Nat : n = Len(steps)
      BY <1>2
    <3>2. k \in 1 .. n /\ k # n
      BY <2>2, <3>1 DEF Steps
    <3>3. k + 1 \in 1 .. n
      BY <3>2
    <3>. QED
      BY <3>1, <3>3 DEF Steps
  <2>. QED
    BY <2>2, <2>3 DEF After, Op
<1>. QED
  BY <1>2, <1>3, <1>4, <1>5, <1>7, <1>8

LEMMA OwnSlots ==
  ASSUME RuleInv, NEW slot, NEW a
  PROVE  OwnSlot(slot, a) <=> AssociatedWith(slot, a)
<1>1. KeccakInv /\ DOMAIN steps = Steps
  BY DEF RuleInv, TypeInv, Steps
<1>2. a \in keccak <=> \E k \in Steps : steps[k].i.op = "KECCAK256" /\ steps[k].i.owner = a
  BY <1>1 DEF KeccakInv, Op
<1>. QED
  BY <1>1, <1>2 DEF OwnSlot, AssociatedWith

LEMMA CountNat ==
  ASSUME RuleInv, NEW r \in DOMAIN level
  PROVE  CountOf(level[r].opcodes, "CREATE2") \in Nat
<1>1. level[r] \in LevelRec
  BY DEF RuleInv, TypeInv
<1>2. level[r].opcodes \in Counts
  BY <1>1 DEF LevelRec
<1>3. \A x \in DOMAIN level[r].opcodes : level[r].opcodes[x] \in Nat
  BY <1>2 DEF Counts
<1>. QED
  BY <1>3 DEF CountOf

LEMMA AcceptedOpcodes ==
  ASSUME RuleInv, ended, \A r \in entities : OpcodesAllowed(r), NEW k \in Steps
  PROVE  LawfulOpcode(k) \/ LooksLikeCall(k)
<1>. DEFINE r == steps[k].role
<1>1. OogInv /\ CountInv /\ GasInv
  BY DEF RuleInv
<1>2. /\ DOMAIN steps = Steps /\ DOMAIN level = entities /\ \A j \in Steps : steps[j].role \in entities
      /\ Op(k) = "GAS" => k + 1 \in Steps /\ After(k) = Op(k + 1)
  BY WhenEnded
<1>3. ~level[r].oog /\ DOMAIN level[r].opcodes \cap Banned = {}
  BY <1>2 DEF OpcodesAllowed
<1>4. ~steps[k].oog
  BY <1>1, <1>2, <1>3 DEF OogInv, By
<1>5. ASSUME Op(k) \in Banned
      PROVE  Op(k) = "GAS" /\ After(k) \in NamedCall
  <2>1. Op(k) = "GAS"
    <3>1. Op(k) \notin Unimportant
      BY <1>5 DEF Banned, Unimportant
    <3>2. Op(k) # "GAS" => Op(k) \in DOMAIN level[r].opcodes
      BY <1>1, <3>1 DEF CountInv
    <3>. QED
      BY <1>3, <1>5, <3>2
  <2>2. ~Lone(k)
    <3>1. "GAS" \notin DOMAIN level[r].opcodes
      BY <1>3, <1>5, <2>1
    <3>. QED
      BY <1>1, <3>1 DEF GasInv
  <2>. QED
    BY <1>2, <2>1, <2>2 DEF Lone
<1>6. \A q \in entities : /\ CountOf(level[q].opcodes, "CREATE2") \in Nat
                          /\ q # "factory" => ~(CountOf(level[q].opcodes, "CREATE2") >= 1)
                          /\ q = "factory" => ~(CountOf(level[q].opcodes, "CREATE2") >= 2)
  BY <1>2, CountNat DEF OpcodesAllowed
<1>7. \A j \in Steps : Op(j) = "CREATE2" => steps[j].role = "factory"
  BY <1>1, <1>2, <1>6 DEF CountInv, By
<1>8. ASSUME NEW j \in Steps, Op(j) = "CREATE2", Op(k) = "CREATE2"
      PROVE  j = k
  <2>1. By(j, "factory") /\ By(k, "factory") /\ "factory" \in entities
    BY <1>2, <1>7, <1>8 DEF By
  <2>2. ~(j < k) /\ ~(k < j)
    BY <1>1, <1>2, <1>6, <1>8, <2>1 DEF CountInv
  <2>. QED
    BY <2>2 DEF Steps
<1>9. Op(k) = "GAS" /\ After(k) \notin CallOps => LooksLikeCall(k)
  BY <1>4, <1>5 DEF LooksLikeCall, Op, Banned
<1>. QED
  BY <1>2, <1>4, <1>5, <1>7, <1>8, <1>9 DEF LawfulOpcode, Creates, Op

LEMMA AcceptedCalls ==
  ASSUME RuleInv, ended, CallsAllowed(P.out), NEW k \in Steps
  PROVE  LawfulCall(k)
<1>. SUFFICES ASSUME Op(k) \in CallOps PROVE LawfulCall(k)
  BY DEF LawfulCall, Op
<1>1. EntryInv /\ DOMAIN P.out = 1 .. Len(P.out) /\ \A e : ~InStack(e)
  BY WhenEnded DEF RuleInv
<1>2. PICK o : InOut(o) /\ Shows(o, k)
  BY <1>1 DEF EntryInv
<1>3. steps[k].at # EntryPoint
  BY <1>1 DEF EntryInv
<1>4. PICK m \in 1 .. Len(P.out) : P.out[m] = o
  BY <1>2 DEF InOut
<1>5. /\ o.to = EntryPoint /\ o.from # EntryPoint => o.method \in {"0x", "depositTo"}
      /\ o.value => o.to = EntryPoint
  BY <1>1, <1>4 DEF CallsAllowed
<1>6. /\ o.to = steps[k].i.to /\ o.value = steps[k].i.value /\ o.from # EntryPoint
      /\ o.method = steps[k].i.method \/ o.method = "undefined"
  BY <1>2, <1>3 DEF Shows, To
<1>7. "undefined" \notin {"0x", "depositTo"}
  OBVIOUS
<1>. QED
  BY <1>5, <1>6, <1>7 DEF LawfulCall

LEMMA AcceptedTargets ==
  ASSUME RuleInv, ended, \A r \in entities : CodeAllowed(r), NEW k \in Steps
  PROVE  LawfulTarget(k) /\ (Looks(k) => Safe(k) \/ After(k) \in Flushes)
<1>. DEFINE r == steps[k].role
<1>1. EmptyInv /\ ExtInv
  BY DEF RuleInv
<1>2. /\ DOMAIN level = entities /\ r \in entities
      /\ Looks(k) => k + 1 \in Steps /\ After(k) = Op(k + 1)
  BY WhenEnded
<1>3. level[r].empty \subseteq {Sender} /\ EntryPoint \notin level[r].ext
  BY <1>2 DEF CodeAllowed
<1>4. ASSUME Meets(k), To(k) \notin Precompile \cup {Sender}
      PROVE  \E j \in 1 .. k : Meets(j) /\ steps[j].i.to = steps[k].i.to /\ steps[j].role = r /\ steps[j].hasCode
  <2>1. Met(k, r, To(k))
    BY <1>4 DEF Met, By
  <2>2. WithCode(k, r, To(k))
    BY <1>1, <1>2, <1>3, <1>4, <2>1 DEF EmptyInv
  <2>3. PICK j \in Steps : j <= k /\ Met(j, r, To(k)) /\ steps[j].hasCode
    BY <2>2 DEF WithCode
  <2>4. j \in 1 .. k
    BY <2>3 DEF Steps
  <2>. QED
    BY <2>3, <2>4 DEF Met, By, To
<1>5. LawfulTarget(k)
  BY <1>4 DEF LawfulTarget, To
<1>6. ASSUME Looks(k) PROVE Safe(k) \/ After(k) \in Flushes
  <2>1. SizeThenZero(k) \/ Op(k + 1) \in Flushes
    BY <1>1, <1>2, <1>3, <1>6 DEF ExtInv
  <2>. QED
    BY <1>2, <1>6, <2>1 DEF SizeThenZero, Safe, Op
<1>. QED
  BY <1>5, <1>6

LEMMA AcceptedStorage ==
  ASSUME RuleInv, ended, NEW S, \A r \in entities : StorageAllowed(r, S), NEW k \in Steps
  PROVE  LawfulStorage(k, S)
<1>. DEFINE r == steps[k].role
            a == steps[k].at
            slot == steps[k].i.slot
            own == Entity[r]
<1>. SUFFICES ASSUME Op(k) \in {"SLOAD", "SSTORE"} PROVE LawfulStorage(k, S)
  BY DEF LawfulStorage, Op
<1>1. AccessInv /\ r \in entities
  BY WhenEnded DEF RuleInv
<1>2. /\ <<a, slot>> \in level[r].reads \cup level[r].writes
      /\ Op(k) = "SSTORE" => <<a, slot>> \in level[r].writes
  BY <1>1 DEF AccessInv, Op
<1>3. /\ OwnSlot(slot, Sender) <=> AssociatedWith(slot, Sender)
      /\ OwnSlot(slot, own) <=> AssociatedWith(slot, own)
  BY OwnSlots
<1>4. \/ a \in {Sender, EntryPoint}
      \/ SlotNeeds(r, S, a, slot) = "nothing"
      \/ SlotNeeds(r, S, a, slot) = "stake" /\ r \in S
  <2>0. PICK x : x = <<a, slot>>
    OBVIOUS
  <2>1. x = <<a, slot>> /\ x[1] = a /\ x[2] = slot
    BY <2>0
  <2>2. x \in level[r].reads \cup level[r].writes
    BY <1>2, <2>1
  <2>. QED
    BY <1>1, <2>1, <2>2 DEF StorageAllowed
<1>5. CASE a \in {Sender, EntryPoint}
  BY <1>5 DEF LawfulStorage
<1>6. CASE AssociatedWith(slot, Sender)
  <2>1. SlotNeeds(r, S, a, slot) = IF "factory" \notin entities \/ (r = "account" /\ "factory" \in S) THEN "nothing" ELSE "stake"
    BY <1>6 DEF SlotNeeds
  <2>2. a \in {Sender, EntryPoint} \/ ("factory" \in entities => r \in S \/ (r = "account" /\ "factory" \in S))
    BY <1>4, <2>1
  <2>. QED
    BY <1>3, <1>5, <1>6, <2>2 DEF LawfulStorage
<1>7. CASE ~AssociatedWith(slot, Sender)
  <2>1. SlotNeeds(r, S, a, slot) = IF AssociatedWith(slot, own) \/ a = own \/ <<a, slot>> \notin level[r].writes THEN "stake" ELSE "ban"
    BY <1>7 DEF SlotNeeds
  <2>2. a \in {Sender, EntryPoint} \/ (r \in S /\ (AssociatedWith(slot, own) \/ a = own \/ <<a, slot>> \notin level[r].writes))
    BY <1>4, <2>1
  <2>3. a \in {Sender, EntryPoint} \/ (r \in S /\ ~OwnSlot(slot, Sender) /\ (OwnSlot(slot, own) \/ a = own \/ steps[k].i.op = "SLOAD"))
    BY <1>2, <1>3, <1>7, <2>2 DEF Op
  <2>. QED
    BY <2>3 DEF LawfulStorage
<1>. QED
  BY <1>6, <1>7

LEMMA RejectedOpcodes ==
  ASSUME RuleInv, ended, NEW r \in entities, ~OpcodesAllowed(r)
  PROVE  \E k \in Steps : ~(LawfulOpcode(k) \/ LooksLikeCall(k))
<1>1. OogInv /\ CountInv /\ GasInv
  BY DEF RuleInv
<1>2. /\ DOMAIN steps = Steps /\ r \in DOMAIN level
      /\ \A k \in Steps : Op(k) = "GAS" => After(k) = Op(k + 1)
  BY WhenEnded
<1>3. CASE level[r].oog
  BY <1>1, <1>2, <1>3 DEF OogInv, LawfulOpcode, LooksLikeCall
<1>4. ASSUME NEW op \in DOMAIN level[r].opcodes \cap Banned
      PROVE  \E k \in Steps : ~(LawfulOpcode(k) \/ LooksLikeCall(k))
  <2>1. CASE op = "GAS"
    <3>1. PICK k \in Steps : Lone(k)
      BY <1>1, <1>2, <1>4, <2>1 DEF GasInv
    <3>2. Op(k) = "GAS" /\ After(k) \notin NamedCall
      BY <1>2, <3>1 DEF Lone
    <3>3. Op(k) \in Banned
      BY <1>4, <2>1, <3>2
    <3>. QED
      BY <3>2, <3>3 DEF LawfulOpcode, LooksLikeCall, NamedCall, Op
  <2>2. CASE op # "GAS"
    <3>1. op # "CALL"
      BY <1>4 DEF Banned
    <3>2. PICK k \in Steps : Op(k) = op
      BY <1>1, <1>2, <1>4, <2>2, <3>1 DEF CountInv
    <3>. QED
      BY <1>4, <2>2, <3>2 DEF LawfulOpcode, LooksLikeCall, Op
  <2>. QED
    BY <2>1, <2>2
<1>5. CASE ~(CountOf(level[r].opcodes, "CREATE2") <= IF r = "factory" THEN 1 ELSE 0)
  <2>1. CountOf(level[r].opcodes, "CREATE2") \in Nat
    BY <1>2, CountNat
  <2>2. CASE r = "factory"
    <3>1. CountOf(level[r].opcodes, "CREATE2") >= 2
      BY <1>5, <2>1, <2>2
    <3>2. PICK j \in Steps, k \in Steps : j < k /\ Op(j) = "CREATE2" /\ Op(k) = "CREATE2"
      BY <1>1, <1>2, <3>1 DEF CountInv
    <3>3. j # k
      BY <3>2 DEF Steps
    <3>. QED
      BY <1>2, <3>2, <3>3 DEF LawfulOpcode, LooksLikeCall, Creates, Op
  <2>3. CASE r # "factory"
    <3>1. CountOf(level[r].opcodes, "CREATE2") >= 1
      BY <1>5, <2>1, <2>3
    <3>2. PICK k \in Steps : By(k, r) /\ Op(k) = "CREATE2"
      BY <1>1, <1>2, <3>1 DEF CountInv
    <3>. QED
      BY <2>3, <3>2 DEF LawfulOpcode, LooksLikeCall, Creates, Op, By
  <2>. QED
    BY <2>2, <2>3
<1>. QED
  BY <1>3, <1>4, <1>5 DEF OpcodesAllowed

LEMMA RejectedCode ==
  ASSUME RuleInv, ended, NEW r \in entities, ~CodeAllowed(r)
  PROVE  \E k \in Steps : ~LawfulTarget(k) \/ (Looks(k) /\ (Safe(k) => Before(k) \in Flushes))
<1>1. EmptyInv /\ ExtInv
  BY DEF RuleInv
<1>2. r \in DOMAIN level /\ \A k \in Steps : Looks(k) => After(k) = Op(k + 1)
  BY WhenEnded
<1>3. ASSUME NEW a \in level[r].empty, a # Sender
      PROVE  \E k \in Steps : ~LawfulTarget(k)
  <2>1. PICK k \in Steps : a \notin Precompile /\ Met(k, r, a) /\ ~WithCode(k, r, a)
    BY <1>1, <1>2, <1>3 DEF EmptyInv
  <2>2. Meets(k) /\ steps[k].i.to = a /\ steps[k].role = r
    BY <2>1 DEF Met, By, To
  <2>3. ASSUME NEW j \in 1 .. k, Meets(j), steps[j].i.to = a, steps[j].role = r, steps[j].hasCode
        PROVE  FALSE
    <3>1. j \in Steps /\ j <= k
      BY DEF Steps
    <3>. QED
      BY <2>1, <2>3, <3>1 DEF WithCode, Met, By, To
  <2>. QED
    BY <1>3, <2>1, <2>2, <2>3 DEF LawfulTarget
<1>4. CASE EntryPoint \in level[r].ext
  <2>1. PICK k \in Steps : Looks(k) /\ (SizeThenZero(k) => Before(k) \in Flushes)
    BY <1>1, <1>2, <1>4 DEF ExtInv
  <2>. QED
    BY <1>2, <2>1 DEF SizeThenZero, Safe, Op
<1>. QED
  BY <1>3, <1>4 DEF CodeAllowed

LEMMA RejectedCalls ==
  ASSUME RuleInv, ended, ~CallsAllowed(P.out)
  PROVE  \/ \E k \in Steps : ~LawfulCall(k) \/ steps[k].oog
         \/ \E k \in Steps : steps[k].callee = EntryPoint /\ Op(k) = "REVERT"
<1>1. EntryInv /\ DOMAIN P.out = 1 .. Len(P.out)
  BY WhenEnded DEF RuleInv
<1>2. PICK m \in 1 .. Len(P.out) :
        ~ /\ P.out[m].to = EntryPoint /\ P.out[m].from # EntryPoint => P.out[m].method \in {"0x", "depositTo"}
          /\ P.out[m].value => P.out[m].to = EntryPoint
  BY <1>1 DEF CallsAllowed
<1>3. PICK o : o = P.out[m]
  OBVIOUS
<1>4. Sound(o)
  BY <1>1, <1>3 DEF EntryInv, InOut
<1>5. \/ o.to = EntryPoint /\ o.from # EntryPoint /\ o.method \notin {"0x", "depositTo"}
      \/ o.value /\ o.to # EntryPoint
  BY <1>2, <1>3
<1>6. PICK j \in Steps : /\ Op(j) \in CallOps /\ To(j) = o.to /\ steps[j].i.value = o.value
                         /\ steps[j].i.method = o.method \/ (o.to = EntryPoint => Failed)
  BY <1>4, <1>5 DEF Sound
<1>7. CASE o.value /\ o.to # EntryPoint
  BY <1>6, <1>7 DEF LawfulCall, Op, To
<1>8. CASE o.to = EntryPoint /\ o.method \notin {"0x", "depositTo"} /\ steps[j].i.method = o.method
  BY <1>6, <1>8 DEF LawfulCall, Op, To
<1>9. CASE o.to = EntryPoint /\ Failed
  BY <1>9 DEF Failed
<1>. QED
  BY <1>5, <1>6, <1>7, <1>8, <1>9

LEMMA RejectedStorage ==
  ASSUME RuleInv, ended, NEW S, NEW r \in entities, ~StorageAllowed(r, S)
  PROVE  \E k \in Steps : ~LawfulStorage(k, S)
<1>1. AccessInv /\ r \in DOMAIN level
  BY WhenEnded DEF RuleInv
<1>2. PICK x \in level[r].reads \cup level[r].writes :
        /\ x[1] \notin {Sender, EntryPoint}
        /\ SlotNeeds(r, S, x[1], x[2]) # "nothing"
        /\ SlotNeeds(r, S, x[1], x[2]) = "stake" => r \notin S
  BY DEF StorageAllowed
<1>3. \E k \in Steps : \/ Stores(k, r, "SSTORE", x)
                       \/ Stores(k, r, "SLOAD", x) /\ x \notin level[r].writes
  BY <1>1 DEF AccessInv
<1>. PICK k \in Steps : \/ Stores(k, r, "SSTORE", x)
                        \/ Stores(k, r, "SLOAD", x) /\ x \notin level[r].writes
  BY <1>3
<1>. PICK a, slot : a = steps[k].at /\ slot = steps[k].i.slot
  OBVIOUS
<1>4. /\ steps[k].role = r /\ steps[k].at = a /\ steps[k].i.slot = slot /\ x = <<a, slot>>
      /\ Op(k) = "SSTORE" \/ (Op(k) = "SLOAD" /\ x \notin level[r].writes)
  BY DEF Stores, Op
<1>5. x[1] = a /\ x[2] = slot
  BY <1>4
<1>6. /\ a \notin {Sender, EntryPoint}
      /\ SlotNeeds(r, S, a, slot) # "nothing"
      /\ SlotNeeds(r, S, a, slot) = "stake" => r \notin S
  BY <1>2, <1>5
<1>7. PICK own : own = Entity[r]
  OBVIOUS
<1>8. /\ OwnSlot(slot, Sender) <=> AssociatedWith(slot, Sender)
      /\ OwnSlot(slot, own) <=> AssociatedWith(slot, own)
  BY OwnSlots
<1>9. SlotNeeds(r, S, a, slot) =
        IF AssociatedWith(slot, Sender)
        THEN IF "factory" \notin entities \/ (r = "account" /\ "factory" \in S) THEN "nothing" ELSE "stake"
        ELSE IF AssociatedWith(slot, own) \/ a = own \/ x \notin level[r].writes THEN "stake" ELSE "ban"
  BY <1>4, <1>7 DEF SlotNeeds
<1>10. LawfulStorage(k, S) =>
         \/ a \in {Sender, EntryPoint}
         \/ /\ OwnSlot(slot, Sender)
            /\ "factory" \in entities => r \in S \/ (r = "account" /\ "factory" \in S)
         \/ /\ r \in S /\ ~OwnSlot(slot, Sender)
            /\ OwnSlot(slot, own) \/ a = own \/ Op(k) = "SLOAD"
  BY <1>4, <1>7 DEF LawfulStorage, Op
<1>11. Op(k) = "SLOAD" => x \notin level[r].writes
  BY <1>4
<1>. HIDE DEF SlotNeeds, AssociatedWith, OwnSlot, LawfulStorage
<1>12. CASE AssociatedWith(slot, Sender)
  BY <1>6, <1>8, <1>9, <1>10, <1>12
<1>13. CASE ~AssociatedWith(slot, Sender)
  BY <1>6, <1>8, <1>9, <1>10, <1>11, <1>13
<1>. QED
  BY <1>12, <1>13

\* the first entry of the paymaster's validation
LEMMA ContextFound ==
  ASSUME RuleInv, ended
  PROVE  /\ ReturnsContext => Told
         /\ ContextInv /\ Told => ReturnsContext
<1>. DEFINE out == ParseCallStack.out
            found == {k \in DOMAIN out : /\ out[k].method = "validatePaymasterUserOp" /\ out[k].to = Paymaster}
            first == CHOOSE k \in found : \A j \in found : k <= j
<1>0. EntryInv /\ DOMAIN out = 1 .. Len(out) /\ Len(out) \in Nat /\ out = P.out
  <2>1. TypeInv
    BY DEF RuleInv
  <2>2. P.out \in Seq(OutOf(CallRec))
    BY <2>1, ParseTypes
  <2>. QED
    BY <2>2 DEF RuleInv, P
<1>1. found # {} => first \in found
  <2>1. found \subseteq Nat
    BY <1>0
  <2>. HIDE DEF found
  <2>2. found # {} => \E k \in found : \A j \in found : k <= j
    BY <2>1, SmallestExists
  <2>. QED
    BY <2>2
<1>2. \A k \in found : InOut(out[k]) /\ Val(out[k])
  BY <1>0 DEF InOut, Val
<1>3. \A o : InOut(o) /\ Val(o) => \E k \in found : out[k] = o
  BY <1>0 DEF InOut, Val
<1>4. ReturnsContext <=> found # {} /\ out[first].context # 0
  BY DEF ReturnsContext
<1>. HIDE DEF found, first, out
<1>5. ReturnsContext => Told
  <2>. SUFFICES ASSUME ReturnsContext PROVE Told
    OBVIOUS
  <2>1. InOut(out[first]) /\ out[first].context # 0
    BY <1>1, <1>2, <1>4
  <2>. QED
    BY <1>0, <2>1 DEF EntryInv, Told
<1>6. ASSUME ContextInv, Told PROVE ReturnsContext
  <2>1. PICK o : InOut(o) /\ Val(o) /\ o.context # 0
    BY <1>6 DEF ContextInv
  <2>2. found # {}
    BY <1>3, <2>1
  <2>3. out[first] = o
    BY <1>1, <1>2, <1>6, <2>1, <2>2 DEF ContextInv
  <2>. QED
    BY <1>4, <2>1, <2>2, <2>3
<1>. QED
  BY <1>5, <1>6

\* a context that the parser does not see has made the result too long as well
LEMMA ParsedDecodes ==
  ASSUME TypeInv, ResultParsed, NEW k \in 1 .. Len(calls)
  PROVE  Decoded(calls[k].context) = calls[k].context
<1>1. calls \in Seq(CallRec) /\ DOMAIN calls = 1 .. Len(calls)
  BY DEF TypeInv
<1>2. calls[k] \in CallRec
  BY <1>1
<1>3. calls[k].context \in Nat
  BY <1>2, InstrAssumption DEF CallRec
<1>4. ~(4 + 32 * (14 + calls[k].context) > 1999)
  BY <1>1 DEF ResultParsed, Cut
<1>5. ~(32 * (3 + calls[k].context) > 1999)
  BY <1>3, <1>4
<1>. QED
  BY <1>5 DEF Decoded, Cut

\* An operation is rejected only for an instruction that broke a rule, or for one
\* of the two things that break none and are rejected all the same: whatever the
\* instructions, the frames and the stakes (TracerResultParser.ts:199-522).
THEOREM RejectedAlways == Spec => []RejectedBreaksRule
<1>1. RuleInv => RejectedBreaksRule
  <2>. SUFFICES ASSUME RuleInv, ended PROVE RejectedBreaksRule
    BY DEF RejectedBreaksRule
  <2>1. DOMAIN steps = Steps /\ DOMAIN calls = 1 .. Len(calls)
    BY WhenEnded DEF RuleInv, TypeInv
  <2>. DEFINE Broken(k) == \/ ~(LawfulOpcode(k) \/ LooksLikeCall(k))
                           \/ ~(LawfulCall(k) /\ LawfulTarget(k))
                           \/ Looks(k) /\ (Safe(k) => Before(k) \in Flushes)
                           \/ steps[k].callee = EntryPoint /\ steps[k].i.op = "REVERT"
  <2>2. ASSUME ~Unconditional PROVE \E k \in Steps : Broken(k)
    <3>1. CASE ~CallsAllowed(P.out)
      <4>1. PICK k \in Steps : \/ ~LawfulCall(k) \/ steps[k].oog
                               \/ steps[k].callee = EntryPoint /\ Op(k) = "REVERT"
        BY <3>1, RejectedCalls
      <4>. QED
        BY <4>1 DEF LawfulOpcode, LooksLikeCall, Op
    <3>2. CASE \E r \in entities : ~OpcodesAllowed(r)
      BY <3>2, RejectedOpcodes
    <3>3. CASE \E r \in entities : ~CodeAllowed(r)
      BY <3>3, RejectedCode
    <3>. QED
      BY <2>2, <3>1, <3>2, <3>3 DEF Unconditional, P
  <2>3. ASSUME NEW S \in SUBSET entities, ~StakeSuffices(S)
        PROVE  ~LawfulContext(S) \/ \E k \in Steps : ~LawfulStorage(k, S)
    <3>1. CASE \E r \in entities : ~StorageAllowed(r, S)
      BY <3>1, RejectedStorage
    <3>2. CASE "paymaster" \notin S /\ ReturnsContext
      BY <2>1, <3>2, ContextFound, DecodedZero DEF LawfulContext, Told
    <3>. QED
      BY <2>3, <3>1, <3>2 DEF StakeSuffices
  <2>. QED
    BY <2>1, <2>2, <2>3 DEF RejectedBreaksRule
<1>. QED
  BY <1>1, RulesKept, PTL

\* Every instruction of an operation that is accepted was allowed to the entity
\* that executed it, but for GAS before an opcode with CALL in its name, for any
\* instructions, nesting, stakes and lengths of the paymaster's context, when
\* nobody but the EntryPoint calls the paymaster to validate
\* (TracerResultParser.ts:199-522, BundlerCollectorTracer.ts:159-343,
\* ValidationManager.ts:160-183).
THEOREM AcceptedAlways == OnlyEntryPointValidates /\ Spec => []AcceptedKeepsRules
<1>1. RuleInv /\ ContextInv => AcceptedKeepsRules
  <2>. SUFFICES ASSUME RuleInv, ContextInv, ended PROVE AcceptedKeepsRules
    BY DEF AcceptedKeepsRules
  <2>1. DOMAIN steps = Steps /\ DOMAIN calls = 1 .. Len(calls)
    BY WhenEnded DEF RuleInv, TypeInv
  <2>2. ASSUME Unconditional, NEW k \in Steps
        PROVE  /\ LawfulOpcode(k) \/ LooksLikeCall(k)
               /\ LawfulCall(k) /\ LawfulTarget(k)
               /\ Looks(k) => Safe(k) \/ After(k) \in Flushes
    BY <2>2, AcceptedOpcodes, AcceptedCalls, AcceptedTargets DEF Unconditional, P
  <2>3. ASSUME NEW S \in SUBSET entities, StakeSuffices(S)
        PROVE  /\ ResultParsed => LawfulContext(S)
               /\ \A k \in Steps : LawfulStorage(k, S)
    <3>1. \A k \in Steps : LawfulStorage(k, S)
      BY <2>3, AcceptedStorage DEF StakeSuffices
    <3>2. "paymaster" \in S \/ ~Told
      BY <2>3, ContextFound DEF StakeSuffices
    <3>3. ResultParsed /\ ~Told => \A k \in 1 .. Len(calls) : calls[k].context = 0
      BY <2>1, ParsedDecodes DEF Told, RuleInv
    <3>. QED
      BY <2>1, <3>1, <3>2, <3>3 DEF LawfulContext
  <2>. QED
    BY <2>1, <2>2, <2>3 DEF AcceptedKeepsRules
<1>. QED
  BY <1>1, ContextKept, PTL
=============================================================================
