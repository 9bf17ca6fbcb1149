------------------------------ MODULE Validation ------------------------------
(***************************************************************************)
(* ValidationManager.validateUserOp, for the two callers that may run at   *)
(* once: eth_sendUserOperation and the creation of a bundle.  A validation *)
(* awaits the node up to three times: to compare the code of the contracts *)
(* the first validation recorded, to simulate the operation, and to record *)
(* the code.  Time passes and contracts change in between.                 *)
(***************************************************************************)
EXTENDS Integers

CONSTANTS
  Op, NoOp,
  Window,      \* Window[o]: [after, until], the time range o's account returns
  Soon,        \* VALID_UNTIL_FUTURE_SECONDS
  MaxTime,     \* BOUND on the clock
  MaxCode,     \* BOUND on the changes of the contracts an operation touches
  Undefined,   \* no previousCodeHashes
  NoHashes     \* the hashes of no contract, which the unsafe mode records

VARIABLES
  unsafe,      \* the configuration's unsafe
  now,         \* seconds since the epoch
  code,        \* code[o]: version of the contracts the validation of o touches
  val          \* val[t]: the validation of caller t

Caller == {"send", "bundle"}
Time == 0 .. MaxTime
Code == 0 .. MaxCode
Recorded == Code \cup {Undefined, NoHashes}
valVars == <<unsafe, now, code, val>>

ASSUME ValidationAssumption ==
  /\ Soon \in Nat /\ MaxTime \in Nat /\ MaxCode \in Nat
  /\ Window \in [Op -> [after : Nat, until : Nat]]
  /\ NoOp \notin Op
  /\ Undefined \notin Code /\ NoHashes \notin Code

\* error codes: ValidationErrors, that of the ABI decoder, "none" for an Error without, "node" for the node's
ErrorCode == {"none", "node", "-32602", "-32601", "-32500", "-32502", "-32503",
              "-32504", "-32506", "-32507", "-32521", "111", "BUFFER_OVERRUN"}
Result == {"", "empty", "sigFailed", "aggregator"}   \* what is wrong with a simulation's result

ValTypeOK ==
  /\ unsafe \in BOOLEAN
  /\ now \in Time
  /\ code \in [Op -> Code]
  /\ val \in [Caller -> [at : {"idle", "codes", "simulate", "hash", "valid", "refused"},
                         op : Op \cup {NoOp}, prev : Recorded, result : Result,
                         hashes : Recorded, began : Code, error : ErrorCode]]

Idle == [at |-> "idle", op |-> NoOp, prev |-> Undefined, result |-> "",
         hashes |-> NoHashes, began |-> 0, error |-> "none"]

ValInit == /\ unsafe \in BOOLEAN
           /\ now \in Time
           /\ code \in [Op -> Code]
           /\ val = [t \in Caller |-> Idle]

-----------------------------------------------------------------------------
Set(t, v) == val' = [val EXCEPT ![t] = v] /\ UNCHANGED <<unsafe, now, code>>
In(t, at) == val[t].at = at
\* an exception; createBundle does not look at it
Stop(t, error) == Set(t, [val[t] EXCEPT !.at = "refused", !.result = "",
                                      !.error = IF t = "send" THEN error ELSE "none"])

\* validateUserOp(o, prev): [COD-010] only when contracts were recorded
Validate(t, o, prev) ==
  /\ In(t, "idle")
  /\ Set(t, [Idle EXCEPT !.at = IF prev \in Code THEN "codes" ELSE "simulate",
                         !.op = o, !.prev = prev, !.began = code[o]])

\* (a mutant of it: whatever the answer)
CompareNothing(t) == In(t, "codes") /\ Set(t, [val[t] EXCEPT !.at = "simulate"])
CompareCodes(t) ==
  /\ In(t, "codes")
  /\ IF code[val[t].op] = val[t].prev THEN Set(t, [val[t] EXCEPT !.at = "simulate"])
                                      ELSE Stop(t, "-32502")

\* the checks of the result, in their order, once the node has answered
TimeRange(o) == Window[o].after <= now /\ Window[o].until > now + Soon
Refusal(o, result) == IF result = "empty" THEN "none"
                      ELSE IF result = "sigFailed" THEN "-32507"
                      ELSE IF ~TimeRange(o) THEN "-32503" ELSE "-32506"
Finish(t, result, hashes) ==
  IF result = "" /\ TimeRange(val[t].op)
    THEN Set(t, [val[t] EXCEPT !.at = "valid", !.hashes = hashes])
    ELSE Stop(t, Refusal(val[t].op, result))

\* _parseErrorResult: a FailedOp is the account's fault, for the EntryPoint's
\* FailedOp names no paymaster
SimulationFails(t) == In(t, "simulate") /\ Stop(t, "-32500")

\* debug_traceCall: an error the EntryPoint does not know, a result that the tracer has
\* cut (Rules: ResultParsed), a violation that tracerResultParser finds, or a result
\* ("0x" when the revert had no data)
Trace(t) ==
  /\ In(t, "simulate") /\ ~unsafe
  /\ \/ \E error \in {"111", "BUFFER_OVERRUN", "-32502"} : Stop(t, error)
     \/ \E result \in Result :
          IF val[t].prev = Undefined
            THEN Set(t, [val[t] EXCEPT !.at = "hash", !.result = result])
            ELSE Finish(t, result, NoHashes)

\* eth_call, without any check of opcodes, storage or stake
CallSimulation(t) ==
  /\ In(t, "simulate") /\ unsafe
  /\ \E result \in Result \ {"empty"} : Finish(t, result, NoHashes)

\* getCodeHashes of the contracts the trace touched
\* (a mutant of it: a version nobody has)
GetNextHashes(t) == In(t, "hash") /\ Finish(t, val[t].result, code[val[t].op] + 1)
GetCodeHashes(t) == In(t, "hash") /\ Finish(t, val[t].result, code[val[t].op])

\* the node fails a request; where the simulation is an eth_call, the exception is
\* read as its result, which fails in turn
NodeFails(t) == /\ val[t].at \in {"codes", "simulate", "hash"}
                /\ Stop(t, IF unsafe /\ In(t, "simulate") THEN "none" ELSE "node")

ValidationStep(t) == \/ CompareCodes(t) \/ SimulationFails(t) \/ Trace(t)
                     \/ CallSimulation(t) \/ GetCodeHashes(t) \/ NodeFails(t)

\* the caller goes on
Return(t) == val[t].at \in {"valid", "refused"} /\ Set(t, Idle)

-----------------------------------------------------------------------------
\* Environment
Tick == now < MaxTime /\ now' = now + 1 /\ UNCHANGED <<unsafe, code, val>>
ChangeCode(o) == /\ code[o] < MaxCode
                 /\ code' = [code EXCEPT ![o] = @ + 1]
                 /\ UNCHANGED <<unsafe, now, val>>
=============================================================================
