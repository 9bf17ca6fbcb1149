--------------------------------- MODULE Gas ---------------------------------
(***************************************************************************)
(* calcPreVerificationGas.  Its own result is a field of the operation it  *)
(* is computed from: the calldata cost of that field depends on how many   *)
(* of its bytes are zero, and whoever computes it first puts a dummy value *)
(* in.                                                                     *)
(***************************************************************************)
EXTENDS Naturals, Sequences, FiniteSets

CONSTANT Rest   \* Rest[o]: calcPreVerificationGas of o if the field were all zero bytes

\* the fixed overheads alone are 21000 + 18300
ASSUME GasAssumption ==
  \A o \in DOMAIN Rest : Rest[o] \in Nat /\ 39300 <= Rest[o] /\ Rest[o] <= 2147483647

\* BOUND: values below 2^32, so only the last four of the field's 32 bytes vary
Place == <<1, 256, 65536, 16777216>>
Byte(n, i) == (n \div Place[i]) % 256
NonZeroBytes(n) == Cardinality({i \in DOMAIN Place : Byte(n, i) # 0})
ZeroByte == 4
NonZeroByte == 16

calcPreVerificationGas(o, field) == Rest[o] + NonZeroBytes(field) * (NonZeroByte - ZeroByte)

\* (a mutant of Estimate: the default overrides the caller's field)
EstimateDefault(o, field) == calcPreVerificationGas(o, 0)
\* eth_estimateUserOperationGas counts the field the caller has put in, or 0 if it
\* is missing, the SDK one that is 21000; the bundler requires what the operation
\* costs with the field it has
Estimate(o, field) == calcPreVerificationGas(o, field)
SdkQuote(o) == calcPreVerificationGas(o, 21000)
TooLow(o, field) == field < calcPreVerificationGas(o, field)
=============================================================================
