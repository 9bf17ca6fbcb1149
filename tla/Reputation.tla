----------------------------- MODULE Reputation -----------------------------
(***************************************************************************)
(* ReputationManager: how often every address (account, paymaster,         *)
(* factory) was seen in an accepted user operation and how often it was    *)
(* included on chain, and the standing the bundler derives from the two.   *)
(*                                                                         *)
(* An address reaches the code in several spellings (lower case, or with   *)
(* the checksum capitals); Lower is toLowerCase.  An entry with both       *)
(* counters at 0 answers every query as a missing one does, so entries are *)
(* two total functions.                                                    *)
(***************************************************************************)
EXTENDS Integers, FiniteSets

CONSTANTS
  Spelling,                  \* the strings that denote an address
  Lower,                     \* Lower[s] is s.toLowerCase()
  NoAddr,                    \* undefined: the operation has no such entity
  MinInclusionDenominator, ThrottlingSlack, BanSlack,  \* ReputationParams
  CrashPenalty,              \* what crashedHandleOps adds to opsSeen
  RepValues,                 \* values debug_bundler_setReputation may write
  MaxOps                     \* BOUND on opsSeen and opsIncluded

Addr == {Lower[s] : s \in Spelling}

ASSUME LowerAssumption ==
  /\ Lower \in [Spelling -> Spelling]
  /\ \A s \in Spelling : Lower[Lower[s]] = Lower[s]
  /\ NoAddr \notin Spelling

ASSUME ParamsAssumption ==
  /\ MinInclusionDenominator \in Nat \ {0, 1}
  /\ ThrottlingSlack \in Nat
  /\ BanSlack \in Nat
  /\ ThrottlingSlack <= BanSlack
  /\ CrashPenalty \in Nat
  /\ CrashPenalty \div MinInclusionDenominator > BanSlack
  /\ RepValues \subseteq Nat
  /\ MaxOps \in Nat

VARIABLES
  opsSeen, opsIncluded,      \* entries[a].opsSeen and entries[a].opsIncluded
  whitelist, blackList       \* as configured, spelling included

repVars == <<opsSeen, opsIncluded, whitelist, blackList>>
listVars == <<whitelist, blackList>>

OK == 0
THROTTLED == 1
BANNED == 2

One(test) == IF test THEN 1 ELSE 0

MinExpectedIncluded(seen) == seen \div MinInclusionDenominator

\* the standing that two counters give
Standing(seen, included) ==
  IF MinExpectedIncluded(seen) <= included + ThrottlingSlack THEN OK
  ELSE IF MinExpectedIncluded(seen) <= included + BanSlack THEN THROTTLED
  ELSE BANNED

\* only the argument is lower-cased: an entry of either list counts only when
\* it was configured in lower case
GetStatus(s) ==
  IF s = NoAddr \/ Lower[s] \in whitelist THEN OK
  ELSE IF Lower[s] \in blackList THEN BANNED
  ELSE Standing(opsSeen[Lower[s]], opsIncluded[Lower[s]])

IsWhitelisted(s) == s \in whitelist

\* checkStake, for an entity whose stake and unstake delay suffice iff staked
CheckStake(s, staked) ==
  \/ s = NoAddr
  \/ IsWhitelisted(s)
  \/ GetStatus(s) # BANNED /\ staked

\* mutants of the two below: a decay by one; a faster decay of the inclusions
DecayedByOne(seen) == seen - 1
DecayedFaster(seen, included) == included \div 2

\* what the aggregate methods below do to one entry
DecayedSeen(seen) == (seen * 23) \div 24
\* line 84 reads the opsSeen that line 83 has just written
DecayedIncluded(seen, included) == (DecayedSeen(seen) * 23) \div 24

RepInit ==
  /\ opsSeen = [a \in Addr |-> 0]
  /\ opsIncluded = [a \in Addr |-> 0]
  /\ whitelist \in SUBSET Spelling
  /\ blackList \in SUBSET Spelling

UpdateSeenStatus(s) ==
  /\ opsSeen[Lower[s]] < MaxOps
  /\ opsSeen' = [opsSeen EXCEPT ![Lower[s]] = @ + 1]
  /\ UNCHANGED <<opsIncluded, listVars>>

UpdateIncludedStatus(s) ==
  /\ opsIncluded[Lower[s]] < MaxOps
  /\ opsIncluded' = [opsIncluded EXCEPT ![Lower[s]] = @ + 1]
  /\ UNCHANGED <<opsSeen, listVars>>

\* mutants of CrashedHandleOps: the penalty is subtracted; opsIncluded is kept
CrashedSubtracts(s) ==
  /\ s # NoAddr
  /\ opsSeen[Lower[s]] >= CrashPenalty
  /\ opsSeen' = [opsSeen EXCEPT ![Lower[s]] = @ - CrashPenalty]
  /\ opsIncluded' = [opsIncluded EXCEPT ![Lower[s]] = 0]
  /\ UNCHANGED listVars

CrashedKeepsIncluded(s) ==
  /\ s # NoAddr
  /\ opsSeen[Lower[s]] + CrashPenalty <= MaxOps
  /\ opsSeen' = [opsSeen EXCEPT ![Lower[s]] = @ + CrashPenalty]
  /\ UNCHANGED <<opsIncluded, listVars>>

CrashedHandleOps(s) ==
  /\ s # NoAddr
  /\ opsSeen[Lower[s]] + CrashPenalty <= MaxOps
  /\ opsSeen' = [opsSeen EXCEPT ![Lower[s]] = @ + CrashPenalty]
  /\ opsIncluded' = [opsIncluded EXCEPT ![Lower[s]] = 0]
  /\ UNCHANGED listVars

HourlyCron ==
  /\ opsSeen' = [a \in Addr |-> DecayedSeen(opsSeen[a])]
  /\ opsIncluded' = [a \in Addr |-> DecayedIncluded(opsSeen[a], opsIncluded[a])]
  /\ UNCHANGED listVars

SetReputation(s, seen, included) ==
  /\ opsSeen' = [opsSeen EXCEPT ![Lower[s]] = seen]
  /\ opsIncluded' = [opsIncluded EXCEPT ![Lower[s]] = included]
  /\ UNCHANGED listVars

ClearReputation ==
  /\ opsSeen' = [a \in Addr |-> 0]
  /\ opsIncluded' = [a \in Addr |-> 0]
  /\ UNCHANGED listVars

\* what the debug API may do to the reputation
Operator ==
  \/ ClearReputation
  \/ \E s \in Spelling, seen, included \in RepValues : SetReputation(s, seen, included)

RepNext ==
  \/ \E s \in Spelling :
       UpdateSeenStatus(s) \/ UpdateIncludedStatus(s) \/ CrashedHandleOps(s)
  \/ HourlyCron
  \/ Operator

RepSpec == RepInit /\ [][RepNext]_repVars
-----------------------------------------------------------------------------
RepTypeOK ==
  /\ opsSeen \in [Addr -> Nat]
  /\ opsIncluded \in [Addr -> Nat]
  /\ whitelist \in SUBSET Spelling
  /\ blackList \in SUBSET Spelling

(* A ban or a throttling is lifted for a reason only: an inclusion, the    *)
(* cron's decay or the operator's debug call; being seen again or crashing *)
(* another bundle never lifts it (updateSeenStatus, crashedHandleOps).     *)
LiftedForCause ==
  [][\A a \in Addr :
       GetStatus(a)' < GetStatus(a) =>
         opsIncluded'[a] > opsIncluded[a] \/ HourlyCron \/ Operator]_repVars

(* An entity that made handleOps revert is banned at once, and stays so    *)
(* whatever its good record was, unless it is whitelisted; and nobody else *)
(* pays for it (crashedHandleOps, "should be banned immediately").         *)
CrashedIsBanned ==
  [][\A s \in Spelling :
       CrashedHandleOps(s) =>
         /\ Lower[s] \notin whitelist => GetStatus(s)' = BANNED
         /\ \A a \in Addr \ {Lower[s]} : GetStatus(a)' = GetStatus(a)]_repVars

(* The decay forgives and never condemns: no rounding of hourlyCron turns  *)
(* an entity in good standing into a throttled or a banned one.            *)
CronNeverWorsens ==
  [][HourlyCron => \A a \in Addr : GetStatus(a)' <= GetStatus(a)]_repVars
=============================================================================
