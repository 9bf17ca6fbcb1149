--------------------------- MODULE ReputationProofs ---------------------------
(* Theorems about ReputationManager, for every set of addresses, every     *)
(* choice of the reputation parameters and counters of any size.           *)
EXTENDS Reputation, TLAPS

(* Integer division is monotonic.                                          *)
LEMMA DivMonotonic ==
  ASSUME NEW m \in Nat, NEW n \in Nat, m <= n, NEW d \in Nat \ {0}
  PROVE  m \div d <= n \div d
  BY SMTT(60)

LEMMA DivNat ==
  ASSUME NEW m \in Nat, NEW d \in Nat \ {0}
  PROVE  m \div d \in Nat /\ m \div d <= m
  BY SMTT(60)

LEMMA DecayedBounds ==
  ASSUME NEW seen \in Nat, NEW included \in Nat
  PROVE  /\ DecayedSeen(seen) \in Nat
         /\ DecayedIncluded(seen, included) \in Nat
         /\ DecayedSeen(seen) <= 2 * DecayedIncluded(seen, included) + 1
  BY DEF DecayedSeen, DecayedIncluded

(* More operations seen, or fewer included, never better the standing.     *)
LEMMA StandingAntitone ==
  ASSUME NEW s1 \in Nat, NEW s2 \in Nat, s1 <= s2,
         NEW i1 \in Nat, NEW i2 \in Nat, i2 <= i1
  PROVE  Standing(s1, i1) <= Standing(s2, i2)
<1>1. MinExpectedIncluded(s1) <= MinExpectedIncluded(s2)
  BY DivMonotonic, ParamsAssumption DEF MinExpectedIncluded
<1>2. MinExpectedIncluded(s1) \in Nat /\ MinExpectedIncluded(s2) \in Nat
  BY DivNat, ParamsAssumption DEF MinExpectedIncluded
<1>. QED
  BY <1>1, <1>2, ParamsAssumption DEF Standing, OK, THROTTLED, BANNED

LEMMA StandingRange ==
  ASSUME NEW s \in Nat, NEW i \in Nat
  PROVE  Standing(s, i) \in {OK, THROTTLED, BANNED}
  BY DEF Standing

LEMMA AddrLower ==
  /\ \A a \in Addr : a \in Spelling /\ Lower[a] = a /\ a # NoAddr
  /\ \A s \in Spelling : Lower[s] \in Addr /\ Lower[s] \in Spelling /\ s # NoAddr
  BY LowerAssumption DEF Addr

(* The status of an address is a function of its own entry.                *)
LEMMA StatusByStanding ==
  ASSUME NEW a \in Addr
  PROVE  GetStatus(a) = IF a \in whitelist THEN OK
                        ELSE IF a \in blackList THEN BANNED
                        ELSE Standing(opsSeen[a], opsIncluded[a])
  BY AddrLower DEF GetStatus

(* The same of the state after a step.                                     *)
LEMMA StatusAfter ==
  ASSUME NEW a \in Addr
  PROVE  GetStatus(a)' = IF a \in whitelist' THEN OK
                         ELSE IF a \in blackList' THEN BANNED
                         ELSE Standing(opsSeen'[a], opsIncluded'[a])
  BY AddrLower DEF GetStatus

(* The entries keep their types: no method leaves a negative counter.      *)
LEMMA RepStepTypeOK ==
  ASSUME RepTypeOK, [RepNext]_repVars
  PROVE  RepTypeOK'
<1>. USE DEF RepTypeOK
<1>1. ASSUME NEW s \in Spelling,
             UpdateSeenStatus(s) \/ UpdateIncludedStatus(s) \/ CrashedHandleOps(s)
      PROVE  RepTypeOK'
  BY <1>1, AddrLower, ParamsAssumption
     DEF UpdateSeenStatus, UpdateIncludedStatus, CrashedHandleOps, listVars
<1>2. CASE HourlyCron
  BY <1>2, DecayedBounds DEF HourlyCron, listVars
<1>3. CASE Operator
  BY <1>3, AddrLower, ParamsAssumption DEF Operator, ClearReputation, SetReputation, listVars
<1>4. CASE UNCHANGED repVars
  BY <1>4 DEF repVars
<1>. QED
  BY <1>1, <1>2, <1>3, <1>4 DEF RepNext

(* ReputationManager is type correct in every reachable state.             *)
THEOREM RepTypeCorrect == RepSpec => []RepTypeOK
<1>1. RepInit => RepTypeOK
  BY DEF RepInit, RepTypeOK
<1>2. RepTypeOK /\ [RepNext]_repVars => RepTypeOK'
  BY RepStepTypeOK
<1>. QED
  BY <1>1, <1>2, PTL DEF RepSpec

(* After hourlyCron every counter pair is in good standing, whatever it    *)
(* was: opsIncluded is recomputed from opsSeen, so the decay of an hour    *)
(* lifts every ban and every throttling.                                   *)
LEMMA CronForgives ==
  ASSUME NEW seen \in Nat, NEW included \in Nat
  PROVE  Standing(DecayedSeen(seen), DecayedIncluded(seen, included)) = OK
<1>. DEFINE s == DecayedSeen(seen)
            i == DecayedIncluded(seen, included)
            m == s \div MinInclusionDenominator
<1>1. s \in Nat /\ i \in Nat /\ s <= 2 * i + 1
  BY DecayedBounds
<1>2. m \in Nat /\ MinInclusionDenominator * m <= s
  <2>. HIDE DEF s
  <2>. QED BY <1>1, ParamsAssumption, SMTT(60) DEF m
<1>3. 2 * m <= s
  <2>. HIDE DEF m, s
  <2>. QED BY <1>1, <1>2, ParamsAssumption, SMTT(60)
<1>4. m <= i
  <2>. HIDE DEF m, s, i
  <2>. QED BY <1>1, <1>2, <1>3
<1>. QED
  BY <1>1, <1>2, <1>4, ParamsAssumption DEF Standing, MinExpectedIncluded

(* The decay never turns good standing into throttling or a ban.           *)
THEOREM CronNeverWorsensAlways == RepSpec => CronNeverWorsens
<1>1. ASSUME RepTypeOK, HourlyCron, NEW a \in Addr
      PROVE  GetStatus(a)' <= GetStatus(a)
  <2>1. opsSeen[a] \in Nat /\ opsIncluded[a] \in Nat
    BY <1>1 DEF RepTypeOK
  <2>2. Standing(opsSeen'[a], opsIncluded'[a]) = OK
    BY <1>1, <2>1, CronForgives DEF HourlyCron
  <2>3. Standing(opsSeen[a], opsIncluded[a]) \in {OK, THROTTLED, BANNED}
    BY <2>1, StandingRange
  <2>. QED
    BY <1>1, <2>2, <2>3, StatusByStanding, StatusAfter
       DEF HourlyCron, listVars, OK, THROTTLED, BANNED
<1>2. RepTypeOK /\ [RepNext]_repVars =>
        [HourlyCron => \A a \in Addr : GetStatus(a)' <= GetStatus(a)]_repVars
  BY <1>1
<1>. QED
  BY <1>2, RepTypeCorrect, PTL DEF RepSpec, CronNeverWorsens

(* An entity that crashed a bundle is banned at once unless whitelisted,   *)
(* and no other entity's status changes.                                   *)
THEOREM CrashedIsBannedAlways == RepSpec => CrashedIsBanned
<1>1. ASSUME RepTypeOK, NEW s \in Spelling, CrashedHandleOps(s)
      PROVE  /\ Lower[s] \notin whitelist => GetStatus(s)' = BANNED
             /\ \A a \in Addr \ {Lower[s]} : GetStatus(a)' = GetStatus(a)
  <2>. DEFINE b == Lower[s]
  <2>1. b \in Addr /\ opsSeen[b] \in Nat
    BY <1>1, AddrLower DEF RepTypeOK
  <2>2. opsSeen'[b] = opsSeen[b] + CrashPenalty /\ opsIncluded'[b] = 0
    BY <1>1, <2>1 DEF CrashedHandleOps, RepTypeOK
  <2>3. MinExpectedIncluded(CrashPenalty) <= MinExpectedIncluded(opsSeen'[b])
    BY <2>1, <2>2, DivMonotonic, ParamsAssumption DEF MinExpectedIncluded
  <2>4. MinExpectedIncluded(opsSeen'[b]) \in Nat /\ MinExpectedIncluded(CrashPenalty) \in Nat
    BY <2>1, <2>2, DivNat, ParamsAssumption DEF MinExpectedIncluded
  <2>5. MinExpectedIncluded(CrashPenalty) > BanSlack
    BY ParamsAssumption DEF MinExpectedIncluded
  <2>6. Standing(opsSeen'[b], opsIncluded'[b]) = BANNED
    BY <2>2, <2>3, <2>4, <2>5, ParamsAssumption DEF Standing
  <2>7. b \notin whitelist => GetStatus(s)' = BANNED
    BY <1>1, <2>6, AddrLower DEF GetStatus, CrashedHandleOps, listVars
  <2>8. ASSUME NEW a \in Addr \ {b}
        PROVE  GetStatus(a)' = GetStatus(a)
    <3>1. opsSeen'[a] = opsSeen[a] /\ opsIncluded'[a] = opsIncluded[a]
      BY <1>1, <2>8 DEF CrashedHandleOps, RepTypeOK
    <3>. QED
      BY <1>1, <3>1, StatusByStanding, StatusAfter DEF CrashedHandleOps, listVars
  <2>. QED
    BY <2>7, <2>8
<1>2. RepTypeOK /\ [RepNext]_repVars =>
        [\A s \in Spelling :
           CrashedHandleOps(s) =>
             /\ Lower[s] \notin whitelist => GetStatus(s)' = BANNED
             /\ \A a \in Addr \ {Lower[s]} : GetStatus(a)' = GetStatus(a)]_repVars
  BY <1>1
<1>. QED
  BY <1>2, RepTypeCorrect, PTL DEF RepSpec, CrashedIsBanned

(* A ban or a throttling is only lifted by an inclusion of that entity,    *)
(* by the cron or by the operator.                                         *)
THEOREM LiftedForCauseAlways == RepSpec => LiftedForCause
<1>1. ASSUME RepTypeOK, RepNext, NEW a \in Addr,
             ~HourlyCron, ~Operator, ~(opsIncluded'[a] > opsIncluded[a])
      PROVE  ~(GetStatus(a)' < GetStatus(a))
  <2>1. RepTypeOK'
    BY <1>1, RepStepTypeOK
  <2>2. PICK s \in Spelling :
          UpdateSeenStatus(s) \/ UpdateIncludedStatus(s) \/ CrashedHandleOps(s)
    BY <1>1 DEF RepNext
  <2>3. UNCHANGED listVars
    BY <2>2 DEF UpdateSeenStatus, UpdateIncludedStatus, CrashedHandleOps, listVars
  <2>4. /\ opsSeen[a] \in Nat /\ opsSeen'[a] \in Nat
        /\ opsIncluded[a] \in Nat /\ opsIncluded'[a] \in Nat
    BY <1>1, <2>1 DEF RepTypeOK
  <2>5. opsSeen[a] <= opsSeen'[a]
    BY <1>1, <2>2, <2>4, AddrLower, ParamsAssumption
       DEF UpdateSeenStatus, UpdateIncludedStatus, CrashedHandleOps, RepTypeOK
  <2>6. opsIncluded'[a] <= opsIncluded[a]
    BY <1>1, <2>4
  <2>7. Standing(opsSeen[a], opsIncluded[a]) <= Standing(opsSeen'[a], opsIncluded'[a])
    BY <2>4, <2>5, <2>6, StandingAntitone
  <2>8. /\ Standing(opsSeen[a], opsIncluded[a]) \in {OK, THROTTLED, BANNED}
        /\ Standing(opsSeen'[a], opsIncluded'[a]) \in {OK, THROTTLED, BANNED}
    BY <2>4, StandingRange
  <2>. QED
    BY <2>3, <2>7, <2>8, StatusByStanding, StatusAfter
       DEF listVars, OK, THROTTLED, BANNED
<1>2. RepTypeOK /\ [RepNext]_repVars =>
        [\A a \in Addr :
           GetStatus(a)' < GetStatus(a) =>
             opsIncluded'[a] > opsIncluded[a] \/ HourlyCron \/ Operator]_repVars
  BY <1>1
<1>. QED
  BY <1>2, RepTypeCorrect, PTL DEF RepSpec, LiftedForCause
=============================================================================
