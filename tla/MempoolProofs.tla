---------------------------- MODULE MempoolProofs ----------------------------
(* Theorems about MempoolManager, for every set of operations, addresses   *)
(* and limits, and a mempool of any size.                                  *)
EXTENDS Mempool, ReputationProofs, FiniteSetTheorems

allVars == <<memVars, repVars>>

(* The roles an operation gives an address are counted by a number.        *)
LEMMA RolesNat == \A op, a : Roles(op, a) \in Nat /\ SeenRoles(op, a) \in Nat
  BY DEF Roles, SeenRoles, One

LEMMA MinusNat ==
  ASSUME NEW m \in Nat, NEW n \in Nat
  PROVE  Minus(m, n) \in Nat /\ (m >= n => Minus(m, n) = m - n)
  BY DEF Minus

LEMMA AccountAddr ==
  \A op \in UserOp : Account(op) \in Addr /\ op.sender \in Spelling /\ op.sender # NoAddr
  BY UserOpAssumption, AddrLower DEF Account

-----------------------------------------------------------------------------
(* Type correctness                                                        *)

LEMMA MemStepTypeOK ==
  ASSUME MemTypeOK, [MemNext]_allVars
  PROVE  MemTypeOK'
<1>. USE DEF MemTypeOK
<1>1. ASSUME NEW op \in UserOp, UpdateSeenRoles(op)
      PROVE  RepTypeOK'
  BY <1>1, RolesNat DEF UpdateSeenRoles, RepTypeOK, listVars
<1>2. ASSUME NEW op \in UserOp
      PROVE  Incremented(op) \in [Addr -> Nat] /\ Decremented(entryCount, op) \in [Addr -> Nat]
  <2>1. \A a \in Addr : entryCount[a] + Roles(op, a) \in Nat
    BY RolesNat
  <2>2. \A a \in Addr : Minus(entryCount[a], Roles(op, a)) \in Nat
    BY RolesNat, MinusNat
  <2>. QED
    BY <2>1, <2>2 DEF Incremented, Decremented
<1>3. ASSUME NEW op \in UserOp, ReplaceUserOp(op) \/ InsertUserOp(op)
      PROVE  MemTypeOK'
  BY <1>1, <1>2, <1>3 DEF ReplaceUserOp, InsertUserOp
<1>4. ASSUME NEW op \in UserOp, RejectUserOp(op) \/ RefuseReplacement(op)
      PROVE  MemTypeOK'
  BY <1>2, <1>4 DEF RejectUserOp, RefuseReplacement, memVars, repVars, RepTypeOK
<1>5. ASSUME NEW S \in SUBSET mempool, Remove(S), UNCHANGED repVars
      PROVE  MemTypeOK'
  BY <1>2, <1>5 DEF Remove, memVars, repVars, RepTypeOK
<1>6. ASSUME NEW op \in UserOp, RemoveUserOp(op) \/ RemoveUserOpByHash(Hash(op))
      PROVE  MemTypeOK'
  BY <1>5, <1>6 DEF RemoveUserOp, RemoveUserOpByHash, FindBySenderNonce
<1>7. CASE ClearMempool
  BY <1>7 DEF ClearMempool, repVars, RepTypeOK
<1>8. CASE RepNext /\ UNCHANGED memVars
  BY <1>8, RepStepTypeOK DEF memVars
<1>9. CASE UNCHANGED allVars
  BY <1>9 DEF allVars, memVars, repVars, RepTypeOK
<1>. QED
  BY <1>3, <1>4, <1>6, <1>7, <1>8, <1>9 DEF MemNext

(* MempoolManager and ReputationManager are type correct in every          *)
(* reachable state.                                                        *)
THEOREM MemTypeCorrect == MemSpec => []MemTypeOK
<1>1. MemInit => MemTypeOK
  BY DEF MemInit, MemTypeOK, RepInit, RepTypeOK
<1>2. MemTypeOK /\ [MemNext]_allVars => MemTypeOK'
  BY MemStepTypeOK
<1>. QED
  BY <1>1, <1>2, PTL DEF MemSpec, allVars
-----------------------------------------------------------------------------
(* One operation per sender and nonce                                      *)

(* What a step of MempoolManager can do to the pending operations.         *)
LEMMA MempoolChanges ==
  ASSUME [MemNext]_allVars
  PROVE  \/ \E op \in UserOp : ReplaceUserOp(op)
         \/ \E op \in UserOp : InsertUserOp(op)
         \/ \E op \in UserOp : RejectUserOp(op)
         \/ \E S \in SUBSET mempool : Remove(S)
         \/ ClearMempool
         \/ UNCHANGED memVars
  BY DEF MemNext, allVars, RemoveUserOp, RemoveUserOpByHash, FindBySenderNonce, RefuseReplacement

LEMMA UniqueStep ==
  ASSUME UniqueSenderNonce, [MemNext]_allVars
  PROVE  UniqueSenderNonce'
<1>. USE DEF UniqueSenderNonce
<1>1. CASE mempool' \subseteq mempool
  BY <1>1
<1>2. ASSUME NEW op \in UserOp, ReplaceUserOp(op)
      PROVE  UniqueSenderNonce'
  BY <1>2 DEF ReplaceUserOp, FindBySenderNonce, SameSenderNonce
<1>3. ASSUME NEW op \in UserOp, InsertUserOp(op)
      PROVE  UniqueSenderNonce'
  BY <1>3 DEF InsertUserOp, FindBySenderNonce, SameSenderNonce
<1>4. ASSUME NEW S, Remove(S)
      PROVE  mempool' \subseteq mempool
  BY <1>4 DEF Remove, memVars
<1>. QED
  BY <1>1, <1>2, <1>3, <1>4, MempoolChanges DEF RejectUserOp, ClearMempool, memVars

(* No two pending operations ever share sender and nonce.                  *)
THEOREM UniqueSenderNonceAlways == MemSpec => []UniqueSenderNonce
<1>1. MemInit => UniqueSenderNonce
  BY DEF MemInit, UniqueSenderNonce
<1>2. UniqueSenderNonce /\ [MemNext]_allVars => UniqueSenderNonce'
  BY UniqueStep
<1>. QED
  BY <1>1, <1>2, PTL DEF MemSpec, allVars

(* MempoolManager implements a board of slots: every step of it places an  *)
(* offer on a free slot, bids one up, withdraws some, or changes nothing.  *)
THEOREM MempoolImplementsBoard == MemSpec => BoardSpec
<1>1. MemInit => Board!Init
  BY DEF MemInit, Board!Init
<1>2. ASSUME MemTypeOK, [MemNext]_allVars
      PROVE  [Board!Next]_mempool
  <2>1. ASSUME NEW op \in UserOp, ReplaceUserOp(op)
        PROVE  Board!Next
    <3>1. PICK old \in FindBySenderNonce(op) :
            CheckReplaceUserOp(old, op) /\ mempool' = (mempool \ {old}) \cup {op}
      BY <2>1 DEF ReplaceUserOp
    <3>2. old \in mempool /\ SameSenderNonce(old, op)
      BY DEF FindBySenderNonce
    <3>3. Board!Better(op, old)
      BY <3>1 DEF CheckReplaceUserOp, TenPercentMore, Board!Better
    <3>4. Board!Outbid(old, op)
      BY <3>1, <3>2, <3>3 DEF SameSenderNonce, Board!Outbid, Board!SamePlace
    <3>. QED
      BY <3>2, <3>4 DEF Board!Next
  <2>2. ASSUME NEW op \in UserOp, InsertUserOp(op)
        PROVE  Board!Next
    <3>1. Board!Place(op)
      BY <2>2 DEF InsertUserOp, FindBySenderNonce, SameSenderNonce, Board!Place, Board!SamePlace
    <3>. QED
      BY <3>1 DEF Board!Next
  <2>3. CASE mempool' \subseteq mempool
    BY <2>3 DEF Board!Next, Board!Withdraw
  <2>4. ASSUME NEW S, Remove(S)
        PROVE  mempool' \subseteq mempool
    BY <2>4 DEF Remove, memVars
  <2>. QED
    BY <1>2, <2>1, <2>2, <2>3, <2>4, MempoolChanges DEF RejectUserOp, ClearMempool, memVars
<1>. QED
  BY <1>1, <1>2, MemTypeCorrect, PTL DEF MemSpec, BoardSpec, Board!Spec, allVars
-----------------------------------------------------------------------------
(* One role per address                                                    *)

LEMMA SeparationStep ==
  ASSUME RolesKept, MemTypeOK, RoleSeparation, [MemNext]_allVars
  PROVE  RoleSeparation'
<1>. USE DEF RoleSeparation, Account
<1>1. CASE mempool' \subseteq mempool
  BY <1>1
<1>2. ASSUME NEW op \in UserOp, ReplaceUserOp(op)
      PROVE  RoleSeparation'
  <2>1. PICK old \in mempool : SameSenderNonce(old, op) /\ mempool' = (mempool \ {old}) \cup {op}
    BY <1>2 DEF ReplaceUserOp, FindBySenderNonce
  <2>2. old \in UserOp /\ mempool \subseteq UserOp
    BY DEF MemTypeOK
  <2>3. ASSUME NEW e \in mempool, e # old
        PROVE  /\ Account(e) # op.paymaster /\ Account(e) # op.factory
               /\ Account(op) # e.paymaster /\ Account(op) # e.factory
    <3>1. Account(op) = Account(old)
      BY <2>1 DEF SameSenderNonce
    <3>2. Account(e) # old.paymaster /\ Account(e) # old.factory
      BY <2>3
    <3>. QED
      BY <2>1, <2>2, <2>3, <3>1, <3>2 DEF RolesKept
  <2>. QED
    BY <2>1, <2>3
<1>3. ASSUME NEW op \in UserOp, InsertUserOp(op)
      PROVE  RoleSeparation'
  <2>1. mempool' = mempool \cup {op} /\ CheckMultipleRoles(op)
    BY <1>3 DEF InsertUserOp
  <2>2. Account(op) # NoAddr
    BY AccountAddr, AddrLower
  <2>3. ASSUME NEW e \in mempool
        PROVE  /\ Account(e) # op.paymaster /\ Account(e) # op.factory
               /\ Account(op) # e.paymaster /\ Account(op) # e.factory
    BY <2>1, <2>2 DEF CheckMultipleRoles, KnownEntities, KnownSenders
  <2>. QED
    BY <2>1, <2>3
<1>4. ASSUME NEW S, Remove(S)
      PROVE  mempool' \subseteq mempool
  BY <1>4 DEF Remove, memVars
<1>. QED
  BY <1>1, <1>2, <1>3, <1>4, MempoolChanges DEF RejectUserOp, ClearMempool, memVars

(* When replacements keep their roles, no pending operation's account is   *)
(* the paymaster or the factory of another.                                *)
THEOREM RoleSeparationAlways ==
  ASSUME RolesKept
  PROVE  MemSpec => []RoleSeparation
<1>1. MemInit => RoleSeparation
  BY DEF MemInit, RoleSeparation
<1>2. MemTypeOK /\ RoleSeparation /\ [MemNext]_allVars => RoleSeparation'
  BY SeparationStep
<1>. QED
  BY <1>1, <1>2, MemTypeCorrect, PTL DEF MemSpec, allVars
-----------------------------------------------------------------------------
(* The limit per sender                                                    *)

ByAccount(a) == {e \in UserOp : Account(e) = a}
SelfPaid(a) == {e \in ByAccount(a) : e.paymaster = a}
SelfMade(a) == {e \in ByAccount(a) : e.factory = a}

Within(F) == Cardinality(mempool \cap F)

\* the roles the pending operations of an account give it
OwnRoles(a) == Within(ByAccount(a)) + Within(SelfPaid(a)) + Within(SelfMade(a))

\* The limit is enforced on entryCount, so the invariant that carries it says
\* that the counts cover the pending operations.  They may be too high, as
\* rejected operations leave them.  A removal lowers the count of the account
\* once per role, so the roles it has in its own operations are in the sum; and
\* it lowers counts of other addresses, which by RoleSeparation have nothing
\* pending when they are accounts.
CoverInv ==
  /\ MemTypeOK
  /\ IsFiniteSet(mempool)
  /\ RoleSeparation
  /\ \A a \in Addr : OwnRoles(a) <= entryCount[a]

LEMMA WithinNat ==
  ASSUME IsFiniteSet(mempool), NEW F
  PROVE  IsFiniteSet(mempool \cap F) /\ Within(F) \in Nat
  BY FS_Subset, FS_CardinalityType DEF Within

LEMMA OwnRolesNat ==
  ASSUME IsFiniteSet(mempool), NEW a
  PROVE  /\ Within(ByAccount(a)) \in Nat /\ Within(SelfPaid(a)) \in Nat
         /\ Within(SelfMade(a)) \in Nat /\ OwnRoles(a) \in Nat
<1>1. \A F : Within(F) \in Nat
  BY WithinNat
<1>2. Within(ByAccount(a)) \in Nat /\ Within(SelfPaid(a)) \in Nat /\ Within(SelfMade(a)) \in Nat
  BY <1>1
<1>. QED
  BY <1>2 DEF OwnRoles

LEMMA PendingWithin ==
  ASSUME mempool \subseteq UserOp, NEW a
  PROVE  Cardinality(Pending(a)) = Within(ByAccount(a))
<1>1. Pending(a) = mempool \cap ByAccount(a)
  BY DEF Pending, ByAccount
<1>. QED
  BY <1>1 DEF Within

(* An insertion adds at most one to the pending operations in a set.       *)
LEMMA WithinInsert ==
  ASSUME IsFiniteSet(mempool), NEW op, mempool' = mempool \cup {op}, NEW F
  PROVE  /\ IsFiniteSet(mempool')
         /\ Within(F)' <= Within(F) + One(op \in F)
<1>1. IsFiniteSet(mempool \cap F) /\ Within(F) \in Nat /\ IsFiniteSet(mempool')
  BY WithinNat, FS_AddElement
<1>2. CASE op \in F
  <2>1. mempool' \cap F = (mempool \cap F) \cup {op}
    BY <1>2
  <2>2. Within(F)' = IF op \in mempool \cap F THEN Within(F) ELSE Within(F) + 1
    BY <1>1, <2>1, FS_AddElement DEF Within
  <2>. QED
    BY <1>1, <1>2, <2>2 DEF One
<1>3. CASE op \notin F
  <2>1. mempool' \cap F = mempool \cap F
    BY <1>3
  <2>. QED
    BY <1>1, <1>3, <2>1 DEF Within, One
<1>. QED
  BY <1>2, <1>3

(* A removal takes one from each set that had the operation.               *)
LEMMA WithinRemove ==
  ASSUME IsFiniteSet(mempool), NEW e \in mempool, mempool' = mempool \ {e}, NEW F
  PROVE  /\ IsFiniteSet(mempool')
         /\ Within(F)' = Within(F) - One(e \in F)
<1>1. IsFiniteSet(mempool \cap F) /\ Within(F) \in Nat /\ IsFiniteSet(mempool')
  BY WithinNat, FS_RemoveElement
<1>2. CASE e \in F
  <2>1. mempool' \cap F = (mempool \cap F) \ {e} /\ e \in mempool \cap F
    BY <1>2
  <2>. QED
    BY <1>1, <1>2, <2>1, FS_RemoveElement, ZenonT(40) DEF Within, One
<1>3. CASE e \notin F
  <2>1. mempool' \cap F = mempool \cap F
    BY <1>3
  <2>. QED
    BY <1>1, <1>3, <2>1 DEF Within, One
<1>. QED
  BY <1>2, <1>3

(* A replacement leaves at most as many in a set of both or neither.       *)
LEMMA WithinReplace ==
  ASSUME IsFiniteSet(mempool), NEW old \in mempool, NEW op,
         mempool' = (mempool \ {old}) \cup {op}, NEW F, old \in F <=> op \in F
  PROVE  /\ IsFiniteSet(mempool')
         /\ Within(F)' <= Within(F)
<1>1. IsFiniteSet(mempool \cap F) /\ Within(F) \in Nat /\ IsFiniteSet(mempool')
  BY WithinNat, FS_RemoveElement, FS_AddElement
<1>2. CASE op \in F
  <2>1. mempool' \cap F = ((mempool \cap F) \ {old}) \cup {op} /\ old \in mempool \cap F
    BY <1>2
  <2>. DEFINE S == (mempool \cap F) \ {old}
  <2>2. IsFiniteSet(S) /\ Cardinality(S) = Within(F) - 1
    BY <1>1, <2>1, FS_RemoveElement DEF Within
  <2>3. Cardinality(S \cup {op}) = IF op \in S THEN Cardinality(S) ELSE Cardinality(S) + 1
    BY <2>2, FS_AddElement
  <2>4. Within(F)' = Cardinality(S \cup {op})
    BY <2>1 DEF Within
  <2>. HIDE DEF S
  <2>. QED
    BY <1>1, <2>2, <2>3, <2>4
<1>3. CASE op \notin F
  <2>1. mempool' \cap F = mempool \cap F
    BY <1>3
  <2>. QED
    BY <1>1, <2>1 DEF Within
<1>. QED
  BY <1>2, <1>3

(* The roles of an operation, as its account sees them and as others do.   *)
LEMMA OwnRolesOf ==
  ASSUME NEW e \in UserOp, NEW a
  PROVE  /\ One(e \in ByAccount(a)) + One(e \in SelfPaid(a)) + One(e \in SelfMade(a))
              <= Roles(e, a)
         /\ Account(e) = a =>
              One(e \in ByAccount(a)) + One(e \in SelfPaid(a)) + One(e \in SelfMade(a))
                = Roles(e, a)
  BY DEF One, Roles, ByAccount, SelfPaid, SelfMade

LEMMA ReplaceCovers ==
  ASSUME RolesKept, CoverInv, NEW op \in UserOp, ReplaceUserOp(op), NEW a \in Addr
  PROVE  /\ IsFiniteSet(mempool')
         /\ Within(ByAccount(a))' <= Within(ByAccount(a))
         /\ OwnRoles(a)' <= entryCount'[a]
<1>1. PICK old \in mempool : SameSenderNonce(old, op) /\ mempool' = (mempool \ {old}) \cup {op}
  BY DEF ReplaceUserOp, FindBySenderNonce
<1>2. old \in UserOp /\ Account(old) = Account(op)
  BY <1>1 DEF CoverInv, MemTypeOK, SameSenderNonce, Account
<1>3. /\ old \in ByAccount(a) <=> op \in ByAccount(a)
      /\ old \in SelfPaid(a) <=> op \in SelfPaid(a)
      /\ old \in SelfMade(a) <=> op \in SelfMade(a)
  BY <1>1, <1>2 DEF RolesKept, ByAccount, SelfPaid, SelfMade
<1>4. /\ IsFiniteSet(mempool')
      /\ Within(ByAccount(a))' <= Within(ByAccount(a))
      /\ Within(SelfPaid(a))' <= Within(SelfPaid(a))
      /\ Within(SelfMade(a))' <= Within(SelfMade(a))
  <2>. DEFINE A == ByAccount(a)  P == SelfPaid(a)  M == SelfMade(a)
  <2>1. A' = A /\ P' = P /\ M' = M
    BY DEF ByAccount, SelfPaid, SelfMade, Account
  <2>2. IsFiniteSet(mempool)
    BY DEF CoverInv
  <2>3. IsFiniteSet(mempool') /\ Within(A)' <= Within(A)
    BY <1>1, <1>3, <2>2, WithinReplace
  <2>4. Within(P)' <= Within(P) /\ Within(M)' <= Within(M)
    BY <1>1, <1>3, <2>2, WithinReplace
  <2>. QED
    BY <2>3, <2>4
<1>5. entryCount'[a] = entryCount[a] /\ entryCount[a] \in Nat /\ OwnRoles(a) <= entryCount[a]
  BY DEF ReplaceUserOp, CoverInv, MemTypeOK
<1>6. /\ Within(ByAccount(a)) \in Nat /\ Within(SelfPaid(a)) \in Nat /\ Within(SelfMade(a)) \in Nat
      /\ (Within(ByAccount(a)) \in Nat /\ Within(SelfPaid(a)) \in Nat
            /\ Within(SelfMade(a)) \in Nat)'
  <2>1. \A F : Within(F) \in Nat
    BY WithinNat DEF CoverInv
  <2>2. \A F : Within(F)' \in Nat
    BY <1>4, FS_Subset, FS_CardinalityType DEF Within
  <2>. QED
    BY <2>1, <2>2
<1>. QED
  BY <1>4, <1>5, <1>6 DEF OwnRoles

LEMMA IncrementCovers ==
  ASSUME CoverInv, NEW op \in UserOp, entryCount' = Incremented(op),
         mempool' = mempool \cup {op} \/ mempool' = mempool, NEW a \in Addr
  PROVE  IsFiniteSet(mempool') /\ OwnRoles(a)' <= entryCount'[a]
<1>. DEFINE A == ByAccount(a)  P == SelfPaid(a)  M == SelfMade(a)
<1>1. IsFiniteSet(mempool) /\ OwnRoles(a) <= entryCount[a] /\ entryCount[a] \in Nat
  BY DEF CoverInv, MemTypeOK
<1>2. IsFiniteSet(mempool')
  BY <1>1, FS_AddElement
<1>3. \A F : Within(F) \in Nat
  BY <1>1, WithinNat
<1>4. \A F : Within(F)' \in Nat
  BY <1>2, FS_Subset, FS_CardinalityType DEF Within
<1>5. One(op \in A) \in {0, 1} /\ One(op \in P) \in {0, 1} /\ One(op \in M) \in {0, 1}
  BY DEF One
<1>6. /\ Within(A)' <= Within(A) + One(op \in A)
      /\ Within(P)' <= Within(P) + One(op \in P)
      /\ Within(M)' <= Within(M) + One(op \in M)
  <2>1. CASE mempool' = mempool \cup {op}
    BY <1>1, <2>1, WithinInsert
  <2>2. CASE mempool' = mempool
    <3>1. Within(A)' = Within(A) /\ Within(P)' = Within(P) /\ Within(M)' = Within(M)
      BY <2>2 DEF Within
    <3>. HIDE DEF A, P, M
    <3>. QED
      BY <1>3, <1>5, <3>1
  <2>. QED
    BY <2>1, <2>2
<1>7. One(op \in A) + One(op \in P) + One(op \in M) <= Roles(op, a) /\ Roles(op, a) \in Nat
  BY OwnRolesOf, RolesNat
<1>8. entryCount'[a] = entryCount[a] + Roles(op, a)
  BY DEF Incremented
<1>9. OwnRoles(a) = Within(A) + Within(P) + Within(M)
      /\ OwnRoles(a)' = Within(A)' + Within(P)' + Within(M)'
  BY DEF OwnRoles
<1>. HIDE DEF A, P, M
<1>. QED
  BY <1>1, <1>2, <1>3, <1>4, <1>5, <1>6, <1>7, <1>8, <1>9

LEMMA RemoveCovers ==
  ASSUME CoverInv, NEW e \in mempool, mempool' = mempool \ {e},
         entryCount' = Decremented(entryCount, e), NEW a \in Addr
  PROVE  IsFiniteSet(mempool') /\ OwnRoles(a)' <= entryCount'[a]
<1>. DEFINE A == ByAccount(a)  P == SelfPaid(a)  M == SelfMade(a)
<1>1. IsFiniteSet(mempool) /\ OwnRoles(a) <= entryCount[a] /\ entryCount[a] \in Nat /\ e \in UserOp
  BY DEF CoverInv, MemTypeOK
<1>2. IsFiniteSet(mempool')
  BY <1>1, FS_RemoveElement
<1>3. \A F : Within(F) \in Nat
  BY <1>1, WithinNat
<1>4. \A F : Within(F)' \in Nat
  BY <1>2, FS_Subset, FS_CardinalityType DEF Within
<1>5. One(e \in A) \in {0, 1} /\ One(e \in P) \in {0, 1} /\ One(e \in M) \in {0, 1}
  BY DEF One
<1>6. /\ Within(A)' = Within(A) - One(e \in A)
      /\ Within(P)' = Within(P) - One(e \in P)
      /\ Within(M)' = Within(M) - One(e \in M)
  BY <1>1, WithinRemove
<1>7. entryCount'[a] = Minus(entryCount[a], Roles(e, a)) /\ Roles(e, a) \in Nat
  BY RolesNat DEF Decremented
<1>8. OwnRoles(a) = Within(A) + Within(P) + Within(M)
      /\ OwnRoles(a)' = Within(A)' + Within(P)' + Within(M)'
  BY DEF OwnRoles
<1>9. CASE Account(e) = a
  <2>1. One(e \in A) + One(e \in P) + One(e \in M) = Roles(e, a)
    BY <1>1, <1>9, OwnRolesOf
  <2>. HIDE DEF A, P, M
  <2>2. Roles(e, a) <= OwnRoles(a) /\ OwnRoles(a)' = OwnRoles(a) - Roles(e, a)
    BY <1>3, <1>4, <1>5, <1>6, <1>7, <1>8, <2>1
  <2>3. OwnRoles(a) \in Nat
    BY <1>3, <1>8
  <2>4. Minus(entryCount[a], Roles(e, a)) = entryCount[a] - Roles(e, a)
    BY <1>1, <1>7, <2>2, <2>3 DEF Minus
  <2>. QED
    BY <1>1, <1>2, <1>7, <2>2, <2>3, <2>4
<1>10. CASE Account(e) # a /\ Roles(e, a) = 0
  <2>1. e \notin A /\ e \notin P /\ e \notin M
    BY <1>10 DEF ByAccount, SelfPaid, SelfMade
  <2>2. Minus(entryCount[a], 0) = entryCount[a]
    BY <1>1, MinusNat
  <2>3. Within(A)' = Within(A) /\ Within(P)' = Within(P) /\ Within(M)' = Within(M)
    BY <1>3, <1>6, <2>1 DEF One
  <2>. HIDE DEF A, P, M
  <2>. QED
    BY <1>1, <1>2, <1>7, <1>8, <1>10, <2>2, <2>3
<1>11. CASE Account(e) # a /\ Roles(e, a) # 0
  <2>1. e.paymaster = a \/ e.factory = a
    BY <1>11 DEF Roles, One
  <2>2. mempool \cap A = {} /\ mempool \cap P = {} /\ mempool \cap M = {}
    BY <1>11, <2>1 DEF CoverInv, RoleSeparation, ByAccount, SelfPaid, SelfMade
  <2>3. mempool' \cap A = {} /\ mempool' \cap P = {} /\ mempool' \cap M = {}
    BY <2>2
  <2>4. Within(A)' = 0 /\ Within(P)' = 0 /\ Within(M)' = 0
    BY <2>3, FS_EmptySet DEF Within
  <2>5. Minus(entryCount[a], Roles(e, a)) \in Nat
    BY <1>1, <1>7, MinusNat
  <2>. HIDE DEF A, P, M
  <2>. QED
    BY <1>2, <1>7, <1>8, <2>4, <2>5
<1>. QED
  BY <1>9, <1>10, <1>11

LEMMA ClearCovers ==
  ASSUME ClearMempool, NEW a \in Addr
  PROVE  IsFiniteSet(mempool') /\ OwnRoles(a)' <= entryCount'[a]
<1>1. entryCount'[a] = 0 /\ mempool' = {} /\ \A F : mempool' \cap F = {}
  BY DEF ClearMempool
<1>2. \A F : Within(F)' = 0
  BY <1>1, FS_EmptySet DEF Within
<1>. QED
  BY <1>1, <1>2, FS_EmptySet DEF OwnRoles

LEMMA CoverStep ==
  ASSUME RolesKept, CoverInv, [MemNext]_allVars
  PROVE  CoverInv'
<1>1. MemTypeOK' /\ RoleSeparation'
  BY MemStepTypeOK, SeparationStep DEF CoverInv
<1>2. SUFFICES IsFiniteSet(mempool') /\ \A a \in Addr : OwnRoles(a)' <= entryCount'[a]
  BY <1>1 DEF CoverInv
<1>3. CASE UNCHANGED memVars
  BY <1>3 DEF memVars, CoverInv, OwnRoles, Within
<1>4. CASE \E op \in UserOp : ReplaceUserOp(op)
  <2>1. PICK op \in UserOp : ReplaceUserOp(op)
    BY <1>4
  <2>2. IsFiniteSet(mempool')
    BY <2>1, FS_RemoveElement, FS_AddElement, ZenonT(40) DEF ReplaceUserOp, FindBySenderNonce, CoverInv
  <2>. QED
    BY <2>1, <2>2, ReplaceCovers
<1>5. CASE \E op \in UserOp : InsertUserOp(op) \/ RejectUserOp(op)
  <2>1. PICK op \in UserOp : entryCount' = Incremented(op)
                               /\ (mempool' = mempool \cup {op} \/ mempool' = mempool)
    BY <1>5 DEF InsertUserOp, RejectUserOp
  <2>2. IsFiniteSet(mempool')
    BY <2>1, FS_AddElement DEF CoverInv
  <2>. QED
    BY <2>1, <2>2, IncrementCovers
<1>6. CASE \E S \in SUBSET mempool : Remove(S)
  <2>1. CASE \E e \in mempool : mempool' = mempool \ {e} /\ entryCount' = Decremented(entryCount, e)
    <3>1. IsFiniteSet(mempool')
      BY <2>1, FS_RemoveElement DEF CoverInv
    <3>. QED
      BY <2>1, <3>1, RemoveCovers
  <2>. QED
    BY <1>3, <1>6, <2>1 DEF Remove
<1>7. CASE ClearMempool
  <2>1. IsFiniteSet(mempool')
    BY <1>7, FS_EmptySet DEF ClearMempool
  <2>. QED
    BY <1>7, <2>1, ClearCovers
<1>. QED
  BY <1>3, <1>4, <1>5, <1>6, <1>7, MempoolChanges

LEMMA CoverInit ==
  ASSUME MemInit
  PROVE  CoverInv
<1>1. MemTypeOK /\ IsFiniteSet(mempool) /\ RoleSeparation
  BY FS_EmptySet DEF MemInit, MemTypeOK, RepInit, RepTypeOK, RoleSeparation
<1>2. \A F : Within(F) = 0
  BY FS_EmptySet DEF MemInit, Within
<1>. QED
  BY <1>1, <1>2 DEF CoverInv, OwnRoles, MemInit

(* What the invariant is for.                                              *)
LEMMA CoverInvCovers ==
  ASSUME CoverInv, NEW a \in Addr
  PROVE  /\ Cardinality(Pending(a)) = Within(ByAccount(a))
         /\ Cardinality(Pending(a)) \in Nat
         /\ entryCount[a] \in Nat
         /\ Cardinality(Pending(a)) <= entryCount[a]
<1>1. Cardinality(Pending(a)) = Within(ByAccount(a))
  BY PendingWithin DEF CoverInv, MemTypeOK
<1>. QED
  BY <1>1, OwnRolesNat DEF CoverInv, MemTypeOK, OwnRoles

(* When replacements keep their roles, the counts of the accounts always   *)
(* cover their pending operations.                                         *)
THEOREM SenderCountCoversAlways ==
  ASSUME RolesKept
  PROVE  MemSpec => []SenderCountCovers
<1>1. MemInit => CoverInv
  BY CoverInit
<1>2. CoverInv /\ [MemNext]_allVars => CoverInv'
  BY CoverStep
<1>3. CoverInv => SenderCountCovers
  BY CoverInvCovers DEF SenderCountCovers
<1>. QED
  BY <1>1, <1>2, <1>3, PTL DEF MemSpec, allVars

LEMMA ListsFixed ==
  ASSUME [MemNext]_allVars
  PROVE  whitelist' = whitelist
<1>1. CASE RepNext
  BY <1>1 DEF RepNext, UpdateSeenStatus, UpdateIncludedStatus, CrashedHandleOps, HourlyCron,
     Operator, ClearReputation, SetReputation, listVars
<1>. QED
  BY <1>1 DEF MemNext, allVars, repVars, listVars, ReplaceUserOp, InsertUserOp, RejectUserOp,
     RefuseReplacement, RemoveUserOp, RemoveUserOpByHash, ClearMempool, UpdateSeenRoles

\* neither staked nor whitelisted, in any spelling
Limited(a) == a \notin Staked /\ \A s \in whitelist : Lower[s] # a

(* An insertion for a limited account has passed the test on entryCount.   *)
LEMMA InsertBounded ==
  ASSUME CoverInv, NEW op \in UserOp, InsertUserOp(op), Limited(Account(op))
  PROVE  entryCount'[Account(op)] <= MaxPerSender
<1>1. ~CheckStake(op.sender, Account(op) \in Staked)
  BY AccountAddr DEF CheckStake, IsWhitelisted, Limited, Account
<1>2. Incremented(op)[Account(op)] \in Nat
  BY AccountAddr, RolesNat DEF Incremented, CoverInv, MemTypeOK
<1>. QED
  BY <1>1, <1>2, LimitsAssumption
     DEF InsertUserOp, CheckReputation, CheckReputationStatus, Account

LEMMA LimitStep ==
  ASSUME RolesKept, CoverInv, SenderLimit, [MemNext]_allVars
  PROVE  SenderLimit'
<1>1. CoverInv' /\ whitelist' = whitelist
  BY CoverStep, ListsFixed
<1>. SUFFICES ASSUME NEW a \in Addr, Limited(a)
              PROVE  Cardinality(Pending(a)') <= MaxPerSender
  BY <1>1 DEF SenderLimit, Limited
<1>2. Cardinality(Pending(a)) <= MaxPerSender
  BY DEF SenderLimit, Limited
<1>3. /\ Cardinality(Pending(a)) = Within(ByAccount(a)) /\ Cardinality(Pending(a)) \in Nat
      /\ Cardinality(Pending(a)') = Within(ByAccount(a))' /\ Cardinality(Pending(a)') \in Nat
      /\ Cardinality(Pending(a)') <= entryCount'[a] /\ entryCount'[a] \in Nat
  <2>1. /\ Cardinality(Pending(a)) = Within(ByAccount(a))
        /\ Cardinality(Pending(a)) \in Nat
    BY CoverInvCovers
  <2>2. Cardinality(Pending(a)') = Within(ByAccount(a))'
    <3>1. Pending(a)' = mempool' \cap ByAccount(a)
      BY <1>1 DEF CoverInv, MemTypeOK, Pending, ByAccount, Account
    <3>. QED
      BY <3>1 DEF Within, ByAccount, Account
  <2>3. /\ Within(ByAccount(a))' \in Nat /\ Within(SelfPaid(a))' \in Nat
        /\ Within(SelfMade(a))' \in Nat
    <3>1. \A F : Within(F)' \in Nat
      BY <1>1, FS_Subset, FS_CardinalityType DEF CoverInv, Within
    <3>. QED
      BY <3>1 DEF ByAccount, SelfPaid, SelfMade, Account
  <2>4. OwnRoles(a)' <= entryCount'[a] /\ entryCount'[a] \in Nat
    BY <1>1 DEF CoverInv, MemTypeOK
  <2>. QED
    BY <2>1, <2>2, <2>3, <2>4 DEF OwnRoles
<1>4. ASSUME NEW op \in UserOp, ReplaceUserOp(op)
      PROVE  Cardinality(Pending(a)') <= MaxPerSender
  <2>1. Within(ByAccount(a))' <= Within(ByAccount(a))
    BY <1>4, ReplaceCovers
  <2>. QED
    BY <1>2, <1>3, <2>1, LimitsAssumption
<1>5. ASSUME NEW op \in UserOp, InsertUserOp(op)
      PROVE  Cardinality(Pending(a)') <= MaxPerSender
  <2>1. CASE Account(op) = a
    <3>1. entryCount'[a] <= MaxPerSender
      BY <1>5, <2>1, InsertBounded
    <3>. QED
      BY <1>3, <3>1, LimitsAssumption
  <2>2. CASE Account(op) # a
    <3>1. Pending(a)' = Pending(a)
      BY <1>5, <2>2 DEF InsertUserOp, Pending, Account
    <3>. QED
      BY <1>2, <3>1
  <2>. QED
    BY <2>1, <2>2
<1>6. CASE mempool' \subseteq mempool
  <2>1. Pending(a)' \subseteq Pending(a)
    BY <1>6 DEF Pending, Account
  <2>2. IsFiniteSet(Pending(a))
    BY FS_Subset DEF CoverInv, Pending
  <2>3. Cardinality(Pending(a)') <= Cardinality(Pending(a))
    BY <2>1, <2>2, FS_Subset
  <2>. QED
    BY <1>2, <1>3, <2>3, LimitsAssumption
<1>7. ASSUME NEW S, Remove(S)
      PROVE  mempool' \subseteq mempool
  BY <1>7 DEF Remove, memVars
<1>. QED
  BY <1>4, <1>5, <1>6, <1>7, MempoolChanges DEF RejectUserOp, ClearMempool, memVars

(* When replacements keep their roles, an account that is neither staked   *)
(* nor whitelisted never has more than MAX_MEMPOOL_USEROPS_PER_SENDER      *)
(* pending operations.                                                     *)
THEOREM SenderLimitAlways ==
  ASSUME RolesKept
  PROVE  MemSpec => []SenderLimit
<1>1. MemInit => CoverInv /\ SenderLimit
  <2>1. ASSUME MemInit, NEW a \in Addr
        PROVE  Cardinality(Pending(a)) = 0
    <3>1. Pending(a) = {}
      BY <2>1 DEF MemInit, Pending
    <3>. QED
      BY <3>1, FS_EmptySet
  <2>. QED
    BY <2>1, CoverInit, LimitsAssumption DEF SenderLimit
<1>2. CoverInv /\ SenderLimit /\ [MemNext]_allVars => CoverInv' /\ SenderLimit'
  BY CoverStep, LimitStep
<1>. QED
  BY <1>1, <1>2, PTL DEF MemSpec, allVars
=============================================================================
