---------------------------- MODULE TroveProofs ----------------------------
(***************************************************************************)
(* Proofs about the trove system, for every number of users, every set of  *)
(* inputs and every value of the precisions.  The first part is about its  *)
(* types; that the debt token is backed (its supply is the debt the pools  *)
(* record, the stability pool holds the deposits it recorded, and the last *)
(* trove, the only one left to bear redistributed debt, is never closed);  *)
(* and that the three registers of troves - the statuses, the owners array *)
(* and the sorted list - name the same users, with a reserve in the gas    *)
(* pool for each.  The second part, after the theorems of the first, is    *)
(* about the sums of the troves and about the limits the system keeps.     *)
(*                                                                         *)
(* TypeOK is not inductive: the pending rewards of a trove are natural     *)
(* numbers only because its reward snapshots are behind L, and a revert    *)
(* goes back to a saved storage of which the same must hold.  TypeInv adds *)
(* both.  The backing needs the same of the saved storage; the last trove  *)
(* needs besides that a running loop only ever shortens the owners array.  *)
(*                                                                         *)
(* RegistryConsistent counts; what is inductive is why the counts agree:   *)
(* the back pointer of an active trove leads to the entry of its owner and *)
(* every entry is led to by its own trove, and the list has no user twice. *)
(* With that the reserves are counted by the length of the owners array.   *)
(***************************************************************************)
EXTENDS TroveProperties, SumsProofs, SequenceTheorems

-----------------------------------------------------------------------------
(* Arithmetic and sequences.                                               *)

\* Floor division of naturals gives a natural.
LEMMA DivNat ==
    ASSUME NEW a \in Nat, NEW b \in Nat \ {0}
    PROVE  a \div b \in Nat
  BY SMT

\* A share of a is at most a: what CollGasCompensation, the stability pool and the
\* redistribution take of a collateral never exceeds it.
LEMMA ShareLeq ==
    ASSUME NEW a \in Nat, NEW b \in Nat \ {0}, NEW c \in Nat, c <= b
    PROVE  /\ (a * c) \div b \in Nat
           /\ (a * c) \div b <= a
  BY SMT

\* A quotient is at most its dividend.
LEMMA QuotientLeq ==
    ASSUME NEW a \in Nat, NEW b \in Nat \ {0}
    PROVE  a \div b \in Nat /\ a \div b <= a
  BY SMT

\* Products of naturals are naturals, as a fact the leaves below can cite.
LEMMA TimesNat ==
    ASSUME NEW a \in Nat, NEW b \in Nat
    PROVE  a * b \in Nat
  BY SMT

\* SortedTroves inserts a node: the list stays a list of users.
LEMMA InsertAtSeq ==
    ASSUME NEW S, NEW s \in Seq(S), NEW e \in S, NEW i \in 1..(Len(s) + 1)
    PROVE  InsertAt(s, i, e) \in Seq(S)
  BY DEF InsertAt

\* SortedTroves removes a node: the list stays a list of users.
LEMMA RemoveAtSeq ==
    ASSUME NEW S, NEW s \in Seq(S), NEW i \in 1..Len(s)
    PROVE  RemoveAt(s, i) \in Seq(S)
  BY DEF RemoveAt

\* The loops walk the list from its tail.
LEMMA ReverseSeq ==
    ASSUME NEW S, NEW s \in Seq(S)
    PROVE  Reverse(s) \in Seq(S) /\ Len(Reverse(s)) = Len(s)
  BY DEF Reverse

\* TroveOwners loses its last element when a trove is closed.
LEMMA FrontSeq ==
    ASSUME NEW S, NEW s \in Seq(S), Len(s) > 0
    PROVE  /\ Front(s) \in Seq(S)
           /\ Len(Front(s)) = Len(s) - 1
           /\ Last(s) \in S
<1>1. Len(s) \in Nat /\ Len(s) - 1 \in Nat /\ Len(s) \in 1..Len(s)
  BY SMT
<1>2. Last(s) \in S
  BY <1>1 DEF Last
<1>3. Front(s) = SubSeq(s, 1, Len(s) - 1)
  BY DEF Front
<1>4. \A i \in 1..(Len(s) - 1) : s[i] \in S
  BY <1>1
<1>5. /\ SubSeq(s, 1, Len(s) - 1) \in Seq(S)
      /\ Len(SubSeq(s, 1, Len(s) - 1)) = IF 1 <= Len(s) - 1 THEN (Len(s) - 1) - 1 + 1 ELSE 0
  BY <1>1, <1>4, SubSeqProperties
<1>6. ASSUME NEW n \in Nat, n > 0
      PROVE  (IF 1 <= n - 1 THEN (n - 1) - 1 + 1 ELSE 0) = n - 1
  <2>1. CASE n = 1
    BY <2>1
  <2>2. CASE n > 1
    BY <2>2
  <2>. QED
    BY <1>6, <2>1, <2>2
<1>. QED
  BY <1>1, <1>2, <1>3, <1>5, <1>6

\* A user in the list has a position in it.
LEMMA PositionOfRange ==
    ASSUME NEW S, NEW s \in Seq(S), NEW u \in S, Contains(s, u)
    PROVE  PositionOf(s, u) \in 1..Len(s)
  BY DEF PositionOf, Contains

\* The first n elements of a list.
LEMMA SubSeqSeq ==
    ASSUME NEW S, NEW s \in Seq(S), NEW n \in Nat, n <= Len(s)
    PROVE  SubSeq(s, 1, n) \in Seq(S)
  BY SMT

\* What a loop has still to visit.
LEMMA TailSeq ==
    ASSUME NEW S, NEW s \in Seq(S), s # <<>>
    PROVE  Tail(s) \in Seq(S) /\ Head(s) \in S
  BY SMT

-----------------------------------------------------------------------------
(* The inductive type invariant.                                           *)

TroveType    == [status : Status, debt : Nat, coll : Nat, stake : Nat, arrayIndex : Nat]
SnapshotType == [FIL : Nat, debt : Nat]
LType        == [FIL : Nat, debt : Nat, lastFILError : Nat, lastDebtError : Nat]
SurplusType  == [FIL : Nat, balances : [Users -> Nat]]
DepositType  == [deposits : Nat, FIL : Nat]

\* TypeOK of the storage, one variable at a time.
TrovesTyped ==
    /\ Troves \in [Users -> TroveType]
    /\ rewardSnapshots \in [Users -> SnapshotType]
    /\ TroveOwners \in Seq(Users)
    /\ sortedTroves \in Seq(Users)
    /\ totalStakes \in Nat

SnapshotsTyped ==
    /\ totalStakesSnapshot \in Nat
    /\ totalCollateralSnapshot \in Nat
    /\ L \in LType

PoolsTyped ==
    /\ activePool \in PoolType
    /\ defaultPool \in PoolType
    /\ collSurplusPool \in SurplusType
    /\ stabilityPool \in DepositType
    /\ balanceOf \in [Holders -> Nat]

Typed ==
    /\ price \in Nat \ {0}
    /\ TrovesTyped
    /\ SnapshotsTyped
    /\ PoolsTyped

\* No trove has a reward snapshot ahead of L.
SnapshotsBehind(snapshots, l) ==
    \A u \in Users : snapshots[u].FIL <= l.FIL /\ snapshots[u].debt <= l.debt

TypeInv ==
    /\ TypeOK
    /\ SnapshotsBehind(rewardSnapshots, L)
    /\ SnapshotsBehind(saved.rewardSnapshots, saved.L)

\* The type of the storage record is the types of its variables.
LEMMA StorageTyped == Storage \in StorageType <=> TrovesTyped /\ SnapshotsTyped /\ PoolsTyped
  BY DEF Storage, StorageType, TrovesTyped, SnapshotsTyped, PoolsTyped,
         TroveType, SnapshotType, LType, SurplusType, DepositType

\* The same in the next state.
LEMMA StorageTypedNext ==
    (Storage \in StorageType)' <=> TrovesTyped' /\ SnapshotsTyped' /\ PoolsTyped'
  BY StorageTyped, PTL

\* What TypeOK says of the storage.
LEMMA TypedFacts == TypeOK => Typed
  BY StorageTyped, InputAssumption DEF TypeOK, Typed

-----------------------------------------------------------------------------
(* Helpers.                                                                *)

\* The fields of a trove.
LEMMA TroveFields ==
    ASSUME Typed, NEW u \in Users
    PROVE  /\ Troves[u].debt \in Nat /\ Troves[u].coll \in Nat /\ Troves[u].stake \in Nat
           /\ totalStakes \in Nat
  BY DEF Typed, TrovesTyped, TroveType

\* The amounts in the pools, and of the debt token.
LEMMA PoolFields ==
    ASSUME Typed
    PROVE  /\ activePool.FIL \in Nat /\ activePool.debt \in Nat
           /\ defaultPool.FIL \in Nat /\ defaultPool.debt \in Nat
           /\ stabilityPool.deposits \in Nat /\ stabilityPool.FIL \in Nat
           /\ balanceOf \in [Holders -> Nat]
           /\ balanceOf["users"] \in Nat /\ balanceOf["gasPool"] \in Nat
           /\ balanceOf["stabilityPool"] \in Nat
           /\ balanceOf["protocolTokenStaking"] \in Nat
  BY DEF Typed, PoolsTyped, PoolType, DepositType, Holders

\* The pending rewards of a trove, and what it owes and holds with them, are naturals.
LEMMA PendingType ==
    ASSUME Typed, SnapshotsBehind(rewardSnapshots, L), NEW u \in Users
    PROVE  /\ getPendingFILReward(u) \in Nat
           /\ getPendingDebtReward(u) \in Nat
           /\ EntireDebt(u) \in Nat
           /\ EntireColl(u) \in Nat
<1>1. /\ Troves[u].stake \in Nat /\ Troves[u].debt \in Nat /\ Troves[u].coll \in Nat
      /\ L.FIL - rewardSnapshots[u].FIL \in Nat
      /\ L.debt - rewardSnapshots[u].debt \in Nat
      /\ DECIMAL_PRECISION \in Nat \ {0}
  BY PrecisionAssumption
     DEF Typed, TrovesTyped, SnapshotsTyped, TroveType, SnapshotType, LType, SnapshotsBehind
<1>2. /\ getPendingFILReward(u) \in Nat
      /\ getPendingDebtReward(u) \in Nat
  BY <1>1, DivNat, TimesNat DEF getPendingFILReward, getPendingDebtReward
<1>. QED
  BY <1>1, <1>2 DEF EntireDebt, EntireColl

\* The rewards applied are natural numbers, and the snapshot they leave is not ahead.
LEMMA AppliedType ==
    ASSUME Typed, SnapshotsBehind(rewardSnapshots, L), NEW u \in Users
    PROVE  /\ AppliedRewards(u) \in PoolType
           /\ AppliedSnapshot(u) \in SnapshotType
           /\ AppliedSnapshot(u).FIL <= L.FIL
           /\ AppliedSnapshot(u).debt <= L.debt
<1>1. AppliedRewards(u) \in PoolType
  BY PendingType DEF AppliedRewards, PoolType
<1>. QED
  BY <1>1 DEF AppliedSnapshot, CurrentL, Typed, TrovesTyped, SnapshotsTyped, SnapshotType,
              LType, SnapshotsBehind

\* The default pool is left with what it does not give.
LEMMA MoveRewardsType ==
    ASSUME Typed, NEW r \in PoolType, MovePendingTroveRewardsToActivePool(r)
    PROVE  defaultPool' \in PoolType
  BY DEF Typed, PoolsTyped, PoolType, MovePendingTroveRewardsToActivePool

\* A stake is a natural number.
LEMMA NewStakeNat ==
    ASSUME Typed, NEW coll \in Nat
    PROVE  ComputeNewStake(coll) \in Nat
  BY DivNat, TimesNat DEF ComputeNewStake, Typed, SnapshotsTyped

\* Wherever the new node goes.
LEMMA InsertType ==
    ASSUME NEW list \in Seq(Users), NEW u \in Users, NEW nicr, Insert(list, u, nicr)
    PROVE  sortedTroves' \in Seq(Users)
<1>1. PICK i \in InsertPositions(list, nicr) : sortedTroves' = InsertAt(list, i, u)
  BY DEF Insert
<1>2. i \in 1..(Len(list) + 1)
  BY DEF InsertPositions
<1>. QED
  BY <1>1, <1>2, InsertAtSeq

\* Removing and inserting a node.
LEMMA ReInsertType ==
    ASSUME Typed, NEW u \in Users, NEW nicr, ReInsert(u, nicr)
    PROVE  sortedTroves' \in Seq(Users)
<1>1. sortedTroves \in Seq(Users) /\ Contains(sortedTroves, u)
  BY DEF Typed, TrovesTyped, ReInsert
<1>2. RemoveAt(sortedTroves, PositionOf(sortedTroves, u)) \in Seq(Users)
  BY <1>1, RemoveAtSeq, PositionOfRange
<1>. QED
  BY <1>2, InsertType DEF ReInsert

\* An updated trove keeps the types, and a snapshot that is not ahead of L.
LEMMA UpdateTroveType ==
    ASSUME Typed, SnapshotsBehind(rewardSnapshots, L), NEW u \in Users,
           NEW coll \in Nat, NEW debt \in Nat, NEW snapshot \in SnapshotType,
           snapshot.FIL <= L.FIL, snapshot.debt <= L.debt,
           UpdateTrove(u, coll, debt, snapshot)
    PROVE  TrovesTyped' /\ SnapshotsBehind(rewardSnapshots', L)
<1>1. ComputeNewStake(coll) \in Nat
  BY NewStakeNat
<1>2. Troves' \in [Users -> TroveType]
  BY <1>1 DEF UpdateTrove, Typed, TrovesTyped, TroveType
<1>3. rewardSnapshots' \in [Users -> SnapshotType] /\ SnapshotsBehind(rewardSnapshots', L)
  BY DEF UpdateTrove, Typed, TrovesTyped, SnapshotsBehind
<1>4. totalStakes' \in Nat
  BY <1>1 DEF UpdateTrove, NewTotalStakes, Typed, TrovesTyped, TroveType
<1>5. sortedTroves' \in Seq(Users)
  BY ReInsertType DEF UpdateTrove
<1>6. TroveOwners' \in Seq(Users)
  <2>1. TroveOwners' = TroveOwners
    BY Zenon DEF UpdateTrove
  <2>. QED
    BY <2>1 DEF Typed, TrovesTyped
<1>. QED
  BY <1>2, <1>3, <1>4, <1>5, <1>6 DEF TrovesTyped

\* Closing a trove keeps the types and shortens the owners array by one.
LEMMA CloseTroveType ==
    ASSUME Typed, SnapshotsBehind(rewardSnapshots, L), NEW u \in Users,
           NEW status \in Status, RemoveStakeAndCloseTrove(u, status)
    PROVE  /\ TrovesTyped'
           /\ SnapshotsBehind(rewardSnapshots', L)
           /\ Len(TroveOwners) > 1
           /\ Len(TroveOwners') = Len(TroveOwners) - 1
<1>1. /\ TroveOwners \in Seq(Users) /\ Len(TroveOwners) > 1
      /\ sortedTroves \in Seq(Users) /\ Contains(sortedTroves, u)
      /\ Troves \in [Users -> TroveType]
      /\ Troves[u].arrayIndex \in Nat /\ Troves[u].arrayIndex < Len(TroveOwners)
  BY DEF RemoveStakeAndCloseTrove, MoreThanOneTrove, Typed, TrovesTyped, TroveType
<1>2. Last(TroveOwners) \in Users
  BY <1>1, FrontSeq
<1>3. Troves' \in [Users -> TroveType]
  BY <1>1, <1>2 DEF RemoveStakeAndCloseTrove, NoTrove, TroveType
<1>4. rewardSnapshots' \in [Users -> SnapshotType] /\ SnapshotsBehind(rewardSnapshots', L)
  BY DEF RemoveStakeAndCloseTrove, NoSnapshot, Typed, TrovesTyped, SnapshotsTyped,
         SnapshotsBehind, SnapshotType, LType
<1>5. TroveOwners' \in Seq(Users) /\ Len(TroveOwners') = Len(TroveOwners) - 1
  <2>. DEFINE swapped == [TroveOwners EXCEPT ![Troves[u].arrayIndex + 1] = Last(TroveOwners)]
  <2>1. swapped \in Seq(Users) /\ Len(swapped) = Len(TroveOwners)
    BY <1>1, <1>2
  <2>2. TroveOwners' = Front(swapped)
    BY DEF RemoveStakeAndCloseTrove, OwnersWithout
  <2>3. Len(swapped) > 0
    BY <1>1, <2>1
  <2>. HIDE DEF swapped
  <2>4. Front(swapped) \in Seq(Users) /\ Len(Front(swapped)) = Len(swapped) - 1
    BY <2>1, <2>3, FrontSeq
  <2>. QED
    BY <2>1, <2>2, <2>4
<1>6. sortedTroves' \in Seq(Users)
  BY <1>1, RemoveAtSeq, PositionOfRange DEF RemoveStakeAndCloseTrove
<1>7. totalStakes' \in Nat
  BY DEF RemoveStakeAndCloseTrove, Typed, TrovesTyped, TroveType
<1>. QED
  BY <1>1, <1>3, <1>4, <1>5, <1>6, <1>7 DEF TrovesTyped

-----------------------------------------------------------------------------
(* What every step preserves: the types of the storage, and of the loops.  *)

StorageInv == Typed /\ SnapshotsBehind(rewardSnapshots, L)

LoopInv ==
    /\ liquidation \in LiquidationType
    /\ redemption \in RedemptionType
    /\ saved \in StorageType
    /\ SnapshotsBehind(saved.rewardSnapshots, saved.L)
    /\ txs \in 0..MaxTxs

\* The type invariant is the storage's and the loops'.
LEMMA TypeInvParts == TypeInv <=> price \in Prices /\ StorageInv /\ LoopInv
  BY StorageTyped, InputAssumption DEF TypeInv, TypeOK, Typed, StorageInv, LoopInv

\* A transaction of one step leaves the loop variables alone.
LEMMA LoopUnchanged ==
    ASSUME LoopInv, StartTransaction, UNCHANGED loopVars
    PROVE  LoopInv'
  BY MaxTxsAssumption DEF LoopInv, loopVars, StartTransaction

\* The fee on an amount, at whatever rate.
LEMMA FeeType ==
    ASSUME NEW more, NEW rate \in RatesCharged(more), NEW amount \in Nat
    PROVE  BorrowingFee(rate, amount) \in Nat
<1>1. rate \in Nat
  BY RateAssumption, PrecisionAssumption DEF RatesCharged
<1>. QED
  BY <1>1, DivNat, TimesNat, PrecisionAssumption DEF BorrowingFee

-----------------------------------------------------------------------------
(* Transactions of one step.                                               *)

\* A new price.
LEMMA SetPriceType ==
    ASSUME StorageInv, LoopInv, NEW p \in Prices, SetPrice(p)
    PROVE  price' \in Prices /\ StorageInv' /\ LoopInv'
<1>1. LoopInv'
  BY LoopUnchanged DEF SetPrice
<1>2. price' \in Prices /\ price' \in Nat \ {0}
  BY InputAssumption DEF SetPrice
<1>. QED
  BY <1>1, <1>2
     DEF SetPrice, StorageInv, Typed, TrovesTyped, SnapshotsTyped, PoolsTyped,
         SnapshotsBehind, troveVars, snapshotVars

\* openTrove, whatever the fee.
LEMMA OpenTroveType ==
    ASSUME StorageInv, LoopInv, NEW u \in Users, NEW coll \in Nat, NEW amount \in Nat,
           NEW fee \in Nat, OpenTroveAtFee(u, coll, amount, fee)
    PROVE  price' = price /\ StorageInv' /\ LoopInv'
<1>. USE DEF StorageInv
<1>1. LoopInv' /\ price' = price /\ UNCHANGED snapshotVars
  BY LoopUnchanged DEF OpenTroveAtFee
<1>2. CompositeDebt(amount + fee) \in Nat
  BY DebtAssumption DEF CompositeDebt
<1>3. /\ Troves[u].debt \in Nat /\ Troves[u].coll \in Nat /\ Troves[u].stake \in Nat
      /\ Troves[u].coll + coll \in Nat
      /\ TroveOwners \in Seq(Users) /\ sortedTroves \in Seq(Users)
  BY DEF Typed, TrovesTyped, TroveType
<1>4. ComputeNewStake(Troves[u].coll + coll) \in Nat
  BY <1>3, NewStakeNat
<1>5. TrovesTyped'
  <2>1. Troves' \in [Users -> TroveType]
    <3>. DEFINE opened == [status |-> "active",
                           debt |-> Troves[u].debt + CompositeDebt(amount + fee),
                           coll |-> Troves[u].coll + coll,
                           stake |-> ComputeNewStake(Troves[u].coll + coll),
                           arrayIndex |-> Len(TroveOwners)]
    <3>1. opened \in TroveType
      <4>1. /\ Troves[u].debt + CompositeDebt(amount + fee) \in Nat
            /\ Len(TroveOwners) \in Nat
        BY <1>2, <1>3
      <4>. QED
        BY <1>3, <1>4, <4>1, Zenon DEF TroveType, Status
    <3>2. Troves' = [Troves EXCEPT ![u] = opened]
      BY DEF OpenTroveAtFee
    <3>. HIDE DEF opened
    <3>. QED
      BY <3>1, <3>2 DEF Typed, TrovesTyped
  <2>2. rewardSnapshots' \in [Users -> SnapshotType]
    BY DEF OpenTroveAtFee, Typed, TrovesTyped, SnapshotsTyped, SnapshotType, LType, CurrentL
  <2>3. TroveOwners' \in Seq(Users)
    BY <1>3 DEF OpenTroveAtFee
  <2>4. sortedTroves' \in Seq(Users)
    BY <1>3, InsertType DEF OpenTroveAtFee
  <2>5. totalStakes' \in Nat
    <3>. DEFINE stake == ComputeNewStake(Troves[u].coll + coll)
    <3>1. /\ Troves[u].stake <= totalStakes
          /\ totalStakes' = (totalStakes - Troves[u].stake) + stake
      BY DEF OpenTroveAtFee, NewTotalStakes
    <3>2. stake \in Nat
      BY <1>4
    <3>. HIDE DEF stake
    <3>. QED
      BY <3>1, <3>2, TroveFields
  <2>. QED
    BY <2>1, <2>2, <2>3, <2>4, <2>5 DEF TrovesTyped
<1>6. PoolsTyped'
  <2>1. activePool' \in PoolType
    BY <1>2 DEF OpenTroveAtFee, Typed, PoolsTyped, PoolType
  <2>2. balanceOf' \in [Holders -> Nat]
    <3>1. balanceOf' = [balanceOf EXCEPT
            !["users"] = @ + amount,
            !["gasPool"] = @ + GAS_COMPENSATION,
            !["protocolTokenStaking"] = @ + fee]
      BY DEF OpenTroveAtFee
    <3>. QED
      BY <3>1, DebtAssumption DEF Typed, PoolsTyped, Holders
  <2>3. UNCHANGED <<defaultPool, collSurplusPool, stabilityPool>>
    BY DEF OpenTroveAtFee
  <2>. QED
    BY <2>1, <2>2, <2>3 DEF Typed, PoolsTyped
<1>7. SnapshotsBehind(rewardSnapshots', L')
  BY <1>1 DEF OpenTroveAtFee, Typed, TrovesTyped, SnapshotsTyped, LType, SnapshotsBehind,
         CurrentL, snapshotVars
<1>. QED
  BY <1>1, <1>5, <1>6, <1>7 DEF Typed, SnapshotsTyped, snapshotVars, SnapshotsBehind

\* _adjustTrove: no subtraction of collateral, debt or tokens goes below zero.
LEMMA AdjustTroveType ==
    ASSUME StorageInv, LoopInv, stabilityPool' \in DepositType,
           NEW u \in Users, NEW collReceived \in Nat, NEW collWithdrawal \in Nat,
           NEW debtChange \in Nat, NEW isDebtIncrease \in BOOLEAN, NEW fee \in Nat,
           AdjustTroveAtFee(u, collReceived, collWithdrawal, debtChange, isDebtIncrease, fee)
    PROVE  price' = price /\ StorageInv' /\ LoopInv'
<1>. USE DEF StorageInv
<1>. DEFINE coll    == Troves[u].coll + AppliedRewards(u).FIL
            debt    == Troves[u].debt + AppliedRewards(u).debt
            newColl == (coll + collReceived) - collWithdrawal
            newDebt == IF isDebtIncrease THEN debt + debtChange + fee ELSE debt - debtChange
<1>1. /\ LoopInv' /\ price' = price
      /\ UNCHANGED <<snapshotVars, collSurplusPool>>
  BY LoopUnchanged DEF AdjustTroveAtFee
<1>2. AppliedRewards(u).FIL \in Nat /\ AppliedRewards(u).debt \in Nat
  BY AppliedType DEF PoolType
<1>3. coll \in Nat /\ debt \in Nat
  BY <1>2, TroveFields
<1>4. newColl \in Nat
  <2>1. collWithdrawal <= coll
    BY DEF AdjustTroveAtFee
  <2>. QED
    BY <1>3, <2>1
<1>5. newDebt \in Nat
  <2>1. CASE isDebtIncrease
    BY <1>3, <2>1
  <2>2. CASE ~isDebtIncrease /\ debtChange = 0
    BY <1>3, <2>2
  <2>3. CASE ~isDebtIncrease /\ debtChange > 0
    <3>1. AtLeastMinNetDebt(NetDebt(newDebt))
      BY <2>3 DEF AdjustTroveAtFee
    <3>. QED
      BY <1>3, <2>3, <3>1, DebtAssumption DEF AtLeastMinNetDebt, NetDebt
  <2>. QED
    BY <2>1, <2>2, <2>3
<1>6. TrovesTyped' /\ SnapshotsBehind(rewardSnapshots', L)
  <2>1. UpdateTrove(u, newColl, newDebt, AppliedSnapshot(u))
    BY DEF AdjustTroveAtFee
  <2>. HIDE DEF coll, debt, newColl, newDebt
  <2>. QED
    BY <1>4, <1>5, <2>1, UpdateTroveType, AppliedType
<1>7. defaultPool' \in PoolType
  BY AppliedType, MoveRewardsType DEF AdjustTroveAtFee
<1>8. activePool' \in PoolType
  <2>1. /\ collWithdrawal <= activePool.FIL + AppliedRewards(u).FIL + collReceived
        /\ debt <= activePool.debt + AppliedRewards(u).debt + newDebt
        /\ activePool' =
             [FIL  |-> (activePool.FIL + AppliedRewards(u).FIL + collReceived) - collWithdrawal,
              debt |-> (activePool.debt + AppliedRewards(u).debt + newDebt) - debt]
    BY DEF AdjustTroveAtFee
  <2>. HIDE DEF coll, debt, newColl, newDebt
  <2>. QED
    BY <1>2, <1>3, <1>5, <2>1 DEF Typed, PoolsTyped, PoolType
<1>9. balanceOf' \in [Holders -> Nat]
  <2>1. /\ (~isDebtIncrease /\ debtChange > 0) => debtChange <= balanceOf["users"]
        /\ balanceOf' = [balanceOf EXCEPT
             !["users"] = IF isDebtIncrease THEN @ + debtChange ELSE @ - debtChange,
             !["protocolTokenStaking"] = @ + fee]
    BY DEF AdjustTroveAtFee
  <2>2. (IF isDebtIncrease THEN balanceOf["users"] + debtChange
                           ELSE balanceOf["users"] - debtChange) \in Nat
    BY <2>1 DEF Typed, PoolsTyped, Holders
  <2>. QED
    BY <2>1, <2>2 DEF Typed, PoolsTyped, Holders
<1>. QED
  BY <1>1, <1>6, <1>7, <1>8, <1>9
     DEF Typed, SnapshotsTyped, PoolsTyped, snapshotVars, SnapshotsBehind

\* closeTrove: the pools and the owner can pay what closing takes.
LEMMA CloseTroveTypes ==
    ASSUME StorageInv, LoopInv, NEW u \in Users, CloseTrove(u)
    PROVE  price' = price /\ StorageInv' /\ LoopInv'
<1>. USE DEF StorageInv
<1>1. /\ LoopInv' /\ price' = price
      /\ UNCHANGED <<snapshotVars, collSurplusPool, stabilityPool>>
  BY LoopUnchanged DEF CloseTrove
<1>2. AppliedRewards(u).FIL \in Nat /\ AppliedRewards(u).debt \in Nat
  BY AppliedType DEF PoolType
<1>3. TrovesTyped' /\ SnapshotsBehind(rewardSnapshots', L)
  BY CloseTroveType DEF CloseTrove, Status
<1>4. defaultPool' \in PoolType
  BY AppliedType, MoveRewardsType DEF CloseTrove
<1>5. activePool' \in PoolType
  <2>. DEFINE coll == Troves[u].coll + AppliedRewards(u).FIL
              debt == Troves[u].debt + AppliedRewards(u).debt
  <2>1. /\ coll <= activePool.FIL + AppliedRewards(u).FIL
        /\ debt <= activePool.debt + AppliedRewards(u).debt
        /\ activePool' = [FIL  |-> (activePool.FIL + AppliedRewards(u).FIL) - coll,
                          debt |-> (activePool.debt + AppliedRewards(u).debt) - debt]
    BY DEF CloseTrove
  <2>2. coll \in Nat /\ debt \in Nat
    BY <1>2, TroveFields
  <2>. HIDE DEF coll, debt
  <2>. QED
    BY <1>2, <2>1, <2>2 DEF Typed, PoolsTyped, PoolType
<1>6. balanceOf' \in [Holders -> Nat]
  <2>. DEFINE netDebt == NetDebt(Troves[u].debt + AppliedRewards(u).debt)
  <2>1. /\ netDebt >= 0 /\ netDebt <= balanceOf["users"]
        /\ GAS_COMPENSATION <= balanceOf["gasPool"]
        /\ balanceOf' = [balanceOf EXCEPT
             !["users"] = @ - netDebt, !["gasPool"] = @ - GAS_COMPENSATION]
    BY DEF CloseTrove
  <2>2. netDebt \in Int
    BY <1>2, DebtAssumption DEF NetDebt, Typed, TrovesTyped, TroveType
  <2>. HIDE DEF netDebt
  <2>. QED
    BY <2>1, <2>2, DebtAssumption DEF Typed, PoolsTyped, Holders
<1>. QED
  BY <1>1, <1>3, <1>4, <1>5, <1>6
     DEF Typed, SnapshotsTyped, PoolsTyped, snapshotVars, SnapshotsBehind

\* The transactions that touch neither the troves nor the active and default pools.
LEMMA PoolStepType ==
    ASSUME StorageInv, LoopInv, StartTransaction, UNCHANGED <<price, loopVars>>,
           UNCHANGED <<troveVars, snapshotVars, activePool, defaultPool>>,
           collSurplusPool' \in SurplusType, stabilityPool' \in DepositType,
           balanceOf' \in [Holders -> Nat]
    PROVE  price' = price /\ StorageInv' /\ LoopInv'
<1>1. LoopInv'
  BY LoopUnchanged
<1>. QED
  BY <1>1 DEF StorageInv, Typed, TrovesTyped, SnapshotsTyped, PoolsTyped, SnapshotsBehind,
              troveVars, snapshotVars

\* claimCollateral.
LEMMA ClaimCollateralType ==
    ASSUME StorageInv, LoopInv, NEW u \in Users, ClaimCollateral(u)
    PROVE  price' = price /\ StorageInv' /\ LoopInv'
<1>1. collSurplusPool' \in SurplusType
  BY DEF ClaimCollateral, StorageInv, Typed, PoolsTyped, SurplusType
<1>. QED
  BY <1>1, PoolStepType DEF ClaimCollateral, StorageInv, Typed, PoolsTyped, loopVars

\* A deposit.
LEMMA ProvideToSPType ==
    ASSUME StorageInv, LoopInv, NEW amount \in Nat, NEW gain \in Nat,
           ProvideToSP(amount, gain)
    PROVE  price' = price /\ StorageInv' /\ LoopInv'
<1>1. /\ amount <= balanceOf["users"] /\ gain <= stabilityPool.FIL
      /\ stabilityPool' = [deposits |-> stabilityPool.deposits + amount,
                           FIL |-> stabilityPool.FIL - gain]
      /\ balanceOf' = [balanceOf EXCEPT
           !["users"] = @ - amount, !["stabilityPool"] = @ + amount]
  BY DEF ProvideToSP
<1>2. stabilityPool' \in DepositType
  BY <1>1, PoolFields DEF StorageInv, DepositType
<1>3. balanceOf' \in [Holders -> Nat]
  BY <1>1, PoolFields DEF StorageInv, Holders
<1>. QED
  BY <1>2, <1>3, PoolStepType DEF ProvideToSP, StorageInv, Typed, PoolsTyped, loopVars

\* A withdrawal.
LEMMA WithdrawFromSPType ==
    ASSUME StorageInv, LoopInv, NEW amount \in Nat, NEW gain \in Nat,
           WithdrawFromSP(amount, gain)
    PROVE  price' = price /\ StorageInv' /\ LoopInv'
<1>1. /\ amount <= stabilityPool.deposits /\ amount <= balanceOf["stabilityPool"]
      /\ gain <= stabilityPool.FIL
      /\ stabilityPool' = [deposits |-> stabilityPool.deposits - amount,
                           FIL |-> stabilityPool.FIL - gain]
      /\ balanceOf' = [balanceOf EXCEPT
           !["users"] = @ + amount, !["stabilityPool"] = @ - amount]
  BY DEF WithdrawFromSP, Withdrawable
<1>2. stabilityPool' \in DepositType
  BY <1>1, PoolFields DEF StorageInv, DepositType
<1>3. balanceOf' \in [Holders -> Nat]
  BY <1>1, PoolFields DEF StorageInv, Holders
<1>. QED
  BY <1>2, <1>3, PoolStepType DEF WithdrawFromSP, StorageInv, Typed, PoolsTyped, loopVars

\* The stakers' claim.
LEMMA ClaimStakingGainsType ==
    ASSUME StorageInv, LoopInv, ClaimStakingGains
    PROVE  price' = price /\ StorageInv' /\ LoopInv'
<1>1. balanceOf' \in [Holders -> Nat]
  BY DEF ClaimStakingGains, StorageInv, Typed, PoolsTyped, Holders
<1>. QED
  BY <1>1, PoolStepType DEF ClaimStakingGains, StorageInv, Typed, PoolsTyped, loopVars

-----------------------------------------------------------------------------
(* The start and the failure of the transactions that loop.                *)

\* A liquidation starts from trackers and a saved storage that are well typed.
LEMMA BeginLiquidationType ==
    ASSUME StorageInv, LoopInv, NEW troves \in Seq(Users), NEW isBatch \in BOOLEAN,
           BeginLiquidation(troves, isBatch)
    PROVE  price' = price /\ StorageInv' /\ LoopInv'
<1>. USE DEF StorageInv
<1>1. /\ price' = price
      /\ UNCHANGED <<troveVars, snapshotVars, activePool, defaultPool, collSurplusPool,
                     stabilityPool, balanceOf, redemption>>
  BY DEF BeginLiquidation
<1>2. StorageInv'
  BY <1>1 DEF Typed, TrovesTyped, SnapshotsTyped, PoolsTyped, SnapshotsBehind,
              troveVars, snapshotVars
<1>3. liquidation' \in LiquidationType
  <2>1. stabilityPool.deposits \in Nat /\ getEntireSystemDebt \in Nat /\ getEntireSystemColl \in Nat
    BY DEF Typed, PoolsTyped, PoolType, DepositType, getEntireSystemDebt, getEntireSystemColl
  <2>2. NoTotals \in TotalsType
    BY DEF NoTotals, TotalsType
  <2>3. RecoveryMode \in BOOLEAN
    BY SMT DEF RecoveryMode
  <2>4. liquidation' =
          [running |-> TRUE, batch |-> isBatch, recovery |-> RecoveryMode, todo |-> troves,
           remainingDebtTokenInStabPool |-> stabilityPool.deposits,
           entireSystemDebt |-> getEntireSystemDebt, entireSystemColl |-> getEntireSystemColl,
           totals |-> NoTotals]
    BY DEF BeginLiquidation, NoLiquidation
  <2>. QED
    BY <2>1, <2>2, <2>3, <2>4 DEF LiquidationType
<1>4. saved' \in StorageType /\ SnapshotsBehind(saved'.rewardSnapshots, saved'.L)
  <2>1. saved' = Storage
    BY DEF BeginLiquidation
  <2>2. Storage \in StorageType
    BY StorageTyped DEF Typed
  <2>3. Storage.rewardSnapshots = rewardSnapshots /\ Storage.L = L
    BY DEF Storage
  <2>. QED
    BY <2>1, <2>2, <2>3
<1>5. txs' \in 0..MaxTxs
  BY MaxTxsAssumption DEF LoopInv, BeginLiquidation, StartTransaction
<1>. QED
  BY <1>1, <1>2, <1>3, <1>4, <1>5 DEF LoopInv

\* The sequence is part of the list.
LEMMA BeginSequenceType ==
    ASSUME StorageInv, LoopInv, NEW n \in Nat, BeginSequence(n)
    PROVE  price' = price /\ StorageInv' /\ LoopInv'
<1>. DEFINE upwards == Reverse(IF RecoveryMode /\ sortedTroves # <<>>
                                 THEN Tail(sortedTroves) ELSE sortedTroves)
            m       == MinOf(n, Len(upwards))
<1>1. upwards \in Seq(Users)
  BY ReverseSeq, TailSeq DEF StorageInv, Typed, TrovesTyped
<1>2. m \in Nat /\ m <= Len(upwards)
  BY <1>1 DEF MinOf
<1>3. BeginLiquidation(SubSeq(upwards, 1, m), FALSE)
  BY DEF BeginSequence
<1>. HIDE DEF upwards, m
<1>4. SubSeq(upwards, 1, m) \in Seq(Users)
  BY <1>1, <1>2, SubSeqSeq
<1>. QED
  BY <1>3, <1>4, BeginLiquidationType

\* A redemption starts with part of the list.
LEMMA BeginRedemptionType ==
    ASSUME StorageInv, LoopInv, NEW amount \in Nat, NEW n \in Nat,
           BeginRedemption(amount, n)
    PROVE  price' = price /\ StorageInv' /\ LoopInv'
<1>. USE DEF StorageInv
<1>1. /\ price' = price
      /\ UNCHANGED <<troveVars, snapshotVars, activePool, defaultPool, collSurplusPool,
                     stabilityPool, balanceOf, liquidation>>
  BY DEF BeginRedemption
<1>2. StorageInv'
  BY <1>1 DEF Typed, TrovesTyped, SnapshotsTyped, PoolsTyped, SnapshotsBehind,
              troveVars, snapshotVars
<1>3. redemption' \in RedemptionType
  <2>1. PICK start \in RedemptionStarts :
          LET upwards == Reverse(SubSeq(sortedTroves, 1, start))
              visits  == IF n = 0 THEN start ELSE MinOf(n, start)
          IN  redemption' = [NoRedemption EXCEPT
                !.running = TRUE,
                !.todo = SubSeq(upwards, 1, visits),
                !.remainingDebtToken = amount]
    BY DEF BeginRedemption
  <2>2. start \in 1..Len(sortedTroves) /\ sortedTroves \in Seq(Users)
    BY DEF RedemptionStarts, Typed, TrovesTyped
  <2>. DEFINE taken   == SubSeq(sortedTroves, 1, start)
              upwards == Reverse(taken)
              visits  == IF n = 0 THEN start ELSE MinOf(n, start)
  <2>3. taken \in Seq(Users) /\ Len(taken) = start
    BY <2>2
  <2>4. upwards \in Seq(Users) /\ Len(upwards) = start
    BY <2>3, ReverseSeq
  <2>5. visits \in Nat /\ visits <= start
    BY <2>2 DEF MinOf
  <2>6. redemption' = [NoRedemption EXCEPT
          !.running = TRUE, !.todo = SubSeq(upwards, 1, visits), !.remainingDebtToken = amount]
    BY <2>1
  <2>. HIDE DEF taken, upwards, visits
  <2>7. SubSeq(upwards, 1, visits) \in Seq(Users)
    BY <2>2, <2>4, <2>5, SubSeqSeq
  <2>. QED
    BY <2>6, <2>7 DEF NoRedemption, RedemptionType
<1>4. saved' \in StorageType /\ SnapshotsBehind(saved'.rewardSnapshots, saved'.L)
  <2>1. saved' = Storage
    BY DEF BeginRedemption
  <2>2. Storage \in StorageType
    BY StorageTyped DEF Typed
  <2>3. Storage.rewardSnapshots = rewardSnapshots /\ Storage.L = L
    BY DEF Storage
  <2>. QED
    BY <2>1, <2>2, <2>3
<1>5. txs' \in 0..MaxTxs
  BY MaxTxsAssumption DEF LoopInv, BeginRedemption, StartTransaction
<1>. QED
  BY <1>1, <1>2, <1>3, <1>4, <1>5 DEF LoopInv

\* Nothing is saved between transactions: the deployed storage stands for that.
LEMMA DeployedType ==
    /\ Deployed \in StorageType
    /\ SnapshotsBehind(Deployed.rewardSnapshots, Deployed.L)
<1>1. [u \in Users |-> NoTrove] \in [Users -> TroveType]
  BY DEF NoTrove, TroveType, Status
<1>2. [u \in Users |-> NoSnapshot] \in [Users -> SnapshotType]
  BY DEF NoSnapshot, SnapshotType
<1>3. Deployed \in StorageType
  BY <1>1, <1>2 DEF Deployed, StorageType, EmptyPool, PoolType, TroveType, SnapshotType
<1>4. /\ Deployed.rewardSnapshots = [u \in Users |-> NoSnapshot]
      /\ Deployed.L.FIL = 0 /\ Deployed.L.debt = 0
  BY DEF Deployed
<1>. QED
  BY <1>3, <1>4 DEF SnapshotsBehind, NoSnapshot

\* No loop is running.
LEMMA NoLoopType ==
    /\ NoLiquidation \in LiquidationType
    /\ NoRedemption \in RedemptionType
  BY DEF NoLiquidation, LiquidationType, NoTotals, TotalsType, NoRedemption, RedemptionType

\* A revert restores a storage that was well typed.
LEMMA RevertType ==
    ASSUME StorageInv, LoopInv, Revert
    PROVE  price' = price /\ StorageInv' /\ LoopInv'
<1>1. LoopInv' /\ price' = price
  BY NoLoopType, DeployedType DEF Revert, LoopInv
<1>2. TrovesTyped'
  BY DEF Revert, LoopInv, StorageType, TrovesTyped, TroveType, SnapshotType
<1>3. SnapshotsTyped'
  BY DEF Revert, LoopInv, StorageType, SnapshotsTyped, LType
<1>4. PoolsTyped'
  BY DEF Revert, LoopInv, StorageType, PoolsTyped, SurplusType, DepositType
<1>5. SnapshotsBehind(rewardSnapshots', L')
  BY DEF Revert, LoopInv
<1>. QED
  BY <1>1, <1>2, <1>3, <1>4, <1>5 DEF StorageInv, Typed, SnapshotsBehind

-----------------------------------------------------------------------------
(* The steps of a liquidation.                                             *)

\* The values of a single liquidation are natural numbers: nothing is offset or paid that
\* the trove does not have.
LEMMA LiquidationValuesType ==
    ASSUME StorageInv, LoopInv, NEW u \in Users, LiquidationValues(u).collSurplus >= 0
    PROVE  LET v == LiquidationValues(u)
           IN  /\ v.entireTroveDebt \in Nat
               /\ v.entireTroveColl \in Nat
               /\ v.collGasCompensation \in Nat
               /\ v.debtToOffset \in Nat
               /\ v.collToSendToSP \in Nat
               /\ v.debtToRedistribute \in Nat
               /\ v.collToRedistribute \in Nat
               /\ v.collSurplus \in Nat
<1>. DEFINE debt == EntireDebt(u)
            coll == EntireColl(u)
<1>1. debt \in Nat /\ coll \in Nat
  BY PendingType DEF StorageInv
<1>2. price \in Nat \ {0}
  BY DEF StorageInv, Typed
<1>3. CASE getCurrentICR(u) >= MCR
  <2>. DEFINE capped == CappedCollPortion(u)
  <2>1. capped \in Nat
    BY <1>1, <1>2, RatioAssumption, DivNat, TimesNat DEF CappedCollPortion
  <2>2. CollGasCompensation(capped) \in Nat /\ CollGasCompensation(capped) <= capped
    BY <2>1, QuotientLeq, PrecisionAssumption DEF CollGasCompensation
  <2>3. LiquidationValues(u) = CappedLiquidation(u)
    BY <1>3 DEF LiquidationValues
  <2>4. coll - capped \in Int
    BY <1>1, <2>1
  <2>. HIDE DEF capped
  <2>5. CappedLiquidation(u) =
          [entireTroveDebt |-> debt, entireTroveColl |-> coll,
           collGasCompensation |-> CollGasCompensation(capped), debtToOffset |-> debt,
           collToSendToSP |-> capped - CollGasCompensation(capped),
           debtToRedistribute |-> 0, collToRedistribute |-> 0, collSurplus |-> coll - capped]
    BY DEF CappedLiquidation, capped
  <2>. HIDE DEF debt, coll
  <2>. QED
    BY <1>1, <2>1, <2>2, <2>3, <2>4, <2>5
<1>4. CASE ~(getCurrentICR(u) >= MCR)
  <2>. DEFINE inPool == IF liquidation.recovery /\ getCurrentICR(u) <= _100pct
                          THEN 0 ELSE liquidation.remainingDebtTokenInStabPool
              toLiquidate == CollToLiquidate(u)
              toOffset == MinOf(debt, inPool)
              toSP     == IF inPool > 0 THEN (toLiquidate * toOffset) \div debt ELSE 0
  <2>1. debt > 0
    BY <1>1, <1>4, RatioAssumption DEF getCurrentICR, ComputeCR
  <2>2. inPool \in Nat
    BY DEF LoopInv, LiquidationType
  <2>3. toOffset \in Nat /\ toOffset <= debt
    BY <1>1, <2>2 DEF MinOf
  <2>4. CollGasCompensation(coll) \in Nat /\ CollGasCompensation(coll) <= coll
    BY <1>1, QuotientLeq, PrecisionAssumption DEF CollGasCompensation
  <2>5. toLiquidate \in Nat
    BY <1>1, <2>4 DEF CollToLiquidate
  <2>6. LiquidationValues(u) =
          [entireTroveDebt |-> debt, entireTroveColl |-> coll,
           collGasCompensation |-> CollGasCompensation(coll),
           debtToOffset |-> toOffset, collToSendToSP |-> toSP,
           debtToRedistribute |-> debt - toOffset, collToRedistribute |-> toLiquidate - toSP,
           collSurplus |-> 0]
    BY <1>4 DEF LiquidationValues, FullLiquidation, OffsetAndRedistribution
  <2>. HIDE DEF inPool, toLiquidate, toOffset, debt, coll
  <2>7. toSP \in Nat /\ toSP <= toLiquidate
    BY <1>1, <2>1, <2>3, <2>5, ShareLeq
  <2>. HIDE DEF toSP
  <2>. QED
    BY <1>1, <2>3, <2>4, <2>5, <2>6, <2>7
<1>. QED
  BY <1>3, <1>4

\* One trove liquidated: the trackers and totals stay naturals.
LEMMA LiquidateTroveType ==
    ASSUME StorageInv, LoopInv, NEW u \in Users, LiquidateTrove(u)
    PROVE  price' = price /\ StorageInv' /\ LoopInv'
<1>. USE DEF StorageInv
<1>. DEFINE v       == LiquidationValues(u)
            pending == [FIL |-> getPendingFILReward(u), debt |-> getPendingDebtReward(u)]
            sysDebt == liquidation.entireSystemDebt - v.debtToOffset
            sysColl == liquidation.entireSystemColl - CollLeaving(v)
<1>1. price' = price /\ UNCHANGED <<snapshotVars, stabilityPool, balanceOf, saved, redemption, txs>>
  BY DEF LiquidateTrove, NotLiquidating
<1>2. /\ v.entireTroveDebt \in Nat /\ v.entireTroveColl \in Nat
      /\ v.collGasCompensation \in Nat /\ v.debtToOffset \in Nat
      /\ v.collToSendToSP \in Nat /\ v.debtToRedistribute \in Nat
      /\ v.collToRedistribute \in Nat /\ v.collSurplus \in Nat
  BY LiquidationValuesType DEF LiquidateTrove
<1>3. pending \in PoolType
  BY PendingType DEF PoolType
<1>4. TrovesTyped' /\ SnapshotsBehind(rewardSnapshots', L)
  BY CloseTroveType DEF LiquidateTrove, Status
<1>5. defaultPool' \in PoolType
  BY <1>3, MoveRewardsType DEF LiquidateTrove
<1>6. activePool' \in PoolType
  BY PendingType DEF LiquidateTrove, Typed, PoolsTyped, PoolType
<1>. HIDE DEF v
<1>7. collSurplusPool' \in SurplusType
  <2>1. collSurplusPool' = [collSurplusPool EXCEPT !.balances[u] = @ + v.collSurplus]
    BY DEF LiquidateTrove, AccountSurplus, v
  <2>. QED
    BY <1>2, <2>1 DEF Typed, PoolsTyped, SurplusType
<1>8. liquidation' \in LiquidationType
  <2>1. /\ liquidation.todo # <<>>
        /\ v.debtToOffset <= liquidation.remainingDebtTokenInStabPool
        /\ liquidation.recovery => sysDebt >= 0 /\ sysColl >= 0
        /\ liquidation' = [liquidation EXCEPT
             !.todo = Tail(@),
             !.remainingDebtTokenInStabPool = RemainingAfter(v),
             !.entireSystemDebt = IF liquidation.recovery THEN sysDebt ELSE @,
             !.entireSystemColl = IF liquidation.recovery THEN sysColl ELSE @,
             !.recovery = @ /\ ComputeCR(sysColl, sysDebt, price) < CCR,
             !.totals = AddLiquidationValuesToTotals(@, v)]
    BY DEF LiquidateTrove, v
  <2>2. Tail(liquidation.todo) \in Seq(Users)
    BY <2>1, TailSeq DEF LoopInv, LiquidationType
  <2>3. RemainingAfter(v) \in Nat
    BY <1>2, <2>1 DEF RemainingAfter, LoopInv, LiquidationType
  <2>4. /\ (IF liquidation.recovery THEN sysDebt ELSE liquidation.entireSystemDebt) \in Nat
        /\ (IF liquidation.recovery THEN sysColl ELSE liquidation.entireSystemColl) \in Nat
    <3>1. liquidation.entireSystemDebt \in Nat /\ liquidation.entireSystemColl \in Nat
      BY DEF LoopInv, LiquidationType
    <3>2. sysDebt \in Int /\ sysColl \in Int
      BY <1>2, <3>1 DEF CollLeaving
    <3>. HIDE DEF sysDebt, sysColl
    <3>. QED
      BY <2>1, <3>1, <3>2
  <2>5. AddLiquidationValuesToTotals(liquidation.totals, v) \in TotalsType
    <3>1. liquidation.totals \in TotalsType
      BY DEF LoopInv, LiquidationType
    <3>. QED
      BY <1>2, <3>1, DebtAssumption
         DEF AddLiquidationValuesToTotals, DebtGasCompensation, TotalsType
  <2>6. (liquidation.recovery /\ ComputeCR(sysColl, sysDebt, price) < CCR) \in BOOLEAN
    BY SMT
  <2>. HIDE DEF sysDebt, sysColl
  <2>. QED
    BY <2>1, <2>2, <2>3, <2>4, <2>5, <2>6 DEF LoopInv, LiquidationType
<1>. QED
  BY <1>1, <1>4, <1>5, <1>6, <1>7, <1>8
     DEF LoopInv, Typed, SnapshotsTyped, PoolsTyped, snapshotVars, SnapshotsBehind

\* A trove left alone only shortens what is still to be visited.
LEMMA SkipType ==
    ASSUME StorageInv, LoopInv, liquidation' \in LiquidationType,
           UNCHANGED <<price, redemption, txs, saved>>,
           UNCHANGED <<troveVars, snapshotVars, activePool, defaultPool, collSurplusPool,
                       stabilityPool, balanceOf>>
    PROVE  price' = price /\ StorageInv' /\ LoopInv'
  BY DEF StorageInv, LoopInv, Typed, TrovesTyped, SnapshotsTyped, PoolsTyped,
         SnapshotsBehind, troveVars, snapshotVars

\* A trove passed over.
LEMMA LeaveTroveType ==
    ASSUME StorageInv, LoopInv, NEW u \in Users, LeaveTrove(u)
    PROVE  price' = price /\ StorageInv' /\ LoopInv'
<1>1. /\ liquidation.todo # <<>>
      /\ liquidation' = [liquidation EXCEPT
           !.todo = Tail(@),
           !.recovery = @ /\ (Active(u) /\ ~Healthy(u) => TrackedTCR < CCR)]
  BY DEF LeaveTrove
<1>2. Tail(liquidation.todo) \in Seq(Users)
  BY <1>1, TailSeq DEF LoopInv, LiquidationType
<1>3. (liquidation.recovery /\ (Active(u) /\ ~Healthy(u) => TrackedTCR < CCR)) \in BOOLEAN
  OBVIOUS
<1>4. liquidation' \in LiquidationType
  <2>. DEFINE left == Tail(liquidation.todo)
              stillRecovery == liquidation.recovery
                                 /\ (Active(u) /\ ~Healthy(u) => TrackedTCR < CCR)
  <2>1. liquidation' = [liquidation EXCEPT !.todo = left, !.recovery = stillRecovery]
    BY <1>1
  <2>2. stillRecovery \in BOOLEAN
    BY <1>3
  <2>3. left \in Seq(Users)
    BY <1>2
  <2>. HIDE DEF left, stillRecovery
  <2>. QED
    BY <2>1, <2>2, <2>3 DEF LoopInv, LiquidationType
<1>. QED
  BY <1>4, SkipType DEF LeaveTrove, NotLiquidating

\* The sequence stops.
LEMMA StopSequenceType ==
    ASSUME StorageInv, LoopInv, NEW u \in Users, StopSequence(u)
    PROVE  price' = price /\ StorageInv' /\ LoopInv'
<1>. DEFINE none == <<>>
<1>1. liquidation' = [liquidation EXCEPT !.todo = none]
  BY DEF StopSequence
<1>2. none \in Seq(Users)
  OBVIOUS
<1>. HIDE DEF none
<1>3. liquidation' \in LiquidationType
  BY <1>1, <1>2 DEF LoopInv, LiquidationType
<1>. QED
  BY <1>3, SkipType DEF StopSequence, NotLiquidating

\* A redistribution only raises L.
LEMMA RedistributedType ==
    ASSUME StorageInv, NEW debt \in Nat, NEW coll \in Nat, totalStakes > 0
    PROVE  /\ RedistributedL(debt, coll) \in LType
           /\ L.FIL <= RedistributedL(debt, coll).FIL
           /\ L.debt <= RedistributedL(debt, coll).debt
<1>. DEFINE FILNumerator  == coll * DECIMAL_PRECISION + L.lastFILError
            debtNumerator == debt * DECIMAL_PRECISION + L.lastDebtError
<1>1. /\ L.FIL \in Nat /\ L.debt \in Nat /\ L.lastFILError \in Nat /\ L.lastDebtError \in Nat
      /\ totalStakes \in Nat \ {0}
  BY DEF StorageInv, Typed, TrovesTyped, SnapshotsTyped, LType
<1>2. FILNumerator \in Nat /\ debtNumerator \in Nat
  <2>1. coll * DECIMAL_PRECISION \in Nat /\ debt * DECIMAL_PRECISION \in Nat
    BY TimesNat, PrecisionAssumption
  <2>. QED
    BY <1>1, <2>1
<1>3. RedistributedL(debt, coll) =
        [FIL           |-> L.FIL + FILNumerator \div totalStakes,
         debt          |-> L.debt + debtNumerator \div totalStakes,
         lastFILError  |-> FILNumerator % totalStakes,
         lastDebtError |-> debtNumerator % totalStakes]
  BY DEF RedistributedL
<1>. HIDE DEF FILNumerator, debtNumerator
<1>4. /\ FILNumerator \div totalStakes \in Nat /\ debtNumerator \div totalStakes \in Nat
      /\ FILNumerator % totalStakes \in Nat /\ debtNumerator % totalStakes \in Nat
  BY <1>1, <1>2, DivNat
<1>. QED
  BY <1>1, <1>3, <1>4 DEF LType

\* The settlement takes from the pools no more than they hold.
LEMMA SettleLiquidationType ==
    ASSUME StorageInv, LoopInv, SettleLiquidation
    PROVE  price' = price /\ StorageInv' /\ LoopInv'
<1>. USE DEF StorageInv
<1>. DEFINE t      == liquidation.totals
            offset == IF t.totalDebtToOffset = 0 THEN 0 ELSE t.totalCollToSendToSP
            redist == IF t.totalDebtToRedistribute = 0 THEN 0 ELSE t.totalCollToRedistribute
            kept   == activePool.FIL - offset - redist - t.totalCollSurplus
<1>1. /\ t.totalDebtToOffset \in Nat /\ t.totalDebtToRedistribute \in Nat
      /\ t.totalCollToSendToSP \in Nat /\ t.totalCollToRedistribute \in Nat
      /\ t.totalCollSurplus \in Nat /\ t.totalCollGasCompensation \in Nat
      /\ t.totalDebtGasCompensation \in Nat
  BY DEF LoopInv, LiquidationType, TotalsType
<1>2. /\ price' = price /\ UNCHANGED <<troveVars, redemption, txs>>
      /\ liquidation' = NoLiquidation /\ saved' = Deployed
  BY DEF SettleLiquidation, NotLiquidating
<1>3. /\ t.totalDebtToRedistribute > 0 => totalStakes > 0
      /\ t.totalDebtToOffset + t.totalDebtToRedistribute <= activePool.debt
      /\ t.totalCollGasCompensation <= kept
      /\ t.totalDebtGasCompensation <= balanceOf["gasPool"]
      /\ t.totalDebtToOffset <= balanceOf["stabilityPool"]
  BY DEF SettleLiquidation
<1>4. activePool' \in PoolType
  <2>1. activePool' = [
          FIL  |-> kept - t.totalCollGasCompensation,
          debt |-> activePool.debt - t.totalDebtToOffset - t.totalDebtToRedistribute]
    BY DEF SettleLiquidation
  <2>2. kept \in Int
    BY <1>1 DEF Typed, PoolsTyped, PoolType
  <2>. HIDE DEF kept, t
  <2>. QED
    BY <1>1, <1>3, <2>1, <2>2 DEF Typed, PoolsTyped, PoolType
<1>5. defaultPool' \in PoolType
  <2>1. defaultPool' = [FIL  |-> defaultPool.FIL + redist,
                        debt |-> defaultPool.debt + t.totalDebtToRedistribute]
    BY DEF SettleLiquidation
  <2>2. redist \in Nat
    BY <1>1
  <2>. HIDE DEF redist, t
  <2>. QED
    BY <1>1, <2>1, <2>2 DEF Typed, PoolsTyped, PoolType
<1>6. collSurplusPool' \in SurplusType
  <2>1. collSurplusPool' = [collSurplusPool EXCEPT !.FIL = @ + t.totalCollSurplus]
    BY DEF SettleLiquidation
  <2>. HIDE DEF t
  <2>. QED
    BY <1>1, <2>1 DEF Typed, PoolsTyped, SurplusType
<1>7. stabilityPool' \in DepositType
  <2>1. Offset(t.totalDebtToOffset, t.totalCollToSendToSP)
    BY DEF SettleLiquidation
  <2>. HIDE DEF t
  <2>. QED
    BY <1>1, <2>1 DEF Offset, Typed, PoolsTyped, DepositType
<1>8. balanceOf' \in [Holders -> Nat]
  <2>. DEFINE reserves == t.totalDebtGasCompensation
              burned   == t.totalDebtToOffset
  <2>1. balanceOf' = [balanceOf EXCEPT
          !["users"] = @ + reserves,
          !["gasPool"] = @ - reserves,
          !["stabilityPool"] = @ - burned]
    BY DEF SettleLiquidation
  <2>2. /\ reserves \in Nat /\ burned \in Nat
        /\ reserves <= balanceOf["gasPool"] /\ burned <= balanceOf["stabilityPool"]
    BY <1>1, <1>3
  <2>. HIDE DEF reserves, burned
  <2>. QED
    BY <2>1, <2>2 DEF Typed, PoolsTyped, Holders
<1>9. L' \in LType /\ L.FIL <= L'.FIL /\ L.debt <= L'.debt
  <2>1. CASE t.totalDebtToRedistribute = 0
    BY <2>1 DEF SettleLiquidation, Typed, SnapshotsTyped, LType
  <2>2. CASE t.totalDebtToRedistribute # 0
    <3>1. L' = RedistributedL(t.totalDebtToRedistribute, t.totalCollToRedistribute)
      BY <2>2 DEF SettleLiquidation
    <3>2. totalStakes > 0
      BY <1>1, <1>3, <2>2
    <3>. HIDE DEF t
    <3>. QED
      BY <1>1, <3>1, <3>2, RedistributedType
  <2>. QED
    BY <2>1, <2>2
<1>10. totalStakesSnapshot' \in Nat /\ totalCollateralSnapshot' \in Nat
  <2>1. /\ totalStakesSnapshot' = totalStakes
        /\ totalCollateralSnapshot' =
             (kept - t.totalCollGasCompensation) + (defaultPool.FIL + redist)
    BY DEF SettleLiquidation, CollateralSnapshot
  <2>2. kept \in Int /\ redist \in Nat
    BY <1>1 DEF Typed, PoolsTyped, PoolType
  <2>3. defaultPool.FIL \in Nat /\ totalStakes \in Nat
    BY PoolFields DEF Typed, TrovesTyped
  <2>. HIDE DEF kept, redist, t
  <2>. QED
    BY <1>1, <1>3, <2>1, <2>2, <2>3
<1>11. TrovesTyped'
  BY <1>2 DEF Typed, TrovesTyped, troveVars
<1>12. SnapshotsBehind(rewardSnapshots', L')
  <2>. SUFFICES ASSUME NEW u \in Users
                PROVE  rewardSnapshots'[u].FIL <= L'.FIL /\ rewardSnapshots'[u].debt <= L'.debt
    BY DEF SnapshotsBehind
  <2>1. rewardSnapshots'[u] = rewardSnapshots[u] /\ rewardSnapshots[u] \in SnapshotType
    BY <1>2 DEF troveVars, Typed, TrovesTyped
  <2>2. rewardSnapshots[u].FIL <= L.FIL /\ rewardSnapshots[u].debt <= L.debt /\ L \in LType
    BY DEF SnapshotsBehind, Typed, SnapshotsTyped
  <2>. QED
    BY <1>9, <2>1, <2>2 DEF SnapshotType, LType
<1>13. LoopInv'
  BY <1>2, NoLoopType, DeployedType DEF LoopInv
<1>. QED
  BY <1>2, <1>4, <1>5, <1>6, <1>7, <1>8, <1>9, <1>10, <1>11, <1>12, <1>13
     DEF Typed, SnapshotsTyped, PoolsTyped, SnapshotsBehind

-----------------------------------------------------------------------------
(* The steps of a redemption.                                              *)

\* The lots a redemption takes from one trove, and what they leave of it.
LEMMA LotType ==
    ASSUME StorageInv, LoopInv, NEW u \in Users, Redeeming(u)
    PROVE  /\ RedeemedColl(u) \in Nat
           /\ RedeemedDebt(u) \in Nat
           /\ DebtLot(u) \in Nat
           /\ DebtLot(u) <= redemption.remainingDebtToken
           /\ DebtLot(u) <= RedeemedDebt(u) - GAS_COMPENSATION
           /\ FILLot(u) \in Nat
           /\ FILLot(u) <= RedeemedColl(u)
           /\ AppliedRewards(u).FIL \in Nat
           /\ AppliedRewards(u).debt \in Nat
<1>. USE DEF StorageInv
<1>1. AppliedRewards(u).FIL \in Nat /\ AppliedRewards(u).debt \in Nat
  BY AppliedType DEF PoolType
<1>2. RedeemedColl(u) \in Nat /\ RedeemedDebt(u) \in Nat
  BY <1>1, TroveFields DEF RedeemedColl, RedeemedDebt
<1>3. /\ GAS_COMPENSATION \in Nat
      /\ redemption.remainingDebtToken \in Nat
      /\ RedeemedDebt(u) >= GAS_COMPENSATION
      /\ FILLot(u) <= RedeemedColl(u)
  BY DebtAssumption DEF Redeeming, LoopInv, RedemptionType
<1>4. /\ DebtLot(u) \in Nat
      /\ DebtLot(u) <= redemption.remainingDebtToken
      /\ DebtLot(u) <= RedeemedDebt(u) - GAS_COMPENSATION
  BY <1>2, <1>3 DEF DebtLot, MinOf
<1>5. FILLot(u) \in Nat
  BY <1>4, DivNat, TimesNat, PrecisionAssumption DEF FILLot, Typed
<1>. QED
  BY <1>1, <1>2, <1>3, <1>4, <1>5

\* What every step that redeems from a trove leaves alone, and the default pool.
LEMMA RedeemingType ==
    ASSUME StorageInv, LoopInv, NEW u \in Users, Redeeming(u)
    PROVE  /\ price' = price
           /\ UNCHANGED <<snapshotVars, stabilityPool, saved, liquidation, txs>>
           /\ defaultPool' \in PoolType
           /\ Tail(redemption.todo) \in Seq(Users)
<1>1. /\ price' = price
      /\ UNCHANGED <<snapshotVars, stabilityPool, saved, liquidation, txs>>
  BY DEF Redeeming, NotRedeeming
<1>2. defaultPool' \in PoolType
  BY AppliedType, MoveRewardsType DEF Redeeming, StorageInv
<1>3. Tail(redemption.todo) \in Seq(Users)
  BY TailSeq DEF Redeeming, LoopInv, RedemptionType
<1>. QED
  BY <1>1, <1>2, <1>3

\* What is left to redeem, and what has been.
LEMMA RedeemedType ==
    ASSUME StorageInv, LoopInv, NEW u \in Users, Redeeming(u), Redeemed(u)
    PROVE  redemption' \in RedemptionType
<1>1. redemption' = [redemption EXCEPT
        !.todo = Tail(@),
        !.remainingDebtToken = @ - DebtLot(u),
        !.totalDebtTokenToRedeem = @ + DebtLot(u),
        !.totalFILDrawn = @ + FILLot(u)]
  BY DEF Redeemed
<1>. DEFINE left   == Tail(redemption.todo)
            remain == redemption.remainingDebtToken - DebtLot(u)
            debt   == redemption.totalDebtTokenToRedeem + DebtLot(u)
            drawn  == redemption.totalFILDrawn + FILLot(u)
<1>2. redemption \in RedemptionType
  BY DEF LoopInv
<1>3. left \in Seq(Users)
  BY RedeemingType
<1>4. remain \in Nat /\ debt \in Nat /\ drawn \in Nat
  BY <1>2, LotType DEF RedemptionType
<1>5. redemption' = [redemption EXCEPT !.todo = left, !.remainingDebtToken = remain,
                       !.totalDebtTokenToRedeem = debt, !.totalFILDrawn = drawn]
  BY <1>1
<1>. HIDE DEF left, remain, debt, drawn
<1>. QED
  BY <1>2, <1>3, <1>4, <1>5 DEF RedemptionType

\* A trove redeemed down to its reserve.
LEMMA RedeemAndCloseType ==
    ASSUME StorageInv, LoopInv, NEW u \in Users, RedeemAndClose(u)
    PROVE  price' = price /\ StorageInv' /\ LoopInv'
<1>. DEFINE surplus == RedeemedColl(u) - FILLot(u)
            FIL     == activePool.FIL + AppliedRewards(u).FIL
            debt    == activePool.debt + AppliedRewards(u).debt
<1>1. Redeeming(u) /\ Redeemed(u)
  BY DEF RedeemAndClose
<1>2. TrovesTyped' /\ SnapshotsBehind(rewardSnapshots', L)
  BY CloseTroveType DEF RedeemAndClose, Status, StorageInv
<1>3. surplus \in Nat /\ FIL \in Nat /\ debt \in Nat
  BY <1>1, LotType DEF StorageInv, Typed, PoolsTyped, PoolType
<1>4. /\ surplus <= FIL /\ GAS_COMPENSATION <= debt
      /\ GAS_COMPENSATION <= balanceOf["gasPool"]
      /\ activePool' = [FIL |-> FIL - surplus, debt |-> debt - GAS_COMPENSATION]
      /\ collSurplusPool' = [AccountSurplus(u, surplus) EXCEPT !.FIL = @ + surplus]
      /\ balanceOf' = [balanceOf EXCEPT !["gasPool"] = @ - GAS_COMPENSATION]
  BY DEF RedeemAndClose
<1>. HIDE DEF surplus, FIL, debt
<1>5. activePool' \in PoolType
  BY <1>3, <1>4, DebtAssumption DEF PoolType
<1>6. collSurplusPool' \in SurplusType
  <2>1. collSurplusPool \in SurplusType
    BY DEF StorageInv, Typed, PoolsTyped
  <2>2. AccountSurplus(u, surplus) \in SurplusType
    BY <1>3, <2>1 DEF AccountSurplus, SurplusType
  <2>. QED
    BY <1>3, <1>4, <2>2 DEF SurplusType
<1>7. balanceOf' \in [Holders -> Nat]
  BY <1>4, DebtAssumption DEF StorageInv, Typed, PoolsTyped, Holders
<1>. QED
  BY <1>1, <1>2, <1>5, <1>6, <1>7, RedeemingType, RedeemedType
     DEF StorageInv, LoopInv, Typed, SnapshotsTyped, PoolsTyped, SnapshotsBehind, snapshotVars

\* A trove redeemed in part.
LEMMA RedeemPartiallyType ==
    ASSUME StorageInv, LoopInv, NEW u \in Users, RedeemPartially(u)
    PROVE  price' = price /\ StorageInv' /\ LoopInv'
<1>. DEFINE newColl == RedeemedColl(u) - FILLot(u)
            newDebt == RedeemedDebt(u) - DebtLot(u)
<1>1. /\ Redeeming(u) /\ Redeemed(u)
      /\ UpdateTrove(u, newColl, newDebt, AppliedSnapshot(u))
      /\ activePool' = [FIL  |-> activePool.FIL + AppliedRewards(u).FIL,
                        debt |-> activePool.debt + AppliedRewards(u).debt]
      /\ UNCHANGED <<collSurplusPool, balanceOf>>
  BY DEF RedeemPartially
<1>2. newColl \in Nat /\ newDebt \in Nat
  BY <1>1, LotType, DebtAssumption
<1>. HIDE DEF newColl, newDebt
<1>3. TrovesTyped' /\ SnapshotsBehind(rewardSnapshots', L)
  BY <1>1, <1>2, UpdateTroveType, AppliedType DEF StorageInv
<1>4. activePool' \in PoolType
  BY <1>1, LotType DEF StorageInv, Typed, PoolsTyped, PoolType
<1>. QED
  BY <1>1, <1>3, <1>4, RedeemingType, RedeemedType
     DEF StorageInv, LoopInv, Typed, SnapshotsTyped, PoolsTyped, SnapshotsBehind, snapshotVars

\* A partial redemption given up.
LEMMA CancelPartialType ==
    ASSUME StorageInv, LoopInv, NEW u \in Users, CancelPartial(u)
    PROVE  price' = price /\ StorageInv' /\ LoopInv'
<1>. DEFINE none == <<>>
<1>1. /\ Redeeming(u)
      /\ Troves' = [Troves EXCEPT ![u].coll = RedeemedColl(u), ![u].debt = RedeemedDebt(u)]
      /\ rewardSnapshots' = [rewardSnapshots EXCEPT ![u] = AppliedSnapshot(u)]
      /\ activePool' = [FIL  |-> activePool.FIL + AppliedRewards(u).FIL,
                        debt |-> activePool.debt + AppliedRewards(u).debt]
      /\ redemption' = [redemption EXCEPT !.todo = none]
      /\ UNCHANGED <<TroveOwners, sortedTroves, totalStakes, collSurplusPool, balanceOf>>
  BY DEF CancelPartial
<1>2. none \in Seq(Users)
  OBVIOUS
<1>. HIDE DEF none
<1>3. TrovesTyped'
  BY <1>1, LotType, AppliedType DEF StorageInv, Typed, TrovesTyped, TroveType
<1>4. SnapshotsBehind(rewardSnapshots', L)
  BY <1>1, AppliedType DEF StorageInv, Typed, TrovesTyped, SnapshotsBehind
<1>5. activePool' \in PoolType
  BY <1>1, LotType DEF StorageInv, Typed, PoolsTyped, PoolType
<1>6. redemption' \in RedemptionType
  BY <1>1, <1>2 DEF LoopInv, RedemptionType
<1>. QED
  BY <1>1, <1>3, <1>4, <1>5, <1>6, RedeemingType
     DEF StorageInv, LoopInv, Typed, SnapshotsTyped, PoolsTyped, SnapshotsBehind, snapshotVars

\* The settlement of a redemption.
LEMMA SettleRedemptionType ==
    ASSUME StorageInv, LoopInv, SettleRedemption
    PROVE  price' = price /\ StorageInv' /\ LoopInv'
<1>1. /\ price' = price
      /\ UNCHANGED <<troveVars, snapshotVars, defaultPool, collSurplusPool, stabilityPool,
                     liquidation, txs>>
      /\ redemption' = NoRedemption /\ saved' = Deployed
  BY DEF SettleRedemption, NotRedeeming
<1>. DEFINE redeemed == redemption.totalDebtTokenToRedeem
            drawn    == redemption.totalFILDrawn
<1>2. redeemed \in Nat /\ drawn \in Nat
  BY DEF LoopInv, RedemptionType
<1>3. /\ redeemed <= balanceOf["users"] /\ redeemed <= activePool.debt
      /\ drawn <= activePool.FIL
      /\ balanceOf' = [balanceOf EXCEPT !["users"] = @ - redeemed]
      /\ activePool' = [FIL |-> activePool.FIL - drawn, debt |-> activePool.debt - redeemed]
  BY DEF SettleRedemption
<1>. HIDE DEF redeemed, drawn
<1>4. balanceOf' \in [Holders -> Nat]
  BY <1>2, <1>3, PoolFields DEF StorageInv, Holders
<1>5. activePool' \in PoolType
  BY <1>2, <1>3, PoolFields DEF StorageInv, PoolType
<1>. QED
  BY <1>1, <1>4, <1>5, NoLoopType, DeployedType
     DEF StorageInv, LoopInv, Typed, TrovesTyped, SnapshotsTyped, PoolsTyped, SnapshotsBehind,
         troveVars, snapshotVars

-----------------------------------------------------------------------------
(* Every step preserves the types.                                         *)

\* Any transaction of a borrower.
LEMMA BorrowerStepType ==
    ASSUME StorageInv, LoopInv, BorrowerStep
    PROVE  price' = price /\ StorageInv' /\ LoopInv'
<1>. USE InputAssumption
<1>1. ASSUME NEW u \in Users, NEW coll \in OpenColls, NEW debt \in OpenDebts,
             OpenTrove(u, coll, debt)
      PROVE  price' = price /\ StorageInv' /\ LoopInv'
  BY <1>1, FeeType, OpenTroveType DEF OpenTrove
<1>2. ASSUME NEW u \in Users, NEW in \in Nat, NEW out \in Nat, NEW debt \in Nat,
             NEW more \in BOOLEAN, AdjustTrove(u, in, out, debt, more), UNCHANGED stabilityPool
      PROVE  price' = price /\ StorageInv' /\ LoopInv'
  <2>1. stabilityPool' \in DepositType
    BY <1>2 DEF StorageInv, Typed, PoolsTyped
  <2>2. PICK rate \in RatesCharged(more) :
          AdjustTroveAtFee(u, in, out, debt, more, BorrowingFee(rate, debt))
    BY <1>2 DEF AdjustTrove
  <2>3. BorrowingFee(rate, debt) \in Nat
    BY FeeType
  <2>. QED
    BY <2>1, <2>2, <2>3, AdjustTroveType
<1>3. ASSUME NEW u \in Users, NEW coll \in CollChanges, AddColl(u, coll) \/ WithdrawColl(u, coll)
      PROVE  price' = price /\ StorageInv' /\ LoopInv'
  BY <1>2, <1>3 DEF AddColl, WithdrawColl
<1>4. ASSUME NEW u \in Users, NEW debt \in DebtChanges,
             WithdrawDebtToken(u, debt) \/ RepayDebtToken(u, debt)
      PROVE  price' = price /\ StorageInv' /\ LoopInv'
  BY <1>2, <1>4 DEF WithdrawDebtToken, RepayDebtToken
<1>5. ASSUME NEW u \in Users, NEW coll \in CollChanges, NEW debt \in DebtChanges,
             NEW up \in BOOLEAN, NEW more \in BOOLEAN, AdjustCollAndDebt(u, coll, debt, up, more)
      PROVE  price' = price /\ StorageInv' /\ LoopInv'
  BY <1>2, <1>5 DEF AdjustCollAndDebt
<1>6. ASSUME NEW u \in Users, WithdrawFILGainToTrove(u, stabilityPool.FIL)
      PROVE  price' = price /\ StorageInv' /\ LoopInv'
  <2>1. stabilityPool.FIL \in Nat /\ stabilityPool' \in DepositType
    BY <1>6 DEF WithdrawFILGainToTrove, StorageInv, Typed, PoolsTyped, DepositType
  <2>2. PICK rate \in RatesCharged(FALSE) :
          AdjustTroveAtFee(u, stabilityPool.FIL, 0, 0, FALSE, BorrowingFee(rate, 0))
    BY <1>6 DEF WithdrawFILGainToTrove, AdjustTrove
  <2>3. BorrowingFee(rate, 0) \in Nat
    BY FeeType
  <2>. QED
    BY <2>1, <2>2, <2>3, AdjustTroveType
<1>. QED
  BY <1>1, <1>3, <1>4, <1>5, <1>6, CloseTroveTypes, ClaimCollateralType DEF BorrowerStep

\* Any transaction of a depositor.
LEMMA DepositorStepType ==
    ASSUME StorageInv, LoopInv, DepositorStep
    PROVE  price' = price /\ StorageInv' /\ LoopInv'
<1>1. \A gain \in FILGains : gain \in Nat
  BY DEF FILGains, StorageInv, Typed, PoolsTyped, DepositType
<1>2. \A amount \in Deposits \cup {0} : amount \in Nat
  BY InputAssumption
<1>. QED
  BY <1>1, <1>2, ProvideToSPType, WithdrawFromSPType DEF DepositorStep

\* Any step of a loop.
LEMMA LoopStepType ==
    ASSUME StorageInv, LoopInv, LoopStep
    PROVE  price' = price /\ StorageInv' /\ LoopInv'
<1>1. CASE LiquidationStep
  BY <1>1, LiquidateTroveType, LeaveTroveType, StopSequenceType, SettleLiquidationType
     DEF LiquidationStep
<1>2. CASE RedemptionStep
  BY <1>2, RedeemAndCloseType, RedeemPartiallyType, CancelPartialType, SettleRedemptionType
     DEF RedemptionStep
<1>. QED
  BY <1>1, <1>2 DEF LoopStep

\* The deployed storage is well typed.
LEMMA InitTypeInv == Init => TypeInv
<1>. SUFFICES ASSUME Init PROVE TypeInv
  OBVIOUS
<1>1. Storage = Deployed /\ saved = Deployed
  BY DEF Init, Storage, Deployed
<1>2. rewardSnapshots = Deployed.rewardSnapshots /\ L = Deployed.L
  BY DEF Init
<1>. QED
  BY <1>1, <1>2, DeployedType, NoLoopType, MaxTxsAssumption DEF TypeInv, TypeOK, Init

\* TypeInv is inductive: one case per disjunct of Next.
LEMMA NextTypeInv == TypeInv /\ [Next]_vars => TypeInv'
<1>. SUFFICES ASSUME price \in Prices, StorageInv, LoopInv, [Next]_vars
              PROVE  price' \in Prices /\ StorageInv' /\ LoopInv'
  <2>1. TypeInv' <=> (price \in Prices /\ StorageInv /\ LoopInv)'
    BY TypeInvParts, PTL
  <2>. QED
    BY <2>1, TypeInvParts
<1>1. ASSUME NEW p \in Prices, SetPrice(p)
      PROVE  price' \in Prices /\ StorageInv' /\ LoopInv'
  BY <1>1, SetPriceType
<1>2. CASE BorrowerStep
  BY <1>2, BorrowerStepType
<1>3. CASE DepositorStep
  BY <1>3, DepositorStepType
<1>4. CASE ClaimStakingGains
  BY <1>4, ClaimStakingGainsType
<1>5. ASSUME NEW n \in SequenceLengths, BeginSequence(n)
      PROVE  price' \in Prices /\ StorageInv' /\ LoopInv'
  BY <1>5, BeginSequenceType, InputAssumption
<1>6. ASSUME NEW troveArray \in TroveArrays, BeginBatch(troveArray)
      PROVE  price' \in Prices /\ StorageInv' /\ LoopInv'
  BY <1>6, BeginLiquidationType, InputAssumption DEF BeginBatch
<1>7. ASSUME NEW amount \in RedeemAmounts, NEW n \in Iterations, BeginRedemption(amount, n)
      PROVE  price' \in Prices /\ StorageInv' /\ LoopInv'
  BY <1>7, BeginRedemptionType, InputAssumption
<1>8. CASE LoopStep
  BY <1>8, LoopStepType
<1>9. CASE Revert
  BY <1>9, RevertType
<1>10. CASE UNCHANGED vars
  BY <1>10 DEF vars, troveVars, snapshotVars, loopVars, StorageInv, LoopInv, Typed,
              TrovesTyped, SnapshotsTyped, PoolsTyped, SnapshotsBehind
<1>. QED
  BY <1>1, <1>2, <1>3, <1>4, <1>5, <1>6, <1>7, <1>8, <1>9, <1>10 DEF Next

\* The inductive invariant, for every value of the constants.
THEOREM TypeInvariance == Spec => []TypeInv
  BY InitTypeInv, NextTypeInv, PTL DEF Spec

\* Every amount the contracts store is a natural number in every reachable state, for all
\* inputs: the requires of the modelled code leave no subtraction that could wrap.
THEOREM TypeCorrect == Spec => []TypeOK
<1>1. TypeInv => TypeOK
  BY DEF TypeInv
<1>. QED
  BY <1>1, TypeInvariance, PTL

-----------------------------------------------------------------------------
(* The debt token, the deposits and the owners array: the invariant.       *)

Supply(balances) ==
    balances["users"] + balances["gasPool"] + balances["stabilityPool"]
      + balances["protocolTokenStaking"]

\* DebtBacked and DepositsBacked of a storage with these balances and pools.
Backed(balances, active, default, stability) ==
    /\ Supply(balances) = active.debt + default.debt
    /\ stability.deposits = balances["stabilityPool"]

BackedNow   == Backed(balanceOf, activePool, defaultPool, stabilityPool)
BackedSaved ==
    Backed(saved.balanceOf, saved.activePool, saved.defaultPool, saved.stabilityPool)

OwnersKept == ~Idle => Len(TroveOwners) <= Len(saved.TroveOwners)

OneLoop == ~(liquidation.running /\ redemption.running)

DebtInv == BackedNow /\ BackedSaved /\ OwnersKept /\ OneLoop

\* What the inductive invariant is for.
LEMMA DebtInvImplies == DebtInv => DebtBacked /\ DepositsBacked
  BY DEF DebtInv, BackedNow, Backed, Supply, DebtBacked, DepositsBacked, getEntireSystemDebt

\* The amounts of a well-typed storage.
LEMMA AmountTypes ==
    ASSUME StorageInv
    PROVE  /\ activePool \in PoolType /\ activePool.debt \in Nat
           /\ defaultPool \in PoolType /\ defaultPool.debt \in Nat
           /\ stabilityPool \in DepositType /\ stabilityPool.deposits \in Nat
           /\ balanceOf \in [Holders -> Nat]
           /\ balanceOf["users"] \in Nat /\ balanceOf["gasPool"] \in Nat
           /\ balanceOf["stabilityPool"] \in Nat
           /\ balanceOf["protocolTokenStaking"] \in Nat
  BY DEF StorageInv, Typed, PoolsTyped, PoolType, DepositType, Holders

\* A step that moves no debt token and changes no debt.
LEMMA SameDebt ==
    ASSUME BackedNow, UNCHANGED balanceOf,
           activePool'.debt + defaultPool'.debt = activePool.debt + defaultPool.debt,
           stabilityPool'.deposits = stabilityPool.deposits
    PROVE  BackedNow'
  BY DEF BackedNow, Backed

\* Pending rewards that move between the pools leave their debt what it was.
LEMMA RewardsMove ==
    ASSUME StorageInv, NEW r \in PoolType, MovePendingTroveRewardsToActivePool(r)
    PROVE  defaultPool'.debt = defaultPool.debt - r.debt
  BY AmountTypes DEF MovePendingTroveRewardsToActivePool

\* openTrove mints what it adds to the debt of the active pool.
LEMMA OpenTroveBacked ==
    ASSUME StorageInv, BackedNow, NEW u \in Users, NEW coll \in Nat, NEW amount \in Nat,
           NEW fee \in Nat, OpenTroveAtFee(u, coll, amount, fee)
    PROVE  BackedNow'
<1>1. /\ balanceOf' = [balanceOf EXCEPT
           !["users"] = @ + amount,
           !["gasPool"] = @ + GAS_COMPENSATION,
           !["protocolTokenStaking"] = @ + fee]
      /\ activePool'.debt = activePool.debt + CompositeDebt(amount + fee)
      /\ UNCHANGED <<defaultPool, stabilityPool>>
  BY DEF OpenTroveAtFee
<1>2. /\ balanceOf'["users"] = balanceOf["users"] + amount
      /\ balanceOf'["gasPool"] = balanceOf["gasPool"] + GAS_COMPENSATION
      /\ balanceOf'["stabilityPool"] = balanceOf["stabilityPool"]
      /\ balanceOf'["protocolTokenStaking"] = balanceOf["protocolTokenStaking"] + fee
  BY <1>1, AmountTypes DEF Holders
<1>. QED
  <2>1. Supply(balanceOf') = Supply(balanceOf) + CompositeDebt(amount + fee)
    BY <1>2, AmountTypes, DebtAssumption DEF Supply, CompositeDebt
  <2>2. CompositeDebt(amount + fee) \in Nat /\ Supply(balanceOf) \in Nat
    BY AmountTypes, DebtAssumption DEF CompositeDebt, Supply
  <2>. QED
    BY <1>1, <1>2, <2>1, <2>2, AmountTypes DEF BackedNow, Backed

\* _adjustTrove mints or burns what it adds to or takes from that debt, the fee included.
LEMMA AdjustTroveBacked ==
    ASSUME StorageInv, BackedNow, stabilityPool'.deposits = stabilityPool.deposits,
           NEW u \in Users, NEW collReceived \in Nat, NEW collWithdrawal \in Nat,
           NEW debtChange \in Nat, NEW isDebtIncrease \in BOOLEAN, NEW fee \in Nat,
           isDebtIncrease \/ fee = 0,
           AdjustTroveAtFee(u, collReceived, collWithdrawal, debtChange, isDebtIncrease, fee)
    PROVE  BackedNow'
<1>. DEFINE pending == AppliedRewards(u).debt
            debt    == Troves[u].debt + pending
            newDebt == IF isDebtIncrease THEN debt + debtChange + fee ELSE debt - debtChange
            paid    == IF isDebtIncrease THEN balanceOf["users"] + debtChange
                                         ELSE balanceOf["users"] - debtChange
<1>1. pending \in Nat /\ debt \in Nat
  BY AppliedType DEF PoolType, StorageInv, Typed, TrovesTyped, TroveType
<1>2. /\ balanceOf' = [balanceOf EXCEPT
           !["users"] = paid, !["protocolTokenStaking"] = @ + fee]
      /\ activePool'.debt = (activePool.debt + pending + newDebt) - debt
  BY DEF AdjustTroveAtFee
<1>3. defaultPool'.debt = defaultPool.debt - pending
  BY AppliedType, RewardsMove DEF AdjustTroveAtFee, StorageInv
<1>4. /\ balanceOf'["users"] = paid
      /\ balanceOf'["gasPool"] = balanceOf["gasPool"]
      /\ balanceOf'["stabilityPool"] = balanceOf["stabilityPool"]
      /\ balanceOf'["protocolTokenStaking"] = balanceOf["protocolTokenStaking"] + fee
  BY <1>2, AmountTypes DEF Holders
<1>5. stabilityPool'.deposits = balanceOf'["stabilityPool"]
  BY <1>4 DEF BackedNow, Backed
<1>6. Supply(balanceOf') = activePool'.debt + defaultPool'.debt
  <2>1. CASE isDebtIncrease
    <3>1. paid = balanceOf["users"] + debtChange /\ newDebt = debt + debtChange + fee
      BY <2>1
    <3>. HIDE DEF debt, pending, newDebt, paid
    <3>. QED
      BY <1>1, <1>2, <1>3, <1>4, <3>1, AmountTypes DEF BackedNow, Backed, Supply
  <2>2. CASE ~isDebtIncrease
    <3>1. paid = balanceOf["users"] - debtChange /\ newDebt = debt - debtChange /\ fee = 0
      BY <2>2
    <3>. HIDE DEF debt, pending, newDebt, paid
    <3>. QED
      BY <1>1, <1>2, <1>3, <1>4, <3>1, AmountTypes DEF BackedNow, Backed, Supply
  <2>. QED
    BY <2>1, <2>2
<1>. QED
  BY <1>5, <1>6 DEF BackedNow, Backed

\* closeTrove burns the net debt and the reserve.
LEMMA CloseTroveBacked ==
    ASSUME StorageInv, BackedNow, NEW u \in Users, CloseTrove(u)
    PROVE  BackedNow'
<1>. DEFINE pending == AppliedRewards(u).debt
            debt    == Troves[u].debt + pending
<1>1. pending \in Nat /\ debt \in Nat
  BY AppliedType DEF PoolType, StorageInv, Typed, TrovesTyped, TroveType
<1>2. /\ balanceOf' = [balanceOf EXCEPT
           !["users"] = @ - NetDebt(debt), !["gasPool"] = @ - GAS_COMPENSATION]
      /\ activePool'.debt = (activePool.debt + pending) - debt
      /\ UNCHANGED stabilityPool
  BY DEF CloseTrove
<1>3. defaultPool'.debt = defaultPool.debt - pending
  BY AppliedType, RewardsMove DEF CloseTrove, StorageInv
<1>. HIDE DEF debt, pending
<1>4. /\ balanceOf'["users"] = balanceOf["users"] - NetDebt(debt)
      /\ balanceOf'["gasPool"] = balanceOf["gasPool"] - GAS_COMPENSATION
      /\ balanceOf'["stabilityPool"] = balanceOf["stabilityPool"]
      /\ balanceOf'["protocolTokenStaking"] = balanceOf["protocolTokenStaking"]
  BY <1>2, AmountTypes DEF Holders
<1>. QED
  BY <1>1, <1>2, <1>3, <1>4, AmountTypes, DebtAssumption DEF BackedNow, Backed, Supply, NetDebt

\* Deposits, withdrawals and claims move debt token between two holders.
LEMMA TransferBacked ==
    ASSUME StorageInv, BackedNow, UNCHANGED <<activePool, defaultPool>>,
           \/ \E amount \in Nat, gain \in Nat : ProvideToSP(amount, gain)
           \/ \E amount \in Nat, gain \in Nat : WithdrawFromSP(amount, gain)
           \/ ClaimStakingGains
    PROVE  BackedNow'
<1>1. ASSUME NEW amount \in Nat, NEW gain \in Nat, ProvideToSP(amount, gain)
      PROVE  BackedNow'
  <2>1. /\ balanceOf'["users"] = balanceOf["users"] - amount
        /\ balanceOf'["gasPool"] = balanceOf["gasPool"]
        /\ balanceOf'["stabilityPool"] = balanceOf["stabilityPool"] + amount
        /\ balanceOf'["protocolTokenStaking"] = balanceOf["protocolTokenStaking"]
        /\ stabilityPool'.deposits = stabilityPool.deposits + amount
    BY <1>1, AmountTypes DEF ProvideToSP, Holders
  <2>. QED
    BY <2>1, AmountTypes DEF BackedNow, Backed, Supply
<1>2. ASSUME NEW amount \in Nat, NEW gain \in Nat, WithdrawFromSP(amount, gain)
      PROVE  BackedNow'
  <2>1. /\ balanceOf'["users"] = balanceOf["users"] + amount
        /\ balanceOf'["gasPool"] = balanceOf["gasPool"]
        /\ balanceOf'["stabilityPool"] = balanceOf["stabilityPool"] - amount
        /\ balanceOf'["protocolTokenStaking"] = balanceOf["protocolTokenStaking"]
        /\ stabilityPool'.deposits = stabilityPool.deposits - amount
    BY <1>2, AmountTypes DEF WithdrawFromSP, Holders
  <2>. QED
    BY <2>1, AmountTypes DEF BackedNow, Backed, Supply
<1>3. CASE ClaimStakingGains
  <2>1. /\ balanceOf'["users"] = balanceOf["users"] + balanceOf["protocolTokenStaking"]
        /\ balanceOf'["gasPool"] = balanceOf["gasPool"]
        /\ balanceOf'["stabilityPool"] = balanceOf["stabilityPool"]
        /\ balanceOf'["protocolTokenStaking"] = 0
        /\ UNCHANGED stabilityPool
    BY <1>3, AmountTypes DEF ClaimStakingGains, Holders
  <2>. QED
    BY <2>1, AmountTypes DEF BackedNow, Backed, Supply
<1>. QED
  BY <1>1, <1>2, <1>3

-----------------------------------------------------------------------------
(* The loops.                                                              *)

\* Liquidating a trove moves its pending debt between the pools.
LEMMA LiquidateTroveBacked ==
    ASSUME StorageInv, BackedNow, NEW u \in Users, LiquidateTrove(u)
    PROVE  BackedNow'
<1>. DEFINE pending == [FIL |-> getPendingFILReward(u), debt |-> getPendingDebtReward(u)]
<1>1. pending \in PoolType
  BY PendingType DEF PoolType, StorageInv
<1>2. defaultPool'.debt = defaultPool.debt - getPendingDebtReward(u)
  BY <1>1, RewardsMove DEF LiquidateTrove
<1>3. /\ activePool'.debt = activePool.debt + getPendingDebtReward(u)
      /\ UNCHANGED <<stabilityPool, balanceOf>>
  BY DEF LiquidateTrove
<1>4. getPendingDebtReward(u) \in Nat
  BY PendingType DEF StorageInv
<1>. QED
  BY <1>2, <1>3, <1>4, AmountTypes, SameDebt

\* The settlement burns what it offsets and moves the reserves to the liquidator.
LEMMA SettleLiquidationBacked ==
    ASSUME StorageInv, LoopInv, BackedNow, SettleLiquidation
    PROVE  BackedNow'
<1>. DEFINE offset   == liquidation.totals.totalDebtToOffset
            redist   == liquidation.totals.totalDebtToRedistribute
            reserves == liquidation.totals.totalDebtGasCompensation
<1>1. offset \in Nat /\ redist \in Nat /\ reserves \in Nat
  BY DEF LoopInv, LiquidationType, TotalsType
<1>2. /\ balanceOf' = [balanceOf EXCEPT
           !["users"] = @ + reserves,
           !["gasPool"] = @ - reserves,
           !["stabilityPool"] = @ - offset]
      /\ activePool'.debt = activePool.debt - offset - redist
      /\ defaultPool'.debt = defaultPool.debt + redist
  BY DEF SettleLiquidation
<1>3. stabilityPool'.deposits = stabilityPool.deposits - offset
  BY <1>1, AmountTypes DEF SettleLiquidation, Offset
<1>. HIDE DEF offset, redist, reserves
<1>4. /\ balanceOf'["users"] = balanceOf["users"] + reserves
      /\ balanceOf'["gasPool"] = balanceOf["gasPool"] - reserves
      /\ balanceOf'["stabilityPool"] = balanceOf["stabilityPool"] - offset
      /\ balanceOf'["protocolTokenStaking"] = balanceOf["protocolTokenStaking"]
  BY <1>2, AmountTypes DEF Holders
<1>5. Supply(balanceOf') = Supply(balanceOf) - offset
  BY <1>1, <1>4, AmountTypes DEF Supply
<1>6. activePool'.debt + defaultPool'.debt = activePool.debt + defaultPool.debt - offset
  BY <1>1, <1>2, AmountTypes
<1>7. Supply(balanceOf) = activePool.debt + defaultPool.debt
      /\ stabilityPool.deposits = balanceOf["stabilityPool"]
  BY DEF BackedNow, Backed
<1>8. stabilityPool'.deposits = balanceOf'["stabilityPool"]
  BY <1>3, <1>4, <1>7
<1>9. Supply(balanceOf') = activePool'.debt + defaultPool'.debt
  BY <1>1, <1>5, <1>6, <1>7, AmountTypes
<1>. QED
  BY <1>8, <1>9 DEF BackedNow, Backed

\* What redeeming from a trove moves out of the default pool.
LEMMA RedeemingMoves ==
    ASSUME StorageInv, NEW u \in Users, Redeeming(u)
    PROVE  /\ AppliedRewards(u).debt \in Nat
           /\ defaultPool'.debt = defaultPool.debt - AppliedRewards(u).debt
           /\ UNCHANGED stabilityPool
  BY AppliedType, RewardsMove DEF Redeeming, StorageInv, PoolType

\* Closing a redeemed trove burns its reserve; a partial redemption burns nothing yet.
LEMMA RedeemStepBacked ==
    ASSUME StorageInv, BackedNow, NEW u \in Users,
           RedeemAndClose(u) \/ RedeemPartially(u) \/ CancelPartial(u)
    PROVE  BackedNow'
<1>1. Redeeming(u)
  BY DEF RedeemAndClose, RedeemPartially, CancelPartial
<1>2. CASE RedeemAndClose(u)
  <2>1. /\ balanceOf' = [balanceOf EXCEPT !["gasPool"] = @ - GAS_COMPENSATION]
        /\ activePool'.debt = (activePool.debt + AppliedRewards(u).debt) - GAS_COMPENSATION
    BY <1>2 DEF RedeemAndClose
  <2>2. /\ balanceOf'["users"] = balanceOf["users"]
        /\ balanceOf'["gasPool"] = balanceOf["gasPool"] - GAS_COMPENSATION
        /\ balanceOf'["stabilityPool"] = balanceOf["stabilityPool"]
        /\ balanceOf'["protocolTokenStaking"] = balanceOf["protocolTokenStaking"]
    BY <2>1, AmountTypes DEF Holders
  <2>. QED
    BY <1>1, <2>1, <2>2, RedeemingMoves, AmountTypes, DebtAssumption
       DEF BackedNow, Backed, Supply
<1>3. CASE RedeemPartially(u) \/ CancelPartial(u)
  <2>1. /\ activePool'.debt = activePool.debt + AppliedRewards(u).debt
        /\ UNCHANGED balanceOf
    BY <1>3 DEF RedeemPartially, CancelPartial
  <2>2. activePool'.debt + defaultPool'.debt = activePool.debt + defaultPool.debt
    BY <1>1, <2>1, RedeemingMoves, AmountTypes
  <2>. QED
    BY <1>1, <2>1, <2>2, RedeemingMoves, SameDebt
<1>. QED
  BY <1>2, <1>3

\* The settlement burns what was redeemed.
LEMMA SettleRedemptionBacked ==
    ASSUME StorageInv, LoopInv, BackedNow, SettleRedemption
    PROVE  BackedNow'
<1>. DEFINE redeemed == redemption.totalDebtTokenToRedeem
<1>1. redeemed \in Nat
  BY DEF LoopInv, RedemptionType
<1>2. /\ balanceOf' = [balanceOf EXCEPT !["users"] = @ - redeemed]
      /\ activePool'.debt = activePool.debt - redeemed
      /\ UNCHANGED <<defaultPool, stabilityPool>>
  BY DEF SettleRedemption
<1>. HIDE DEF redeemed
<1>3. /\ balanceOf'["users"] = balanceOf["users"] - redeemed
      /\ balanceOf'["gasPool"] = balanceOf["gasPool"]
      /\ balanceOf'["stabilityPool"] = balanceOf["stabilityPool"]
      /\ balanceOf'["protocolTokenStaking"] = balanceOf["protocolTokenStaking"]
  BY <1>2, AmountTypes DEF Holders
<1>. QED
  BY <1>1, <1>2, <1>3, AmountTypes DEF BackedNow, Backed, Supply

-----------------------------------------------------------------------------
(* The owners array.                                                       *)

\* A transaction of one step ends where it began: between two loops.
LEMMA StartsIdle ==
    ASSUME StartTransaction, UNCHANGED loopVars
    PROVE  Idle /\ Idle'
  BY DEF StartTransaction, loopVars, Idle

\* No step but a revert takes the array from one owner or more to none, and within a
\* loop no step lengthens it.
LEMMA CloseKeepsOwner ==
    ASSUME StorageInv, NEW u \in Users, NEW status \in Status,
           RemoveStakeAndCloseTrove(u, status)
    PROVE  /\ Len(TroveOwners') \in Nat /\ Len(TroveOwners) \in Nat
           /\ Len(TroveOwners') < Len(TroveOwners)
           /\ Len(TroveOwners') > 0
           /\ TroveOwners' # <<>>
<1>1. /\ TroveOwners \in Seq(Users) /\ TroveOwners' \in Seq(Users)
      /\ Len(TroveOwners) > 1 /\ Len(TroveOwners') = Len(TroveOwners) - 1
  BY CloseTroveType DEF StorageInv, Typed, TrovesTyped
<1>2. Len(TroveOwners) \in Nat /\ Len(TroveOwners') \in Nat /\ Len(TroveOwners') > 0
  BY <1>1
<1>3. TroveOwners' # <<>>
  BY <1>2
<1>. QED
  BY <1>1, <1>2, <1>3

-----------------------------------------------------------------------------
(* DebtInv is inductive.                                                   *)

\* The deployed storage holds no debt.
LEMMA InitDebtInv == Init => DebtInv
<1>. SUFFICES ASSUME Init PROVE DebtInv
  OBVIOUS
<1>1. Backed(Deployed.balanceOf, Deployed.activePool, Deployed.defaultPool,
             Deployed.stabilityPool)
  BY DEF Deployed, Backed, Supply, Holders, EmptyPool
<1>2. Idle
  BY DEF Init, Idle, NoLiquidation, NoRedemption
<1>. QED
  BY <1>1, <1>2 DEF Init, DebtInv, BackedNow, BackedSaved, OwnersKept, OneLoop, Idle

\* A transaction of one step that keeps an owner keeps the rest of DebtInv.
LEMMA OneStepDebtInv ==
    ASSUME DebtInv, StartTransaction, UNCHANGED loopVars, BackedNow'
    PROVE  DebtInv'
<1>1. Idle'
  BY StartsIdle
<1>. QED
  BY <1>1 DEF DebtInv, BackedSaved, OwnersKept, OneLoop, Idle, loopVars

KeepsOwner == TroveOwners # <<>> => TroveOwners' # <<>>

\* Opening a trove.
LEMMA OpenTroveDebtInv ==
    ASSUME StorageInv, DebtInv, NEW u \in Users, NEW coll \in Nat, NEW amount \in Nat,
           NEW fee \in Nat, OpenTroveAtFee(u, coll, amount, fee)
    PROVE  DebtInv' /\ KeepsOwner
<1>1. BackedNow'
  BY OpenTroveBacked DEF DebtInv
<1>2. TroveOwners' = Append(TroveOwners, u) /\ TroveOwners \in Seq(Users)
  BY DEF OpenTroveAtFee, StorageInv, Typed, TrovesTyped
<1>3. TroveOwners' # <<>>
  BY <1>2
<1>. QED
  BY <1>1, <1>3, OneStepDebtInv DEF OpenTroveAtFee, KeepsOwner

\* Adjusting a trove, whatever the rate: no fee is charged on a repayment.
LEMMA AdjustTroveDebtInv ==
    ASSUME StorageInv, DebtInv, stabilityPool'.deposits = stabilityPool.deposits,
           NEW u \in Users, NEW collReceived \in Nat, NEW collWithdrawal \in Nat,
           NEW debtChange \in Nat, NEW isDebtIncrease \in BOOLEAN,
           AdjustTrove(u, collReceived, collWithdrawal, debtChange, isDebtIncrease)
    PROVE  DebtInv' /\ KeepsOwner
<1>1. PICK rate \in RatesCharged(isDebtIncrease) :
        AdjustTroveAtFee(u, collReceived, collWithdrawal, debtChange, isDebtIncrease,
                         BorrowingFee(rate, debtChange))
  BY DEF AdjustTrove
<1>2. isDebtIncrease \/ BorrowingFee(rate, debtChange) = 0
  <2>1. CASE ~isDebtIncrease
    <3>1. rate = 0
      BY <2>1 DEF RatesCharged
    <3>. QED
      BY <3>1, PrecisionAssumption DEF BorrowingFee
  <2>. QED
    BY <2>1
<1>3. BackedNow'
  BY <1>1, <1>2, FeeType, AdjustTroveBacked DEF DebtInv
<1>4. TroveOwners' = TroveOwners
  BY <1>1, Zenon DEF AdjustTroveAtFee, UpdateTrove
<1>5. StartTransaction /\ UNCHANGED loopVars
  BY <1>1 DEF AdjustTroveAtFee
<1>. QED
  BY <1>3, <1>4, <1>5, OneStepDebtInv DEF KeepsOwner

\* Any transaction of a borrower.
LEMMA BorrowerStepDebtInv ==
    ASSUME StorageInv, DebtInv, BorrowerStep
    PROVE  DebtInv' /\ KeepsOwner
<1>. USE InputAssumption
<1>1. ASSUME NEW u \in Users, NEW coll \in OpenColls, NEW debt \in OpenDebts,
             OpenTrove(u, coll, debt)
      PROVE  DebtInv' /\ KeepsOwner
  BY <1>1, FeeType, OpenTroveDebtInv DEF OpenTrove
<1>2. ASSUME NEW u \in Users, NEW coll \in CollChanges, AddColl(u, coll) \/ WithdrawColl(u, coll)
      PROVE  DebtInv' /\ KeepsOwner
  BY <1>2, AdjustTroveDebtInv DEF AddColl, WithdrawColl
<1>3. ASSUME NEW u \in Users, NEW debt \in DebtChanges,
             WithdrawDebtToken(u, debt) \/ RepayDebtToken(u, debt)
      PROVE  DebtInv' /\ KeepsOwner
  BY <1>3, AdjustTroveDebtInv DEF WithdrawDebtToken, RepayDebtToken
<1>4. ASSUME NEW u \in Users, NEW coll \in CollChanges, NEW debt \in DebtChanges,
             NEW up \in BOOLEAN, NEW more \in BOOLEAN, AdjustCollAndDebt(u, coll, debt, up, more)
      PROVE  DebtInv' /\ KeepsOwner
  BY <1>4, AdjustTroveDebtInv DEF AdjustCollAndDebt
<1>5. ASSUME NEW u \in Users, WithdrawFILGainToTrove(u, stabilityPool.FIL)
      PROVE  DebtInv' /\ KeepsOwner
  <2>1. /\ stabilityPool.FIL \in Nat
        /\ stabilityPool'.deposits = stabilityPool.deposits
    BY <1>5, AmountTypes DEF WithdrawFILGainToTrove, DepositType
  <2>2. AdjustTrove(u, stabilityPool.FIL, 0, 0, FALSE)
    BY <1>5 DEF WithdrawFILGainToTrove
  <2>. QED
    BY <2>1, <2>2, AdjustTroveDebtInv
<1>6. ASSUME NEW u \in Users, CloseTrove(u)
      PROVE  DebtInv' /\ KeepsOwner
  <2>1. BackedNow'
    BY <1>6, CloseTroveBacked DEF DebtInv
  <2>2. TroveOwners' # <<>>
    BY <1>6, CloseKeepsOwner DEF CloseTrove, Status
  <2>. QED
    BY <1>6, <2>1, <2>2, OneStepDebtInv DEF CloseTrove, KeepsOwner
<1>7. ASSUME NEW u \in Users, ClaimCollateral(u)
      PROVE  DebtInv' /\ KeepsOwner
  <2>1. BackedNow'
    BY <1>7 DEF ClaimCollateral, DebtInv, BackedNow, Backed
  <2>. QED
    BY <1>7, <2>1, OneStepDebtInv DEF ClaimCollateral, troveVars, KeepsOwner
<1>. QED
  BY <1>1, <1>2, <1>3, <1>4, <1>5, <1>6, <1>7 DEF BorrowerStep

\* Deposits, withdrawals and claims.
LEMMA TransferDebtInv ==
    ASSUME StorageInv, DebtInv, DepositorStep \/ ClaimStakingGains
    PROVE  DebtInv' /\ KeepsOwner
<1>1. /\ \A gain \in FILGains : gain \in Nat
      /\ \A amount \in Deposits \cup {0} : amount \in Nat
  BY InputAssumption, AmountTypes DEF FILGains, DepositType
<1>2. /\ StartTransaction /\ UNCHANGED loopVars
      /\ UNCHANGED <<activePool, defaultPool>> /\ UNCHANGED TroveOwners
  BY DEF DepositorStep, ProvideToSP, WithdrawFromSP, ClaimStakingGains, troveVars
<1>3. \/ \E amount \in Nat, gain \in Nat : ProvideToSP(amount, gain)
      \/ \E amount \in Nat, gain \in Nat : WithdrawFromSP(amount, gain)
      \/ ClaimStakingGains
  BY <1>1 DEF DepositorStep
<1>4. BackedNow'
  BY <1>2, <1>3, TransferBacked DEF DebtInv
<1>. QED
  BY <1>2, <1>4, OneStepDebtInv DEF KeepsOwner

\* The transaction that starts a loop saves the storage.
LEMMA BeginDebtInv ==
    ASSUME DebtInv, OneLoop', saved' = Storage, TroveOwners \in Seq(Users),
           UNCHANGED <<TroveOwners, activePool, defaultPool, stabilityPool, balanceOf>>
    PROVE  DebtInv' /\ KeepsOwner
<1>1. /\ saved'.balanceOf = balanceOf /\ saved'.activePool = activePool
      /\ saved'.defaultPool = defaultPool /\ saved'.stabilityPool = stabilityPool
      /\ saved'.TroveOwners = TroveOwners
  BY DEF Storage
<1>2. Len(TroveOwners') = Len(saved'.TroveOwners) /\ Len(TroveOwners') \in Nat
  BY <1>1
<1>. QED
  BY <1>1, <1>2 DEF DebtInv, BackedNow, BackedSaved, OwnersKept, KeepsOwner

\* An iteration keeps what is saved and closes at most one trove.
LEMMA IterationDebtInv ==
    ASSUME StorageInv, LoopInv, DebtInv, BackedNow', OneLoop', UNCHANGED saved, ~Idle,
           \/ UNCHANGED TroveOwners
           \/ \E u \in Users, status \in Status : RemoveStakeAndCloseTrove(u, status)
    PROVE  DebtInv' /\ KeepsOwner
<1>1. /\ Len(TroveOwners) \in Nat /\ Len(saved.TroveOwners) \in Nat
      /\ Len(TroveOwners) <= Len(saved.TroveOwners)
  BY DEF StorageInv, Typed, TrovesTyped, LoopInv, StorageType, DebtInv, OwnersKept
<1>2. CASE UNCHANGED TroveOwners
  BY <1>1, <1>2 DEF DebtInv, BackedSaved, OwnersKept, KeepsOwner
<1>3. ASSUME NEW u \in Users, NEW status \in Status, RemoveStakeAndCloseTrove(u, status)
      PROVE  DebtInv' /\ KeepsOwner
  <2>1. /\ Len(TroveOwners') \in Nat /\ Len(TroveOwners') < Len(TroveOwners)
        /\ TroveOwners' # <<>>
    BY <1>3, CloseKeepsOwner
  <2>2. Len(TroveOwners') <= Len(saved'.TroveOwners)
    BY <1>1, <2>1
  <2>. QED
    BY <2>1, <2>2 DEF DebtInv, BackedSaved, OwnersKept, KeepsOwner
<1>. QED
  BY <1>2, <1>3

\* Nothing is saved, and no loop runs, once a transaction is over.
LEMMA EndDebtInv ==
    ASSUME BackedNow', saved' = Deployed, liquidation'.running = FALSE,
           redemption'.running = FALSE
    PROVE  DebtInv'
<1>1. Backed(Deployed.balanceOf, Deployed.activePool, Deployed.defaultPool,
             Deployed.stabilityPool)
  BY DEF Deployed, Backed, Supply, Holders, EmptyPool
<1>2. Idle'
  BY DEF Idle
<1>. QED
  BY <1>1, <1>2 DEF DebtInv, BackedSaved, OwnersKept, OneLoop, Idle

\* Any step of a liquidation.
LEMMA LiquidationStepDebtInv ==
    ASSUME StorageInv, LoopInv, DebtInv, LiquidationStep
    PROVE  DebtInv' /\ KeepsOwner
<1>1. liquidation.running /\ ~redemption.running /\ ~Idle /\ UNCHANGED redemption
  BY DEF LiquidationStep, LiquidateTrove, LeaveTrove, StopSequence, SettleLiquidation,
         NotLiquidating, DebtInv, OneLoop, Idle
<1>2. OneLoop'
  BY <1>1 DEF OneLoop
<1>3. ASSUME NEW u \in Users, LiquidateTrove(u)
      PROVE  DebtInv' /\ KeepsOwner
  <2>1. BackedNow'
    BY <1>3, LiquidateTroveBacked DEF DebtInv
  <2>2. UNCHANGED saved
    BY <1>3 DEF LiquidateTrove
  <2>3. RemoveStakeAndCloseTrove(u, "closedByLiquidation") /\ "closedByLiquidation" \in Status
    BY <1>3 DEF LiquidateTrove, Status
  <2>. QED
    BY <1>1, <1>2, <2>1, <2>2, <2>3, IterationDebtInv
<1>4. ASSUME NEW u \in Users, LeaveTrove(u) \/ StopSequence(u)
      PROVE  DebtInv' /\ KeepsOwner
  <2>1. /\ UNCHANGED <<saved, TroveOwners>>
        /\ UNCHANGED <<activePool, defaultPool, stabilityPool, balanceOf>>
    BY <1>4 DEF LeaveTrove, StopSequence, troveVars
  <2>2. BackedNow'
    BY <2>1 DEF DebtInv, BackedNow, Backed
  <2>. QED
    BY <1>1, <1>2, <2>1, <2>2, IterationDebtInv
<1>5. CASE SettleLiquidation
  <2>1. BackedNow'
    BY <1>5, SettleLiquidationBacked DEF DebtInv
  <2>2. /\ saved' = Deployed /\ liquidation'.running = FALSE
        /\ UNCHANGED TroveOwners
    BY <1>5 DEF SettleLiquidation, NoLiquidation, troveVars
  <2>3. redemption'.running = FALSE
    BY <1>1 DEF LoopInv, RedemptionType
  <2>. QED
    BY <2>1, <2>2, <2>3, EndDebtInv DEF KeepsOwner
<1>. QED
  BY <1>3, <1>4, <1>5 DEF LiquidationStep

\* Any step of a redemption.
LEMMA RedemptionStepDebtInv ==
    ASSUME StorageInv, LoopInv, DebtInv, RedemptionStep
    PROVE  DebtInv' /\ KeepsOwner
<1>1. redemption.running /\ ~liquidation.running /\ ~Idle /\ UNCHANGED liquidation
  BY DEF RedemptionStep, RedeemAndClose, RedeemPartially, CancelPartial, Redeeming,
         SettleRedemption, NotRedeeming, DebtInv, OneLoop, Idle
<1>2. OneLoop'
  BY <1>1 DEF OneLoop
<1>3. ASSUME NEW u \in Users, RedeemAndClose(u) \/ RedeemPartially(u) \/ CancelPartial(u)
      PROVE  DebtInv' /\ KeepsOwner
  <2>1. BackedNow'
    BY <1>3, RedeemStepBacked DEF DebtInv
  <2>2. UNCHANGED saved
    BY <1>3 DEF RedeemAndClose, RedeemPartially, CancelPartial, Redeeming
  <2>3. \/ UNCHANGED TroveOwners
        \/ RemoveStakeAndCloseTrove(u, "closedByRedemption") /\ "closedByRedemption" \in Status
    BY <1>3, Zenon DEF RedeemAndClose, RedeemPartially, UpdateTrove, CancelPartial, Status
  <2>. QED
    BY <1>1, <1>2, <2>1, <2>2, <2>3, IterationDebtInv
<1>4. CASE SettleRedemption
  <2>1. BackedNow'
    BY <1>4, SettleRedemptionBacked DEF DebtInv
  <2>2. /\ saved' = Deployed /\ redemption'.running = FALSE
        /\ UNCHANGED TroveOwners
    BY <1>4 DEF SettleRedemption, NoRedemption, troveVars
  <2>3. liquidation'.running = FALSE
    BY <1>1 DEF LoopInv, LiquidationType
  <2>. QED
    BY <2>1, <2>2, <2>3, EndDebtInv DEF KeepsOwner
<1>. QED
  BY <1>3, <1>4 DEF RedemptionStep

\* A revert goes back to a storage that was backed, with at least as many owners.
LEMMA RevertDebtInv ==
    ASSUME StorageInv, LoopInv, DebtInv, Revert
    PROVE  DebtInv' /\ KeepsOwner
<1>1. BackedNow'
  BY DEF Revert, DebtInv, BackedSaved, BackedNow
<1>2. DebtInv'
  BY <1>1, EndDebtInv DEF Revert, NoLiquidation, NoRedemption
<1>3. KeepsOwner
  <2>1. /\ TroveOwners \in Seq(Users) /\ saved.TroveOwners \in Seq(Users)
        /\ Len(TroveOwners) <= Len(saved.TroveOwners)
        /\ TroveOwners' = saved.TroveOwners
    BY DEF Revert, StorageInv, Typed, TrovesTyped, LoopInv, StorageType, DebtInv, OwnersKept
  <2>2. TroveOwners # <<>> => Len(TroveOwners) > 0
    BY <2>1
  <2>3. Len(saved.TroveOwners) > 0 => saved.TroveOwners # <<>>
    BY <2>1
  <2>. QED
    BY <2>1, <2>2, <2>3 DEF KeepsOwner
<1>. QED
  BY <1>2, <1>3

\* DebtInv is inductive, given the types: one case per disjunct of Next.
LEMMA NextDebtInv == TypeInv /\ DebtInv /\ [Next]_vars => DebtInv' /\ KeepsOwner
<1>. SUFFICES ASSUME StorageInv, LoopInv, DebtInv, [Next]_vars
              PROVE  DebtInv' /\ KeepsOwner
  BY TypeInvParts
<1>1. ASSUME NEW p \in Prices, SetPrice(p)
      PROVE  DebtInv' /\ KeepsOwner
  <2>1. BackedNow'
    BY <1>1 DEF SetPrice, DebtInv, BackedNow, Backed
  <2>. QED
    BY <1>1, <2>1, OneStepDebtInv DEF SetPrice, troveVars, KeepsOwner
<1>2. CASE BorrowerStep
  BY <1>2, BorrowerStepDebtInv
<1>3. CASE DepositorStep \/ ClaimStakingGains
  BY <1>3, TransferDebtInv
<1>4. ASSUME NEW troves, NEW isBatch, BeginLiquidation(troves, isBatch)
      PROVE  DebtInv' /\ KeepsOwner
  <2>1. OneLoop'
    BY <1>4 DEF BeginLiquidation, StartTransaction, Idle, OneLoop
  <2>. QED
    BY <1>4, <2>1, BeginDebtInv DEF BeginLiquidation, troveVars, StorageInv, Typed, TrovesTyped
<1>5. ASSUME NEW amount \in RedeemAmounts, NEW n \in Iterations, BeginRedemption(amount, n)
      PROVE  DebtInv' /\ KeepsOwner
  <2>1. OneLoop'
    BY <1>5 DEF BeginRedemption, StartTransaction, Idle, OneLoop
  <2>. QED
    BY <1>5, <2>1, BeginDebtInv DEF BeginRedemption, troveVars, StorageInv, Typed, TrovesTyped
<1>6. ASSUME NEW n \in SequenceLengths, BeginSequence(n)
      PROVE  DebtInv' /\ KeepsOwner
  BY <1>4, <1>6 DEF BeginSequence
<1>7. ASSUME NEW troveArray \in TroveArrays, BeginBatch(troveArray)
      PROVE  DebtInv' /\ KeepsOwner
  BY <1>4, <1>7 DEF BeginBatch
<1>8. CASE LoopStep
  BY <1>8, LiquidationStepDebtInv, RedemptionStepDebtInv DEF LoopStep
<1>9. CASE Revert
  BY <1>9, RevertDebtInv
<1>10. CASE UNCHANGED vars
  BY <1>10 DEF vars, troveVars, loopVars, DebtInv, BackedNow, BackedSaved, Backed, OwnersKept,
              OneLoop, Idle, KeepsOwner
<1>. QED
  BY <1>1, <1>2, <1>3, <1>5, <1>6, <1>7, <1>8, <1>9, <1>10 DEF Next

-----------------------------------------------------------------------------

\* The inductive invariant, for every value of the constants.
THEOREM DebtInvariance == Spec => [](TypeInv /\ DebtInv)
<1>1. Init => TypeInv /\ DebtInv
  BY InitTypeInv, InitDebtInv
<1>2. TypeInv /\ DebtInv /\ [Next]_vars => (TypeInv /\ DebtInv)'
  BY NextTypeInv, NextDebtInv
<1>. QED
  BY <1>1, <1>2, PTL DEF Spec

\* The debt token in circulation is at all times the debt the active and default pools
\* record, through every mint, burn, offset, redistribution, redemption and revert.
THEOREM DebtIsBacked == Spec => []DebtBacked
  BY DebtInvImplies, DebtInvariance, PTL

\* The stability pool holds the tokens of the deposits it has recorded.
THEOREM DepositsAreBacked == Spec => []DepositsBacked
  BY DebtInvImplies, DebtInvariance, PTL

\* No step closes the last trove, whichever of the three ways of closing one is taken:
\* redistributed debt always has a bearer.
THEOREM LastTroveIsKept == Spec => LastTroveStays
<1>1. TypeInv /\ DebtInv /\ [Next]_vars => [TroveOwners # <<>> => TroveOwners' # <<>>]_vars
  BY NextDebtInv DEF KeepsOwner
<1>. QED
  BY <1>1, DebtInvariance, PTL DEF Spec, LastTroveStays

-----------------------------------------------------------------------------
(* The registers of troves.                                                *)

IsActive(troves, u) == troves[u].status = "active"

\* The list names the users of S, each once.
Lists(list, S) ==
    /\ list \in Seq(Users)
    /\ \A i \in 1..Len(list) : list[i] \in S
    /\ \A u \in S : \E i \in 1..Len(list) : list[i] = u
    /\ \A i, j \in 1..Len(list) : list[i] = list[j] => i = j

\* The array and the back pointers lead to each other.
Indexed(owners, troves) ==
    /\ owners \in Seq(Users)
    /\ \A i \in 1..Len(owners) :
         IsActive(troves, owners[i]) /\ troves[owners[i]].arrayIndex = i - 1
    /\ \A u \in Users : IsActive(troves, u) =>
         /\ troves[u].arrayIndex + 1 \in 1..Len(owners)
         /\ owners[troves[u].arrayIndex + 1] = u

ActiveIn(troves) == {u \in Users : IsActive(troves, u)}

Registered(owners, list, troves) == Indexed(owners, troves) /\ Lists(list, ActiveIn(troves))

-----------------------------------------------------------------------------
(* Sequences.                                                              *)

\* What is in the list after an insertion.
LEMMA InsertAtElements ==
    ASSUME NEW s \in Seq(Users), NEW e \in Users, NEW i \in 1..(Len(s) + 1)
    PROVE  /\ InsertAt(s, i, e) \in Seq(Users)
           /\ Len(InsertAt(s, i, e)) = Len(s) + 1
           /\ \A k \in 1..(Len(s) + 1) :
                InsertAt(s, i, e)[k] = IF k < i THEN s[k] ELSE IF k = i THEN e ELSE s[k - 1]
<1>. DEFINE a == SubSeq(s, 1, i - 1)
            b == SubSeq(s, i, Len(s))
<1>1. /\ a \in Seq(Users) /\ Len(a) = i - 1
      /\ \A k \in 1..(i - 1) : a[k] = s[k]
  OBVIOUS
<1>2. /\ b \in Seq(Users) /\ Len(b) = Len(s) - (i - 1)
      /\ \A k \in 1..(Len(s) - (i - 1)) : b[k] = s[k + (i - 1)]
  OBVIOUS
<1>3. InsertAt(s, i, e) = a \o <<e>> \o b
  BY DEF InsertAt
<1>. HIDE DEF a, b
<1>4. /\ a \o <<e>> \in Seq(Users) /\ Len(a \o <<e>>) = i
      /\ \A k \in 1..i : (a \o <<e>>)[k] = IF k < i THEN s[k] ELSE e
  BY <1>1
<1>. DEFINE c == a \o <<e>>
<1>. HIDE DEF c
<1>5. /\ c \in Seq(Users) /\ Len(c) = i
      /\ \A k \in 1..i : c[k] = IF k < i THEN s[k] ELSE e
  BY <1>4 DEF c
<1>6. /\ c \o b \in Seq(Users) /\ Len(c \o b) = Len(c) + Len(b)
      /\ \A k \in 1..(Len(c) + Len(b)) :
           (c \o b)[k] = IF k <= Len(c) THEN c[k] ELSE b[k - Len(c)]
  BY <1>2, <1>5, ConcatProperties
<1>7. Len(c) + Len(b) = Len(s) + 1
  BY <1>2, <1>5
<1>8. ASSUME NEW k \in 1..(Len(s) + 1)
      PROVE  (c \o b)[k] = IF k < i THEN s[k] ELSE IF k = i THEN e ELSE s[k - 1]
  <2>. k <= i \/ k > i
    OBVIOUS
  <2>1. CASE k <= i
    BY <1>5, <1>6, <1>7, <2>1
  <2>2. CASE k > i
    <3>1. (c \o b)[k] = b[k - i]
      BY <1>5, <1>6, <1>7, <2>2
    <3>2. k - i \in 1..(Len(s) - (i - 1)) /\ (k - i) + (i - 1) = k - 1
      BY <2>2
    <3>3. b[k - i] = s[k - 1]
      BY <1>2, <3>2
    <3>. QED  BY <2>2, <3>1, <3>3
  <2>. QED  BY <2>1, <2>2, Zenon
<1>. QED  BY <1>3, <1>6, <1>7, <1>8 DEF c

\* What is in it after a removal.
LEMMA RemoveAtElements ==
    ASSUME NEW s \in Seq(Users), NEW i \in 1..Len(s)
    PROVE  /\ RemoveAt(s, i) \in Seq(Users)
           /\ Len(RemoveAt(s, i)) = Len(s) - 1
           /\ \A k \in 1..(Len(s) - 1) : RemoveAt(s, i)[k] = IF k < i THEN s[k] ELSE s[k + 1]
<1>. DEFINE a == SubSeq(s, 1, i - 1)
            b == SubSeq(s, i + 1, Len(s))
<1>1. /\ a \in Seq(Users) /\ Len(a) = i - 1
      /\ \A k \in 1..(i - 1) : a[k] = s[k]
  OBVIOUS
<1>2. /\ b \in Seq(Users) /\ Len(b) = Len(s) - i
      /\ \A k \in 1..(Len(s) - i) : b[k] = s[k + i]
  OBVIOUS
<1>3. RemoveAt(s, i) = a \o b
  BY DEF RemoveAt
<1>. HIDE DEF a, b
<1>4. /\ a \o b \in Seq(Users) /\ Len(a \o b) = Len(a) + Len(b)
      /\ \A k \in 1..(Len(a) + Len(b)) :
           (a \o b)[k] = IF k <= Len(a) THEN a[k] ELSE b[k - Len(a)]
  BY <1>1, <1>2, ConcatProperties
<1>5. Len(a) + Len(b) = Len(s) - 1
  BY <1>1, <1>2
<1>6. ASSUME NEW k \in 1..(Len(s) - 1)
      PROVE  (a \o b)[k] = IF k < i THEN s[k] ELSE s[k + 1]
  <2>. k < i \/ k >= i
    OBVIOUS
  <2>1. CASE k < i
    BY <1>1, <1>4, <1>5, <2>1
  <2>2. CASE k >= i
    <3>1. (a \o b)[k] = b[k - (i - 1)]
      BY <1>1, <1>4, <1>5, <2>2
    <3>2. k - (i - 1) \in 1..(Len(s) - i) /\ (k - (i - 1)) + i = k + 1
      BY <2>2
    <3>3. b[k - (i - 1)] = s[k + 1]
      BY <1>2, <3>2
    <3>. QED  BY <2>2, <3>1, <3>3
  <2>. QED  BY <2>1, <2>2, Zenon
<1>. QED  BY <1>3, <1>4, <1>5, <1>6

\* Inserting a user that is not in the list.
LEMMA InsertLists ==
    ASSUME NEW s, NEW S, Lists(s, S), NEW u \in Users, u \notin S, NEW i \in 1..(Len(s) + 1)
    PROVE  Lists(InsertAt(s, i, u), S \cup {u})
<1>. DEFINE t == InsertAt(s, i, u)
<1>1. s \in Seq(Users) /\ Len(s) \in Nat
  BY DEF Lists
<1>2. /\ t \in Seq(Users) /\ Len(t) = Len(s) + 1
      /\ \A k \in 1..(Len(s) + 1) : t[k] = IF k < i THEN s[k] ELSE IF k = i THEN u ELSE s[k - 1]
  BY <1>1, InsertAtElements
<1>. HIDE DEF t
<1>3. ASSUME NEW k \in 1..Len(t) PROVE t[k] \in S \cup {u}
  BY <1>1, <1>2 DEF Lists
<1>4. ASSUME NEW v \in S \cup {u} PROVE \E k \in 1..Len(t) : t[k] = v
  <2>1. CASE v = u
    <3>1. i \in 1..Len(t) /\ t[i] = u
      BY <1>1, <1>2
    <3>. QED  BY <2>1, <3>1
  <2>2. CASE v # u
    <3>1. PICK j \in 1..Len(s) : s[j] = v
      BY <2>2 DEF Lists
    <3>2. CASE j < i
      <4>1. j \in 1..Len(t) /\ t[j] = s[j]
        BY <1>1, <1>2, <3>1, <3>2
      <4>. QED  BY <3>1, <4>1
    <3>3. CASE ~(j < i)
      <4>1. j + 1 \in 1..Len(t) /\ ~(j + 1 < i) /\ j + 1 # i /\ (j + 1) - 1 = j
        BY <1>1, <1>2, <3>1, <3>3
      <4>2. t[j + 1] = s[j]
        BY <1>2, <4>1
      <4>. QED  BY <3>1, <4>1, <4>2
    <3>. QED  BY <3>2, <3>3
  <2>. QED  BY <2>1, <2>2
<1>5. ASSUME NEW k \in 1..Len(t), NEW j \in 1..Len(t), t[k] = t[j] PROVE k = j
  <2>. DEFINE at(n) == IF n < i THEN n ELSE n - 1
  <2>1. ASSUME NEW n \in 1..Len(t), n # i
        PROVE  at(n) \in 1..Len(s) /\ t[n] = s[at(n)]
    <3>1. CASE n < i
      BY <1>1, <1>2, <3>1
    <3>2. CASE n > i
      <4>1. n - 1 \in 1..Len(s)
        BY <1>1, <1>2, <3>2
      <4>. QED  BY <1>1, <1>2, <3>2, <4>1
    <3>. QED  BY <2>1, <3>1, <3>2, <1>1, <1>2
  <2>2. \A n \in 1..Len(t) : n = i <=> t[n] = u
    <3>1. i \in 1..Len(t) => t[i] = u
      BY <1>1, <1>2
    <3>2. ASSUME NEW n \in 1..Len(t), n # i PROVE t[n] # u
      <4>1. at(n) \in 1..Len(s) /\ t[n] = s[at(n)]
        BY <2>1, <3>2
      <4>. HIDE DEF at
      <4>2. s[at(n)] \in S
        BY <4>1 DEF Lists
      <4>. QED  BY <4>1, <4>2
    <3>. QED  BY <3>1, <3>2
  <2>3. CASE k = i
    BY <1>5, <2>2, <2>3
  <2>4. CASE k # i
    <3>1. j # i
      BY <1>5, <2>2, <2>4
    <3>2. at(k) = at(j)
      BY <1>5, <2>1, <2>4, <3>1 DEF Lists
    <3>. QED  BY <2>4, <3>1, <3>2, <1>1, <1>2
  <2>. QED  BY <2>3, <2>4
<1>6. Lists(t, S \cup {u})
  BY <1>2, <1>3, <1>4, <1>5 DEF Lists
<1>. QED  BY <1>6 DEF t

\* Removing a user from where it is found.
LEMMA RemoveLists ==
    ASSUME NEW s, NEW S, Lists(s, S), NEW u \in Users, Contains(s, u)
    PROVE  Lists(RemoveAt(s, PositionOf(s, u)), S \ {u})
<1>. DEFINE i == PositionOf(s, u)
            t == RemoveAt(s, i)
<1>1. s \in Seq(Users) /\ Len(s) \in Nat
  BY DEF Lists
<1>2. i \in 1..Len(s) /\ s[i] = u
  BY <1>1 DEF PositionOf, Contains
<1>. HIDE DEF i
<1>3. /\ t \in Seq(Users) /\ Len(t) = Len(s) - 1
      /\ \A k \in 1..(Len(s) - 1) : t[k] = IF k < i THEN s[k] ELSE s[k + 1]
  BY <1>1, <1>2, RemoveAtElements
<1>. HIDE DEF t
<1>. DEFINE at(n) == IF n < i THEN n ELSE n + 1
<1>4. \A n \in 1..Len(t) : at(n) \in 1..Len(s) /\ t[n] = s[at(n)] /\ at(n) # i
  BY <1>1, <1>2, <1>3
<1>5. \A n \in 1..Len(s) : n # i => \E k \in 1..Len(t) : at(k) = n
  <2>. SUFFICES ASSUME NEW n \in 1..Len(s), n # i
                PROVE  \E k \in 1..Len(t) : at(k) = n
    OBVIOUS
  <2>1. CASE n < i
    BY <1>1, <1>2, <1>3, <2>1
  <2>2. CASE n > i
    <3>1. n - 1 \in 1..Len(t) /\ at(n - 1) = n
      BY <1>1, <1>2, <1>3, <2>2
    <3>. QED  BY <3>1
  <2>. QED  BY <1>2, <2>1, <2>2
<1>6. \A k, j \in 1..Len(t) : at(k) = at(j) => k = j
  BY <1>1, <1>2, <1>3
<1>. HIDE DEF at
<1>7. \A k \in 1..Len(t) : t[k] \in S \ {u}
  BY <1>2, <1>4 DEF Lists
<1>8. ASSUME NEW v \in S \ {u} PROVE \E k \in 1..Len(t) : t[k] = v
  <2>1. PICK n \in 1..Len(s) : s[n] = v
    BY DEF Lists
  <2>2. n # i
    BY <1>2, <2>1
  <2>. QED  BY <1>4, <1>5, <2>1, <2>2
<1>9. \A k, j \in 1..Len(t) : t[k] = t[j] => k = j
  BY <1>4, <1>6 DEF Lists
<1>10. Lists(t, S \ {u})
  BY <1>3, <1>7, <1>8, <1>9 DEF Lists
<1>. QED  BY <1>10 DEF t, i

-----------------------------------------------------------------------------
(* The registers, the reserves, and the same of what a loop saved.         *)

RegistryNow == Registered(TroveOwners, sortedTroves, Troves)

ReservesNow ==
    balanceOf["gasPool"] = GAS_COMPENSATION * Len(TroveOwners)
                             + liquidation.totals.totalDebtGasCompensation

SavedInv ==
    /\ Registered(saved.TroveOwners, saved.sortedTroves, saved.Troves)
    /\ saved.balanceOf["gasPool"] = GAS_COMPENSATION * Len(saved.TroveOwners)

\* Nothing is owed to a liquidator when no liquidation runs.
NothingOwed == ~liquidation.running => liquidation.totals.totalDebtGasCompensation = 0

RegInv == RegistryNow /\ ReservesNow /\ SavedInv /\ NothingOwed

\* Changes of a trove other than of its status and its index leave the owners in order.
LEMMA SameIndexed ==
    ASSUME NEW owners, NEW troves, NEW next, Indexed(owners, troves),
           \A v \in Users : next[v].status = troves[v].status
                              /\ next[v].arrayIndex = troves[v].arrayIndex
    PROVE  Indexed(owners, next) /\ ActiveIn(next) = ActiveIn(troves)
<1>1. \A v \in Users : IsActive(next, v) <=> IsActive(troves, v)
  BY DEF IsActive
<1>2. ActiveIn(next) = ActiveIn(troves)
  BY <1>1 DEF ActiveIn
<1>3. Indexed(owners, next)
  BY <1>1 DEF Indexed
<1>. QED
  BY <1>2, <1>3

\* Updating a trove moves its node in the list.
LEMMA UpdateRegistered ==
    ASSUME Typed, RegistryNow, NEW u \in Users, NEW coll, NEW debt, NEW snapshot,
           UpdateTrove(u, coll, debt, snapshot)
    PROVE  RegistryNow' /\ TroveOwners' = TroveOwners
<1>1. TroveOwners' = TroveOwners
  BY Zenon DEF UpdateTrove
<1>2. \A v \in Users : Troves'[v].status = Troves[v].status
                         /\ Troves'[v].arrayIndex = Troves[v].arrayIndex
  BY DEF UpdateTrove, Typed, TrovesTyped, TroveType
<1>3. Indexed(TroveOwners, Troves') /\ ActiveIn(Troves') = ActiveIn(Troves)
  BY <1>2, SameIndexed DEF RegistryNow, Registered
<1>. DEFINE S == ActiveIn(Troves)
            cut == RemoveAt(sortedTroves, PositionOf(sortedTroves, u))
<1>4. Lists(sortedTroves, S) /\ Contains(sortedTroves, u)
      /\ Insert(cut, u, ComputeNominalCR(coll, debt))
  BY DEF RegistryNow, Registered, UpdateTrove, ReInsert
<1>5. u \in S
  BY <1>4 DEF Contains, Lists
<1>6. Lists(cut, S \ {u})
  BY <1>4, RemoveLists
<1>7. PICK i \in 1..(Len(cut) + 1) : sortedTroves' = InsertAt(cut, i, u)
  BY <1>4 DEF Insert, InsertPositions
<1>8. Lists(sortedTroves', (S \ {u}) \cup {u})
  BY <1>6, <1>7, InsertLists
<1>9. (S \ {u}) \cup {u} = S
  BY <1>5
<1>. QED
  BY <1>1, <1>3, <1>8, <1>9 DEF RegistryNow, Registered

\* A new trove is the last of the owners.
LEMMA OpenRegistered ==
    ASSUME Typed, RegistryNow, NEW u \in Users, NEW coll, NEW amount, NEW fee,
           OpenTroveAtFee(u, coll, amount, fee)
    PROVE  RegistryNow' /\ Len(TroveOwners') = Len(TroveOwners) + 1
<1>1. /\ TroveOwners \in Seq(Users) /\ Troves \in [Users -> TroveType]
      /\ TroveOwners' = Append(TroveOwners, u)
      /\ ~Active(u)
  BY DEF OpenTroveAtFee, Typed, TrovesTyped
<1>2. /\ Troves'[u].status = "active" /\ Troves'[u].arrayIndex = Len(TroveOwners)
      /\ \A v \in Users : v # u => Troves'[v] = Troves[v]
  BY <1>1 DEF OpenTroveAtFee
<1>3. \A v \in Users : IsActive(Troves', v) <=> IsActive(Troves, v) \/ v = u
  BY <1>2 DEF IsActive
<1>4. ActiveIn(Troves') = ActiveIn(Troves) \cup {u}
  BY <1>3 DEF ActiveIn
<1>5. /\ Len(TroveOwners) \in Nat
      /\ TroveOwners' \in Seq(Users) /\ Len(TroveOwners') = Len(TroveOwners) + 1
      /\ \A i \in 1..Len(TroveOwners) : TroveOwners'[i] = TroveOwners[i]
      /\ TroveOwners'[Len(TroveOwners) + 1] = u
  BY <1>1
<1>6. u \notin ActiveIn(Troves)
  BY <1>1 DEF Active, ActiveIn, IsActive
<1>7. Indexed(TroveOwners, Troves)
  BY DEF RegistryNow, Registered
<1>8. Indexed(TroveOwners', Troves')
  <2>1. ASSUME NEW i \in 1..Len(TroveOwners')
        PROVE  /\ IsActive(Troves', TroveOwners'[i])
               /\ Troves'[TroveOwners'[i]].arrayIndex = i - 1
    <3>1. CASE i = Len(TroveOwners) + 1
      BY <1>2, <1>3, <1>5, <3>1
    <3>2. CASE i # Len(TroveOwners) + 1
      <4>1. i \in 1..Len(TroveOwners)
        BY <1>5, <3>2
      <4>2. /\ TroveOwners'[i] = TroveOwners[i] /\ TroveOwners[i] \in Users
            /\ IsActive(Troves, TroveOwners[i])
            /\ Troves[TroveOwners[i]].arrayIndex = i - 1
        BY <1>1, <1>5, <1>7, <4>1 DEF Indexed
      <4>3. TroveOwners[i] # u
        BY <1>6, <4>2 DEF ActiveIn
      <4>. QED  BY <1>2, <1>3, <4>2, <4>3
    <3>. QED  BY <3>1, <3>2
  <2>2. ASSUME NEW v \in Users, IsActive(Troves', v)
        PROVE  /\ Troves'[v].arrayIndex + 1 \in 1..Len(TroveOwners')
               /\ TroveOwners'[Troves'[v].arrayIndex + 1] = v
    <3>1. CASE v = u
      BY <1>2, <1>5, <3>1
    <3>2. CASE v # u
      <4>1. IsActive(Troves, v) /\ Troves'[v].arrayIndex = Troves[v].arrayIndex
        BY <1>2, <1>3, <2>2, <3>2
      <4>2. /\ Troves[v].arrayIndex + 1 \in 1..Len(TroveOwners)
            /\ TroveOwners[Troves[v].arrayIndex + 1] = v
        BY <1>7, <4>1 DEF Indexed
      <4>. QED  BY <1>5, <4>1, <4>2
    <3>. QED  BY <3>1, <3>2
  <2>. QED
    BY <1>5, <2>1, <2>2 DEF Indexed
<1>9. Lists(sortedTroves', ActiveIn(Troves) \cup {u})
  <2>1. Insert(sortedTroves, u, ComputeNominalCR(coll, CompositeDebt(amount + fee)))
    BY DEF OpenTroveAtFee
  <2>2. PICK i \in 1..(Len(sortedTroves) + 1) : sortedTroves' = InsertAt(sortedTroves, i, u)
    BY <2>1 DEF Insert, InsertPositions
  <2>. QED
    BY <1>6, <2>2, InsertLists DEF RegistryNow, Registered
<1>. QED
  BY <1>4, <1>5, <1>8, <1>9 DEF RegistryNow, Registered

\* The last owner takes the place of the one that is removed.
LEMMA OwnersWithoutElements ==
    ASSUME Typed, NEW u \in Users, Troves[u].arrayIndex < Len(TroveOwners)
    PROVE  /\ OwnersWithout(u) \in Seq(Users)
           /\ Len(OwnersWithout(u)) = Len(TroveOwners) - 1
           /\ \A k \in 1..(Len(TroveOwners) - 1) :
                OwnersWithout(u)[k] = IF k = Troves[u].arrayIndex + 1
                                        THEN TroveOwners[Len(TroveOwners)] ELSE TroveOwners[k]
<1>. DEFINE n    == Len(TroveOwners)
            last == TroveOwners[Len(TroveOwners)]
            swapped == [TroveOwners EXCEPT ![Troves[u].arrayIndex + 1] = last]
<1>1. TroveOwners \in Seq(Users) /\ n \in Nat /\ Troves[u].arrayIndex \in Nat
  BY DEF Typed, TrovesTyped, TroveType
<1>2. n > 0 /\ n - 1 \in Nat /\ last \in Users
  BY <1>1
<1>3. /\ swapped \in Seq(Users) /\ Len(swapped) = n
      /\ \A k \in 1..n : swapped[k] = IF k = Troves[u].arrayIndex + 1 THEN last ELSE TroveOwners[k]
  BY <1>1, <1>2
<1>4. OwnersWithout(u) = SubSeq(swapped, 1, Len(swapped) - 1)
  BY DEF OwnersWithout, Front, Last
<1>. HIDE DEF swapped, last
<1>5. /\ SubSeq(swapped, 1, Len(swapped) - 1) \in Seq(Users)
      /\ Len(SubSeq(swapped, 1, Len(swapped) - 1)) = n - 1
      /\ \A k \in 1..(n - 1) : SubSeq(swapped, 1, Len(swapped) - 1)[k] = swapped[k]
  BY <1>1, <1>2, <1>3
<1>6. \A k \in 1..(n - 1) : swapped[k] = IF k = Troves[u].arrayIndex + 1 THEN last ELSE TroveOwners[k]
  BY <1>1, <1>3
<1>. QED
  BY <1>4, <1>5, <1>6 DEF last

\* Closing a trove takes it from all three registers.
LEMMA CloseRegistered ==
    ASSUME Typed, RegistryNow, NEW u \in Users, NEW status \in Status, status # "active",
           RemoveStakeAndCloseTrove(u, status)
    PROVE  RegistryNow' /\ Len(TroveOwners') = Len(TroveOwners) - 1
<1>. DEFINE n     == Len(TroveOwners)
            last  == TroveOwners[Len(TroveOwners)]
            index == Troves[u].arrayIndex
<1>1. /\ TroveOwners \in Seq(Users) /\ Troves \in [Users -> TroveType]
      /\ n \in Nat /\ n > 1 /\ index \in Nat /\ index < n /\ last \in Users
      /\ Last(TroveOwners) = last
  <2>1. TroveOwners \in Seq(Users) /\ Troves \in [Users -> TroveType] /\ index \in Nat
    BY DEF Typed, TrovesTyped, TroveType
  <2>2. n > 1 /\ index < n
    BY Zenon DEF RemoveStakeAndCloseTrove, MoreThanOneTrove
  <2>3. n \in Nat /\ last \in Users
    BY <2>1, <2>2
  <2>. QED
    BY <2>1, <2>2, <2>3, Zenon DEF Last
<1>2. /\ Indexed(TroveOwners, Troves) /\ Lists(sortedTroves, ActiveIn(Troves))
      /\ Contains(sortedTroves, u)
  BY DEF RegistryNow, Registered, RemoveStakeAndCloseTrove
<1>3. IsActive(Troves, u) /\ TroveOwners[index + 1] = u
  BY <1>2 DEF Lists, Contains, ActiveIn, Indexed
<1>4. /\ TroveOwners' \in Seq(Users) /\ Len(TroveOwners') = n - 1
      /\ \A k \in 1..(n - 1) : TroveOwners'[k] = IF k = index + 1 THEN last ELSE TroveOwners[k]
  <2>1. TroveOwners' = OwnersWithout(u)
    BY DEF RemoveStakeAndCloseTrove
  <2>. QED
    BY <1>1, <2>1, OwnersWithoutElements
<1>5. /\ Troves'[u].status # "active"
      /\ \A v \in Users : v # u => Troves'[v].status = Troves[v].status
      /\ \A v \in Users : v # u /\ v # last => Troves'[v].arrayIndex = Troves[v].arrayIndex
      /\ last # u => Troves'[last].arrayIndex = index
  <2>1. Troves' = [Troves EXCEPT
          ![u] = [NoTrove EXCEPT !.status = status, !.arrayIndex = index],
          ![last].arrayIndex = index]
    BY <1>1 DEF RemoveStakeAndCloseTrove
  <2>. QED
    BY <1>1, <2>1 DEF NoTrove, TroveType
<1>6. \A v \in Users : IsActive(Troves', v) <=> IsActive(Troves, v) /\ v # u
  BY <1>5 DEF IsActive
<1>7. ActiveIn(Troves') = ActiveIn(Troves) \ {u}
  BY <1>6 DEF ActiveIn
<1>8. Lists(sortedTroves', ActiveIn(Troves) \ {u})
  BY <1>2, RemoveLists DEF RemoveStakeAndCloseTrove
<1>9. IsActive(Troves, last) /\ Troves[last].arrayIndex = n - 1
  BY <1>1, <1>2 DEF Indexed
<1>. HIDE DEF n, last, index
<1>10. ASSUME NEW i \in 1..Len(TroveOwners')
       PROVE  /\ IsActive(Troves', TroveOwners'[i])
              /\ Troves'[TroveOwners'[i]].arrayIndex = i - 1
  <2>0. i \in 1..(n - 1) /\ i \in 1..n /\ i # n
    BY <1>1, <1>4
  <2>1. CASE i = index + 1
    <3>1. TroveOwners'[i] = last
      BY <1>4, <2>0, <2>1
    <3>2. index # n - 1
      BY <1>1, <2>0, <2>1
    <3>3. last # u
      BY <1>9, <3>2 DEF index
    <3>. QED  BY <1>1, <1>5, <1>6, <1>9, <2>1, <3>1, <3>3
  <2>2. CASE i # index + 1
    <3>1. TroveOwners'[i] = TroveOwners[i] /\ TroveOwners[i] \in Users
      BY <1>1, <1>4, <2>0, <2>2 DEF n
    <3>2. IsActive(Troves, TroveOwners[i]) /\ Troves[TroveOwners[i]].arrayIndex = i - 1
      BY <1>2, <2>0 DEF Indexed, n
    <3>3. i - 1 # index /\ i - 1 # n - 1
      BY <1>1, <2>0, <2>2
    <3>4. TroveOwners[i] # u /\ TroveOwners[i] # last
      BY <1>9, <3>2, <3>3 DEF index
    <3>. QED  BY <1>5, <1>6, <3>1, <3>2, <3>4
  <2>. QED  BY <2>1, <2>2
<1>11. ASSUME NEW v \in Users, IsActive(Troves', v)
       PROVE  /\ Troves'[v].arrayIndex + 1 \in 1..Len(TroveOwners')
              /\ TroveOwners'[Troves'[v].arrayIndex + 1] = v
  <2>0. IsActive(Troves, v) /\ v # u
    BY <1>6, <1>11
  <2>1. /\ Troves[v].arrayIndex + 1 \in 1..n
        /\ TroveOwners[Troves[v].arrayIndex + 1] = v
        /\ Troves[v].arrayIndex \in Nat
    BY <1>1, <1>2, <2>0 DEF Indexed, n, TroveType
  <2>2. CASE v = last
    <3>1. Troves'[v].arrayIndex = index /\ index # n - 1
      <4>1. Troves'[v].arrayIndex = index
        BY <1>5, <2>0, <2>2
      <4>2. index = n - 1 => v = u
        BY <1>3, <1>9, <2>1, <2>2
      <4>. QED  BY <2>0, <4>1, <4>2
    <3>2. index + 1 \in 1..(n - 1)
      BY <1>1, <3>1
    <3>. QED  BY <1>4, <2>2, <3>1, <3>2
  <2>3. CASE v # last
    <3>1. Troves'[v].arrayIndex = Troves[v].arrayIndex
      BY <1>5, <2>0, <2>3
    <3>2. Troves[v].arrayIndex + 1 # n /\ Troves[v].arrayIndex # index
      BY <1>3, <2>0, <2>1, <2>3 DEF last, n
    <3>3. Troves[v].arrayIndex + 1 \in 1..(n - 1) /\ Troves[v].arrayIndex + 1 # index + 1
      BY <1>1, <2>1, <3>2
    <3>. QED  BY <1>4, <2>1, <3>1, <3>3
  <2>. QED  BY <2>2, <2>3
<1>12. Indexed(TroveOwners', Troves')
  BY <1>4, <1>10, <1>11 DEF Indexed
<1>. QED
  BY <1>4, <1>7, <1>8, <1>12 DEF RegistryNow, Registered, n

\* One reserve more, or one less.
LEMMA OneReserve ==
    ASSUME NEW n \in Nat
    PROVE  /\ GAS_COMPENSATION * n \in Nat
           /\ GAS_COMPENSATION * (n + 1) = GAS_COMPENSATION * n + GAS_COMPENSATION
           /\ GAS_COMPENSATION * (n - 1) = GAS_COMPENSATION * n - GAS_COMPENSATION
<1>. GAS_COMPENSATION \in Nat
  BY DebtAssumption
<1>. QED
  OBVIOUS

\* The types the arithmetic of the reserves needs.
LEMMA ReserveTypes ==
    ASSUME StorageInv, LoopInv
    PROVE  /\ GAS_COMPENSATION \in Nat
           /\ Len(TroveOwners) \in Nat
           /\ balanceOf \in [Holders -> Nat] /\ balanceOf["gasPool"] \in Nat
           /\ liquidation.totals.totalDebtGasCompensation \in Nat
<1>1. balanceOf \in [Holders -> Nat] /\ balanceOf["gasPool"] \in Nat
  BY PoolFields DEF StorageInv
<1>2. Len(TroveOwners) \in Nat
  BY DEF StorageInv, Typed, TrovesTyped
<1>3. liquidation.totals.totalDebtGasCompensation \in Nat
  BY DEF LoopInv, LiquidationType, TotalsType
<1>. QED
  BY <1>1, <1>2, <1>3, DebtAssumption

\* A trove that is closed leaves with its reserve.
LEMMA ReserveLeaves ==
    ASSUME StorageInv, LoopInv, ReservesNow, UNCHANGED liquidation,
           Len(TroveOwners') = Len(TroveOwners) - 1,
           balanceOf'["gasPool"] = balanceOf["gasPool"] - GAS_COMPENSATION
    PROVE  ReservesNow'
<1>. DEFINE n    == Len(TroveOwners)
            owed == liquidation.totals.totalDebtGasCompensation
<1>1. GAS_COMPENSATION * Len(TroveOwners') = GAS_COMPENSATION * n - GAS_COMPENSATION
  BY ReserveTypes, OneReserve
<1>2. /\ GAS_COMPENSATION * n \in Nat /\ GAS_COMPENSATION \in Nat /\ owed \in Nat
      /\ balanceOf["gasPool"] = GAS_COMPENSATION * n + owed
      /\ owed' = owed
  BY ReserveTypes, OneReserve DEF ReservesNow
<1>. HIDE DEF n
<1>3. balanceOf'["gasPool"] = GAS_COMPENSATION * Len(TroveOwners') + owed'
  BY <1>1, <1>2
<1>. QED
  BY <1>3 DEF ReservesNow

\* A step that leaves the loops alone.
LEMMA OneStepRegInv ==
    ASSUME RegInv, UNCHANGED <<liquidation, saved>>, RegistryNow', ReservesNow'
    PROVE  RegInv'
  BY DEF RegInv, SavedInv, NothingOwed

\* A step that opens and closes no trove.
LEMMA QuietRegInv ==
    ASSUME RegInv, UNCHANGED <<liquidation, saved>>, RegistryNow',
           UNCHANGED TroveOwners, balanceOf'["gasPool"] = balanceOf["gasPool"]
    PROVE  RegInv'
  BY OneStepRegInv DEF RegInv, ReservesNow

\* A step that leaves every trove as it is.
LEMMA StillRegistered ==
    ASSUME RegInv, UNCHANGED troveVars
    PROVE  RegistryNow' /\ UNCHANGED TroveOwners
  BY DEF RegInv, RegistryNow, troveVars

-----------------------------------------------------------------------------
(* Transactions of one step.                                               *)

\* openTrove puts one reserve into the gas pool, whatever the fee.
LEMMA OpenTroveRegInv ==
    ASSUME StorageInv, LoopInv, RegInv, NEW u \in Users, NEW coll, NEW amount, NEW fee,
           OpenTroveAtFee(u, coll, amount, fee)
    PROVE  RegInv'
<1>1. RegistryNow' /\ Len(TroveOwners') = Len(TroveOwners) + 1
  BY OpenRegistered DEF StorageInv, RegInv
<1>2. balanceOf'["gasPool"] = balanceOf["gasPool"] + GAS_COMPENSATION
  BY ReserveTypes DEF OpenTroveAtFee, Holders
<1>3. UNCHANGED <<liquidation, saved>>
  BY DEF OpenTroveAtFee, loopVars
<1>4. ReservesNow'
  <2>. DEFINE n == Len(TroveOwners)
              owed == liquidation.totals.totalDebtGasCompensation
  <2>1. GAS_COMPENSATION * Len(TroveOwners') = GAS_COMPENSATION * n + GAS_COMPENSATION
    BY <1>1, ReserveTypes, OneReserve
  <2>2. /\ GAS_COMPENSATION * n \in Nat /\ GAS_COMPENSATION \in Nat /\ owed \in Nat
        /\ balanceOf["gasPool"] = GAS_COMPENSATION * n + owed
        /\ owed' = owed
    BY <1>3, ReserveTypes, OneReserve DEF RegInv, ReservesNow
  <2>. HIDE DEF n
  <2>3. balanceOf'["gasPool"] = GAS_COMPENSATION * Len(TroveOwners') + owed'
    BY <1>2, <2>1, <2>2
  <2>. QED
    BY <2>3 DEF ReservesNow
<1>. QED
  BY <1>1, <1>3, <1>4, OneStepRegInv

\* No adjustment touches the gas pool.
LEMMA AdjustTroveRegInv ==
    ASSUME StorageInv, LoopInv, RegInv, NEW u \in Users, NEW in, NEW out, NEW debt, NEW more,
           AdjustTrove(u, in, out, debt, more)
    PROVE  RegInv'
<1>1. PICK rate \in RatesCharged(more) :
        AdjustTroveAtFee(u, in, out, debt, more, BorrowingFee(rate, debt))
  BY DEF AdjustTrove
<1>2. \E coll, newDebt, snapshot : UpdateTrove(u, coll, newDebt, snapshot)
  BY <1>1 DEF AdjustTroveAtFee
<1>3. RegistryNow' /\ UNCHANGED TroveOwners
  BY <1>2, UpdateRegistered DEF StorageInv, RegInv
<1>4. balanceOf'["gasPool"] = balanceOf["gasPool"]
  BY <1>1, ReserveTypes DEF AdjustTroveAtFee, Holders
<1>5. UNCHANGED <<liquidation, saved>>
  BY <1>1 DEF AdjustTroveAtFee, loopVars
<1>. QED
  BY <1>3, <1>4, <1>5, QuietRegInv

\* Closing a trove burns its reserve.
LEMMA CloseTroveRegInv ==
    ASSUME StorageInv, LoopInv, RegInv, NEW u \in Users, CloseTrove(u)
    PROVE  RegInv'
<1>1. RemoveStakeAndCloseTrove(u, "closedByOwner") /\ "closedByOwner" \in Status
  BY DEF CloseTrove, Status
<1>2. RegistryNow' /\ Len(TroveOwners') = Len(TroveOwners) - 1
  BY <1>1, CloseRegistered DEF StorageInv, RegInv
<1>3. balanceOf'["gasPool"] = balanceOf["gasPool"] - GAS_COMPENSATION
  BY ReserveTypes DEF CloseTrove, Holders
<1>4. UNCHANGED <<liquidation, saved>>
  BY DEF CloseTrove, loopVars
<1>5. ReservesNow'
  BY <1>2, <1>3, <1>4, ReserveLeaves DEF RegInv
<1>. QED
  BY <1>2, <1>4, <1>5, OneStepRegInv

\* Any transaction of a borrower.
LEMMA BorrowerStepRegInv ==
    ASSUME StorageInv, LoopInv, RegInv, BorrowerStep
    PROVE  RegInv'
<1>1. ASSUME NEW u \in Users, NEW coll, NEW debt, OpenTrove(u, coll, debt)
      PROVE  RegInv'
  BY <1>1, OpenTroveRegInv DEF OpenTrove
<1>2. ASSUME NEW u \in Users, ClaimCollateral(u)
      PROVE  RegInv'
  <2>1. RegistryNow' /\ UNCHANGED TroveOwners
    BY <1>2, StillRegistered DEF ClaimCollateral
  <2>. QED
    BY <1>2, <2>1, QuietRegInv DEF ClaimCollateral, loopVars
<1>3. ASSUME NEW u \in Users, NEW in, NEW out, NEW debt, NEW more, AdjustTrove(u, in, out, debt, more)
      PROVE  RegInv'
  BY <1>3, AdjustTroveRegInv
<1>4. ASSUME NEW u \in Users, NEW coll, NEW debt, NEW up, NEW more,
             \/ AddColl(u, coll) \/ WithdrawColl(u, coll)
             \/ WithdrawDebtToken(u, debt) \/ RepayDebtToken(u, debt)
             \/ AdjustCollAndDebt(u, coll, debt, up, more)
             \/ WithdrawFILGainToTrove(u, coll)
      PROVE  RegInv'
  BY <1>3, <1>4 DEF AddColl, WithdrawColl, WithdrawDebtToken, RepayDebtToken,
                    AdjustCollAndDebt, WithdrawFILGainToTrove
<1>. QED
  BY <1>1, <1>2, <1>4, CloseTroveRegInv DEF BorrowerStep

\* Deposits, withdrawals, claims and new prices.
LEMMA OtherRegInv ==
    ASSUME StorageInv, LoopInv, RegInv,
           DepositorStep \/ ClaimStakingGains \/ \E p \in Prices : SetPrice(p)
    PROVE  RegInv'
<1>1. UNCHANGED <<troveVars, liquidation, saved>>
  BY DEF DepositorStep, ProvideToSP, WithdrawFromSP, ClaimStakingGains, SetPrice, loopVars
<1>2. balanceOf'["gasPool"] = balanceOf["gasPool"]
  <2>1. ASSUME NEW amount, NEW gain, ProvideToSP(amount, gain) \/ WithdrawFromSP(amount, gain)
        PROVE  balanceOf'["gasPool"] = balanceOf["gasPool"]
    BY <2>1, ReserveTypes DEF ProvideToSP, WithdrawFromSP, Holders
  <2>2. CASE ClaimStakingGains
    BY <2>2, ReserveTypes DEF ClaimStakingGains, Holders
  <2>3. CASE \E p \in Prices : SetPrice(p)
    BY <2>3 DEF SetPrice
  <2>. QED
    BY <2>1, <2>2, <2>3 DEF DepositorStep
<1>. QED
  BY <1>1, <1>2, StillRegistered, QuietRegInv

-----------------------------------------------------------------------------
(* The loops.                                                              *)

\* The storage a loop starts from is saved as it is.
LEMMA BeginRegInv ==
    ASSUME RegInv, Idle, saved' = Storage, UNCHANGED <<troveVars, balanceOf>>,
           liquidation'.totals.totalDebtGasCompensation = 0
    PROVE  RegInv'
<1>1. /\ saved'.TroveOwners = TroveOwners /\ saved'.sortedTroves = sortedTroves
      /\ saved'.Troves = Troves /\ saved'.balanceOf = balanceOf
  BY DEF Storage
<1>2. liquidation.totals.totalDebtGasCompensation = 0
  BY DEF RegInv, NothingOwed, Idle
<1>3. RegistryNow' /\ UNCHANGED TroveOwners
  BY StillRegistered
<1>4. balanceOf["gasPool"] = GAS_COMPENSATION * Len(TroveOwners) + 0
  BY <1>2 DEF RegInv, ReservesNow
<1>5. GAS_COMPENSATION * Len(TroveOwners) \in Nat
  BY OneReserve DEF RegInv, RegistryNow, Registered, Indexed
<1>6. SavedInv'
  BY <1>1, <1>4, <1>5 DEF SavedInv, RegInv, RegistryNow
<1>. QED
  BY <1>3, <1>4, <1>6 DEF RegInv, ReservesNow, NothingOwed

\* Nothing is saved once a transaction is over: the deployed storage has no trove.
LEMMA DeployedRegistered ==
    /\ Registered(Deployed.TroveOwners, Deployed.sortedTroves, Deployed.Troves)
    /\ Deployed.balanceOf["gasPool"] = GAS_COMPENSATION * Len(Deployed.TroveOwners)
<1>1. /\ Deployed.TroveOwners = <<>> /\ Deployed.sortedTroves = <<>>
      /\ Deployed.balanceOf["gasPool"] = 0
      /\ \A u \in Users : ~IsActive(Deployed.Troves, u)
  BY DEF Deployed, Holders, NoTrove, IsActive
<1>2. ActiveIn(Deployed.Troves) = {}
  BY <1>1 DEF ActiveIn
<1>3. Indexed(<<>>, Deployed.Troves) /\ Lists(<<>>, {})
  BY <1>1 DEF Indexed, Lists
<1>4. GAS_COMPENSATION * Len(<<>>) = 0
  BY DebtAssumption
<1>. QED
  BY <1>1, <1>2, <1>3, <1>4 DEF Registered

\* Settled or reverted, no reserve is owed any more.
LEMMA EndRegInv ==
    ASSUME RegistryNow', ReservesNow', saved' = Deployed,
           liquidation'.totals.totalDebtGasCompensation = 0
    PROVE  RegInv'
  BY DeployedRegistered DEF RegInv, SavedInv, NothingOwed

\* A liquidation takes the trove from the registers and owes its caller the reserve.
LEMMA LiquidateTroveRegInv ==
    ASSUME StorageInv, LoopInv, RegInv, NEW u \in Users, LiquidateTrove(u)
    PROVE  RegInv'
<1>1. RemoveStakeAndCloseTrove(u, "closedByLiquidation") /\ "closedByLiquidation" \in Status
  BY DEF LiquidateTrove, Status
<1>2. RegistryNow' /\ Len(TroveOwners') = Len(TroveOwners) - 1
  BY <1>1, CloseRegistered DEF StorageInv, RegInv
<1>3. UNCHANGED <<balanceOf, saved>> /\ liquidation.running
  BY DEF LiquidateTrove
<1>4. /\ liquidation'.totals.totalDebtGasCompensation
           = liquidation.totals.totalDebtGasCompensation + GAS_COMPENSATION
      /\ liquidation'.running
  <2>1. /\ liquidation'.totals
             = AddLiquidationValuesToTotals(liquidation.totals, LiquidationValues(u))
        /\ liquidation'.running = liquidation.running
    BY DEF LiquidateTrove, LoopInv, LiquidationType
  <2>. QED
    BY <1>3, <2>1 DEF AddLiquidationValuesToTotals, DebtGasCompensation
<1>5. ReservesNow'
  <2>. DEFINE n == Len(TroveOwners)
              owed == liquidation.totals.totalDebtGasCompensation
  <2>1. GAS_COMPENSATION * Len(TroveOwners') = GAS_COMPENSATION * n - GAS_COMPENSATION
    BY <1>2, ReserveTypes, OneReserve
  <2>2. /\ GAS_COMPENSATION * n \in Nat /\ GAS_COMPENSATION \in Nat /\ owed \in Nat
        /\ balanceOf'["gasPool"] = GAS_COMPENSATION * n + owed
    BY <1>3, ReserveTypes, OneReserve DEF RegInv, ReservesNow
  <2>3. owed' = owed + GAS_COMPENSATION
    BY <1>4
  <2>. HIDE DEF n
  <2>4. balanceOf'["gasPool"] = GAS_COMPENSATION * Len(TroveOwners') + owed'
    BY <2>1, <2>2, <2>3
  <2>. QED
    BY <2>4 DEF ReservesNow
<1>. QED
  BY <1>2, <1>3, <1>4, <1>5 DEF RegInv, SavedInv, NothingOwed

\* Any step of a liquidation: the settlement pays what is owed.
LEMMA LiquidationStepRegInv ==
    ASSUME StorageInv, LoopInv, RegInv, LiquidationStep
    PROVE  RegInv'
<1>1. ASSUME NEW u \in Users, LeaveTrove(u) \/ StopSequence(u)
      PROVE  RegInv'
  <2>1. UNCHANGED <<troveVars, balanceOf, saved>> /\ liquidation.running
    BY <1>1 DEF LeaveTrove, StopSequence
  <2>2. /\ liquidation'.totals = liquidation.totals
        /\ liquidation'.running = liquidation.running
    BY <1>1 DEF LeaveTrove, StopSequence, LoopInv, LiquidationType
  <2>3. RegistryNow' /\ UNCHANGED TroveOwners
    BY <2>1, StillRegistered
  <2>. QED
    BY <2>1, <2>2, <2>3 DEF RegInv, ReservesNow, SavedInv, NothingOwed
<1>2. CASE SettleLiquidation
  <2>. DEFINE owed == liquidation.totals.totalDebtGasCompensation
  <2>1. /\ UNCHANGED troveVars /\ saved' = Deployed
        /\ liquidation'.totals.totalDebtGasCompensation = 0
    BY <1>2 DEF SettleLiquidation, NoLiquidation, NoTotals
  <2>2. balanceOf'["gasPool"] = balanceOf["gasPool"] - owed
    BY <1>2, ReserveTypes DEF SettleLiquidation, Holders
  <2>3. RegistryNow' /\ UNCHANGED TroveOwners
    BY <2>1, StillRegistered
  <2>4. balanceOf["gasPool"] = GAS_COMPENSATION * Len(TroveOwners) + owed
    BY DEF RegInv, ReservesNow
  <2>5. owed \in Nat /\ GAS_COMPENSATION * Len(TroveOwners) \in Nat
    BY ReserveTypes, OneReserve
  <2>. HIDE DEF owed
  <2>6. balanceOf'["gasPool"] = GAS_COMPENSATION * Len(TroveOwners') + 0
    BY <2>2, <2>3, <2>4, <2>5
  <2>. QED
    BY <2>1, <2>3, <2>6, EndRegInv DEF ReservesNow
<1>. QED
  BY <1>1, <1>2, LiquidateTroveRegInv DEF LiquidationStep

\* Any step of a redemption: a trove it closes takes its reserve along.
LEMMA RedemptionStepRegInv ==
    ASSUME StorageInv, LoopInv, RegInv, ~liquidation.running, RedemptionStep
    PROVE  RegInv'
<1>1. UNCHANGED liquidation
  BY DEF RedemptionStep, RedeemAndClose, RedeemPartially, CancelPartial, Redeeming,
         SettleRedemption, NotRedeeming
<1>2. ASSUME NEW u \in Users, RedeemAndClose(u)
      PROVE  RegInv'
  <2>1. RemoveStakeAndCloseTrove(u, "closedByRedemption") /\ "closedByRedemption" \in Status
    BY <1>2 DEF RedeemAndClose, Status
  <2>2. RegistryNow' /\ Len(TroveOwners') = Len(TroveOwners) - 1
    BY <2>1, CloseRegistered DEF StorageInv, RegInv
  <2>3. balanceOf'["gasPool"] = balanceOf["gasPool"] - GAS_COMPENSATION
    BY <1>2, ReserveTypes DEF RedeemAndClose, Holders
  <2>4. UNCHANGED saved
    BY <1>2 DEF RedeemAndClose, Redeeming
  <2>5. ReservesNow'
    BY <1>1, <2>2, <2>3, ReserveLeaves DEF RegInv
  <2>. QED
    BY <1>1, <2>2, <2>4, <2>5, OneStepRegInv
<1>3. ASSUME NEW u \in Users, RedeemPartially(u)
      PROVE  RegInv'
  <2>1. UpdateTrove(u, RedeemedColl(u) - FILLot(u), RedeemedDebt(u) - DebtLot(u), AppliedSnapshot(u))
    BY <1>3 DEF RedeemPartially
  <2>2. RegistryNow' /\ UNCHANGED TroveOwners
    BY <2>1, UpdateRegistered DEF StorageInv, RegInv
  <2>. QED
    BY <1>1, <1>3, <2>2, QuietRegInv DEF RedeemPartially, Redeeming
<1>4. ASSUME NEW u \in Users, CancelPartial(u)
      PROVE  RegInv'
  <2>1. \A v \in Users : Troves'[v].status = Troves[v].status
                           /\ Troves'[v].arrayIndex = Troves[v].arrayIndex
    BY <1>4 DEF CancelPartial, StorageInv, Typed, TrovesTyped, TroveType
  <2>2. Indexed(TroveOwners, Troves') /\ ActiveIn(Troves') = ActiveIn(Troves)
    BY <2>1, SameIndexed DEF RegInv, RegistryNow, Registered
  <2>3. UNCHANGED <<TroveOwners, sortedTroves, balanceOf, saved>>
    BY <1>4 DEF CancelPartial, Redeeming
  <2>4. RegistryNow'
    BY <2>2, <2>3 DEF RegInv, RegistryNow, Registered
  <2>. QED
    BY <1>1, <2>3, <2>4, QuietRegInv
<1>5. CASE SettleRedemption
  <2>1. UNCHANGED troveVars /\ saved' = Deployed
    BY <1>5 DEF SettleRedemption
  <2>2. balanceOf'["gasPool"] = balanceOf["gasPool"]
    BY <1>5, ReserveTypes DEF SettleRedemption, Holders
  <2>3. RegistryNow' /\ UNCHANGED TroveOwners
    BY <2>1, StillRegistered
  <2>4. ReservesNow'
    BY <1>1, <2>2, <2>3 DEF RegInv, ReservesNow
  <2>5. liquidation'.totals.totalDebtGasCompensation = 0
    BY <1>1 DEF RegInv, NothingOwed
  <2>. QED
    BY <2>1, <2>3, <2>4, <2>5, EndRegInv
<1>. QED
  BY <1>2, <1>3, <1>4, <1>5 DEF RedemptionStep

\* A revert goes back to what was saved.
LEMMA RevertRegInv ==
    ASSUME RegInv, Revert
    PROVE  RegInv'
<1>1. /\ Troves' = saved.Troves /\ TroveOwners' = saved.TroveOwners
      /\ sortedTroves' = saved.sortedTroves /\ balanceOf' = saved.balanceOf
      /\ saved' = Deployed /\ liquidation'.totals.totalDebtGasCompensation = 0
  BY DEF Revert, NoLiquidation, NoTotals
<1>2. RegistryNow'
  BY <1>1 DEF RegInv, SavedInv, RegistryNow
<1>3. balanceOf'["gasPool"] = GAS_COMPENSATION * Len(TroveOwners') + 0
  <2>1. GAS_COMPENSATION * Len(saved.TroveOwners) \in Nat
    BY OneReserve DEF RegInv, SavedInv, Registered, Indexed
  <2>. QED
    BY <1>1, <2>1 DEF RegInv, SavedInv
<1>. QED
  BY <1>1, <1>2, <1>3, EndRegInv DEF ReservesNow

-----------------------------------------------------------------------------
(* The theorems.                                                           *)

\* RegInv is inductive, given the types and that one loop runs at a time: one case per disjunct of Next.
LEMMA NextRegInv ==
    ASSUME StorageInv, LoopInv, OneLoop, RegInv, [Next]_vars
    PROVE  RegInv'
<1>1. ASSUME NEW troves, NEW isBatch, BeginLiquidation(troves, isBatch)
      PROVE  RegInv'
  <2>1. Idle /\ saved' = Storage /\ UNCHANGED <<troveVars, balanceOf>>
    BY <1>1 DEF BeginLiquidation, StartTransaction
  <2>2. liquidation'.totals.totalDebtGasCompensation = 0
    BY <1>1 DEF BeginLiquidation, NoLiquidation, NoTotals
  <2>. QED
    BY <2>1, <2>2, BeginRegInv
<1>2. ASSUME NEW n, BeginSequence(n)
      PROVE  RegInv'
  BY <1>1, <1>2 DEF BeginSequence
<1>3. ASSUME NEW troveArray, BeginBatch(troveArray)
      PROVE  RegInv'
  BY <1>1, <1>3 DEF BeginBatch
<1>4. ASSUME NEW amount, NEW n, BeginRedemption(amount, n)
      PROVE  RegInv'
  <2>1. /\ Idle /\ saved' = Storage /\ UNCHANGED <<troveVars, balanceOf, liquidation>>
    BY <1>4 DEF BeginRedemption, StartTransaction
  <2>2. liquidation'.totals.totalDebtGasCompensation = 0
    BY <2>1 DEF RegInv, NothingOwed, Idle
  <2>. QED
    BY <2>1, <2>2, BeginRegInv
<1>5. CASE RedemptionStep
  <2>1. redemption.running
    BY <1>5 DEF RedemptionStep, RedeemAndClose, RedeemPartially, CancelPartial, Redeeming,
                SettleRedemption
  <2>. QED
    BY <1>5, <2>1, RedemptionStepRegInv DEF OneLoop
<1>6. CASE UNCHANGED vars
  <2>1. UNCHANGED <<troveVars, liquidation, saved, balanceOf>>
    BY <1>6 DEF vars, loopVars
  <2>. QED
    BY <2>1, StillRegistered, QuietRegInv
<1>. QED
  BY <1>2, <1>3, <1>4, <1>5, <1>6, BorrowerStepRegInv, OtherRegInv, LiquidationStepRegInv,
     RevertRegInv DEF Next, LoopStep

\* Nothing is registered at deployment.
LEMMA InitRegInv == Init => RegInv
<1>. SUFFICES ASSUME Init PROVE RegInv
  OBVIOUS
<1>1. /\ TroveOwners = Deployed.TroveOwners /\ sortedTroves = Deployed.sortedTroves
      /\ Troves = Deployed.Troves /\ balanceOf = Deployed.balanceOf /\ saved = Deployed
      /\ liquidation.totals.totalDebtGasCompensation = 0 /\ ~liquidation.running
  BY DEF Init, NoLiquidation, NoTotals
<1>2. GAS_COMPENSATION * Len(TroveOwners) \in Nat
  BY <1>1, DeployedRegistered, OneReserve DEF Registered, Indexed
<1>3. balanceOf["gasPool"] = GAS_COMPENSATION * Len(TroveOwners) + 0
  BY <1>1, <1>2, DeployedRegistered
<1>. QED
  BY <1>1, <1>3, DeployedRegistered
     DEF RegInv, RegistryNow, ReservesNow, SavedInv, NothingOwed

\* A sequence that names the users of a set once each is as long as the set is large.
LEMMA ListCardinality ==
    ASSUME NEW list, NEW S, Lists(list, S)
    PROVE  ToSet(list) = S /\ Cardinality(S) = Len(list)
<1>1. list \in Seq(Users) /\ Len(list) \in Nat /\ DOMAIN list = 1..Len(list)
  BY DEF Lists
<1>2. ToSet(list) = S
  BY <1>1 DEF ToSet, Lists
<1>3. list \in Bijection(1..Len(list), S)
  BY <1>1 DEF Lists, Bijection, Injection, Surjection, IsInjective
<1>. QED
  BY <1>1, <1>2, <1>3, FS_CountingElements DEF ExistsBijection

\* What the two properties need of the inductive invariant.
LEMMA RegInvImplies == RegInv => RegistryConsistent /\ GasPoolCoversReserves
<1>. SUFFICES ASSUME RegInv PROVE RegistryConsistent /\ GasPoolCoversReserves
  OBVIOUS
<1>1. ActiveUsers = ActiveIn(Troves)
  BY DEF ActiveUsers, ActiveIn, Active, IsActive
<1>2. Lists(sortedTroves, ActiveUsers) /\ Indexed(TroveOwners, Troves)
  BY <1>1 DEF RegInv, RegistryNow, Registered
<1>3. Lists(TroveOwners, ActiveUsers)
  <2>1. TroveOwners \in Seq(Users) /\ \A i \in 1..Len(TroveOwners) : TroveOwners[i] \in Users
    BY <1>2 DEF Indexed
  <2>2. \A i \in 1..Len(TroveOwners) : TroveOwners[i] \in ActiveUsers
    BY <1>1, <1>2, <2>1 DEF Indexed, ActiveIn
  <2>3. \A u \in ActiveUsers : \E i \in 1..Len(TroveOwners) : TroveOwners[i] = u
    BY <1>1, <1>2 DEF Indexed, ActiveIn
  <2>4. ASSUME NEW i \in 1..Len(TroveOwners), NEW j \in 1..Len(TroveOwners),
               TroveOwners[i] = TroveOwners[j]
        PROVE  i = j
    <3>1. i - 1 = j - 1
      BY <1>2, <2>4 DEF Indexed
    <3>. QED  BY <3>1
  <2>. QED
    BY <2>1, <2>2, <2>3, <2>4 DEF Lists
<1>4. \A u \in ActiveUsers : TroveOwners[Troves[u].arrayIndex + 1] = u
  BY <1>1, <1>2 DEF Indexed, ActiveIn
<1>5. /\ ToSet(TroveOwners) = ActiveUsers /\ Cardinality(ActiveUsers) = Len(TroveOwners)
      /\ ToSet(sortedTroves) = ActiveUsers /\ Cardinality(ActiveUsers) = Len(sortedTroves)
  BY <1>2, <1>3, ListCardinality
<1>. QED
  BY <1>4, <1>5 DEF RegInv, ReservesNow, RegistryConsistent, GasPoolCoversReserves

\* The inductive invariant, for every value of the constants.
THEOREM RegistryInvariance == Spec => [](TypeInv /\ DebtInv /\ RegInv)
<1>1. Init => TypeInv /\ DebtInv /\ RegInv
  BY InitTypeInv, InitDebtInv, InitRegInv
<1>2. TypeInv /\ DebtInv /\ RegInv /\ [Next]_vars => (TypeInv /\ DebtInv /\ RegInv)'
  BY NextTypeInv, NextDebtInv, NextRegInv, TypeInvParts DEF DebtInv
<1>. QED
  BY <1>1, <1>2, PTL DEF Spec

\* The statuses, the owners array with its back pointers and the sorted list name the same
\* users, each once, through every opening, move, swap on closing and revert, and in the
\* middle of the loops.
THEOREM RegistersAgree == Spec => []RegistryConsistent
  BY RegInvImplies, RegistryInvariance, PTL

\* The gas pool holds the reserve of every open trove, and of those a running liquidation
\* has closed: every path that closes a trove burns or pays out exactly its own.
THEOREM ReservesAreKept == Spec => []GasPoolCoversReserves
  BY RegInvImplies, RegistryInvariance, PTL

-----------------------------------------------------------------------------
(***************************************************************************)
(* The sums of the troves, and the limits.                                 *)
(*                                                                         *)
(* The accounts of the pools are those of the troves: the active pool      *)
(* holds the collateral and debt recorded for the troves, the stakes add   *)
(* up to totalStakes, the surplus pool holds what former owners may claim, *)
(* the default pool can pay every trove its pending collateral, and a      *)
(* liquidation never totals more than the pools hold.  And the limits the  *)
(* system keeps: no transaction of a user takes it below CCR or, below it, *)
(* lowers the TCR by more than the floors hide, no trove is left with less *)
(* than the minimum debt, an owner liquidated above MCR loses no more than *)
(* the cap, a settlement conserves the collateral it moves, and the        *)
(* trackers that decide when a running sequence has left recovery mode are *)
(* exact.                                                                  *)
(*                                                                         *)
(* That the default pool suffices is not inductive.  What is: the rewards  *)
(* owed before the division by DECIMAL_PRECISION, with the remainder the   *)
(* last redistribution kept, are at most the pool's FIL times              *)
(* DECIMAL_PRECISION.  A redistribution adds the same amount to both sides *)
(* because totalStakes, its divisor, is the sum of the stakes; a payment   *)
(* clears all that its trove is owed and takes the quotient from the pool. *)
(*                                                                         *)
(* A running loop has taken collateral and debt off the troves that the    *)
(* pools still hold: its totals are the difference, and are split without  *)
(* a remainder between what the settlement moves.  Nothing is taken when   *)
(* no loop runs, so that a loop saves, and a revert restores, a storage in *)
(* which the sums are equal.                                               *)
(*                                                                         *)
(* The minimum debt and the trackers need more than the types: the same of *)
(* what a loop saved, and that no sequence tracks the recovery mode unless *)
(* it is running.  That the TCR falls no further in recovery mode needs    *)
(* the minimum debt, and that the debt of one trove is a part of the       *)
(* active pool's, which is one of the sums.                                *)
(***************************************************************************)

StakesOf(troves) == [u \in Users |-> troves[u].stake]
CollsOf(troves)  == [u \in Users |-> troves[u].coll]
DebtsOf(troves)  == [u \in Users |-> troves[u].debt]

\* The FIL owed to the troves, before the division by DECIMAL_PRECISION.
OwedTo(troves, snapshots, l) ==
    [u \in Users |-> troves[u].stake * (l.FIL - snapshots[u].FIL)]

\* A trove that is not active is empty.
ClosedAreEmpty(troves) ==
    \A u \in Users : ~IsActive(troves, u) =>
      troves[u].stake = 0 /\ troves[u].coll = 0 /\ troves[u].debt = 0

\* A pool holds what the troves record, and what a loop took off them.
Holds(pool, troves, coll, debt) ==
    /\ pool.FIL = Total(CollsOf(troves)) + coll
    /\ pool.debt = Total(DebtsOf(troves)) + debt

Covers(pool, troves, snapshots, l) ==
    Total(OwedTo(troves, snapshots, l)) + l.lastFILError <= pool.FIL * DECIMAL_PRECISION

TrovesSummed(troves, snapshots, total, l, pool) ==
    /\ ClosedAreEmpty(troves)
    /\ total = Total(StakesOf(troves))
    /\ Covers(pool, troves, snapshots, l)

SurplusSummed(surplus, extra) == Total(surplus.balances) = surplus.FIL + extra

CollTaken == liquidation.totals.totalCollInSequence + redemption.totalFILDrawn
DebtTaken == liquidation.totals.totalDebtInSequence + redemption.totalDebtTokenToRedeem

SumsNow ==
    /\ TrovesSummed(Troves, rewardSnapshots, totalStakes, L, defaultPool)
    /\ Holds(activePool, Troves, CollTaken, DebtTaken)
    /\ SurplusSummed(collSurplusPool, liquidation.totals.totalCollSurplus)

SumsSaved ==
    /\ TrovesSummed(saved.Troves, saved.rewardSnapshots, saved.totalStakes, saved.L,
                    saved.defaultPool)
    /\ Holds(saved.activePool, saved.Troves, 0, 0)
    /\ SurplusSummed(saved.collSurplusPool, 0)

\* What a sequence took is split between what its settlement moves; with no debt to
\* offset, or to redistribute, there is no collateral for it either.
Split(t) ==
    /\ t.totalCollInSequence = t.totalCollToSendToSP + t.totalCollToRedistribute
                                 + t.totalCollGasCompensation + t.totalCollSurplus
    /\ t.totalDebtInSequence = t.totalDebtToOffset + t.totalDebtToRedistribute
    /\ t.totalDebtToOffset = 0 => t.totalCollToSendToSP = 0
    /\ t.totalDebtToRedistribute = 0 => t.totalCollToRedistribute = 0

\* The deposits are those left to the sequence and those it will offset.
DepositsTracked ==
    liquidation.running =>
      stabilityPool.deposits = liquidation.remainingDebtTokenInStabPool
                                 + liquidation.totals.totalDebtToOffset

NothingTaken ==
    /\ ~liquidation.running => liquidation.totals = NoTotals
    /\ ~redemption.running =>
         redemption.totalFILDrawn = 0 /\ redemption.totalDebtTokenToRedeem = 0

SumInv ==
    /\ SumsNow
    /\ SumsSaved
    /\ Split(liquidation.totals)
    /\ DepositsTracked
    /\ NothingTaken

-----------------------------------------------------------------------------
(* Arithmetic, and the types of the terms.                                 *)

\* A quotient times its divisor, and what the division leaves.
LEMMA DivTimes ==
    ASSUME NEW a \in Nat, NEW b \in Nat \ {0}
    PROVE  /\ a \div b \in Nat /\ a % b \in Nat
           /\ (a \div b) * b <= a
           /\ (a \div b) * b + (a % b) = a
<1>1. a = b * (a \div b) + (a % b) /\ a % b \in Nat
  OBVIOUS
<1>2. a \div b \in Nat
  BY DivNat
<1>3. b * (a \div b) = (a \div b) * b /\ (a \div b) * b \in Nat
  BY <1>2, TimesNat
<1>. QED
  BY <1>1, <1>2, <1>3

\* Both sides of a comparison are divided by the same number.
LEMMA CancelTimes ==
    ASSUME NEW a \in Nat, NEW b \in Nat, NEW d \in Nat \ {0}, d * a <= b * d
    PROVE  a <= b
  OBVIOUS

\* A product is spread over a sum and over a difference.
LEMMA TimesOver ==
    ASSUME NEW a \in Int, NEW b \in Int, NEW d \in Int
    PROVE  /\ (a + b) * d = a * d + b * d
           /\ (a - b) * d = a * d - b * d
           /\ d * (a + b) = d * a + d * b
  OBVIOUS

\* A pool, a sum and the total of a loop change by the same difference.
LEMMA SameDifference ==
    ASSUME NEW pool \in Nat, NEW sum \in Nat, NEW taken \in Nat, NEW part \in Nat,
           NEW pool2 \in Nat, NEW sum2, NEW taken2 \in Nat, NEW part2 \in Nat,
           pool = sum + taken, sum2 = (sum - part) + part2,
           pool2 + taken + part = pool + taken2 + part2
    PROVE  pool2 = sum2 + taken2
  OBVIOUS

TermsTyped ==
    /\ StakesOf(Troves) \in [Users -> Nat]
    /\ CollsOf(Troves) \in [Users -> Nat]
    /\ DebtsOf(Troves) \in [Users -> Nat]
    /\ OwedTo(Troves, rewardSnapshots, L) \in [Users -> Nat]
    /\ L.FIL \in Nat /\ L.lastFILError \in Nat
    /\ totalStakes \in Nat

\* No trove is owed a negative amount, since no snapshot is ahead of L.
LEMMA TermTypes == StorageInv => TermsTyped
<1>. SUFFICES ASSUME StorageInv PROVE TermsTyped
  OBVIOUS
<1>1. ASSUME NEW u \in Users
      PROVE  /\ Troves[u].stake \in Nat /\ Troves[u].coll \in Nat /\ Troves[u].debt \in Nat
             /\ Troves[u].stake * (L.FIL - rewardSnapshots[u].FIL) \in Nat
  <2>1. /\ Troves[u].stake \in Nat /\ Troves[u].coll \in Nat /\ Troves[u].debt \in Nat
        /\ L.FIL - rewardSnapshots[u].FIL \in Nat
    BY DEF StorageInv, Typed, TrovesTyped, SnapshotsTyped, TroveType, SnapshotType, LType,
           SnapshotsBehind
  <2>. QED
    BY <2>1, TimesNat
<1>2. L.FIL \in Nat /\ L.lastFILError \in Nat /\ totalStakes \in Nat
  BY DEF StorageInv, Typed, TrovesTyped, SnapshotsTyped, LType
<1>. QED
  BY <1>1, <1>2 DEF TermsTyped, StakesOf, CollsOf, DebtsOf, OwedTo

\* The same in the next state.
LEMMA TermTypesNext == StorageInv' => TermsTyped'
  BY TermTypes, PTL

TakenTyped ==
    /\ CollTaken \in Nat /\ DebtTaken \in Nat
    /\ liquidation.totals \in TotalsType
    /\ liquidation.totals.totalCollInSequence \in Nat
    /\ liquidation.totals.totalDebtInSequence \in Nat
    /\ liquidation.totals.totalCollSurplus \in Nat
    /\ redemption.totalFILDrawn \in Nat
    /\ redemption.totalDebtTokenToRedeem \in Nat

\* What a loop has taken.
LEMMA TakenTypes == LoopInv => TakenTyped
<1>. SUFFICES ASSUME LoopInv PROVE TakenTyped
  OBVIOUS
<1>1. liquidation.totals \in TotalsType
  BY DEF LoopInv, LiquidationType
<1>2. /\ liquidation.totals.totalCollInSequence \in Nat
      /\ liquidation.totals.totalDebtInSequence \in Nat
      /\ liquidation.totals.totalCollSurplus \in Nat
  BY <1>1 DEF TotalsType
<1>3. redemption.totalFILDrawn \in Nat /\ redemption.totalDebtTokenToRedeem \in Nat
  BY DEF LoopInv, RedemptionType
<1>. QED
  BY <1>1, <1>2, <1>3 DEF TakenTyped, CollTaken, DebtTaken

\* The same in the next state.
LEMMA TakenTypesNext == LoopInv' => TakenTyped'
  BY TakenTypes, PTL

\* The sums are natural numbers.
LEMMA SumTypes ==
    ASSUME StorageInv
    PROVE  /\ Total(StakesOf(Troves)) \in Nat
           /\ Total(CollsOf(Troves)) \in Nat
           /\ Total(DebtsOf(Troves)) \in Nat
           /\ Total(OwedTo(Troves, rewardSnapshots, L)) \in Nat
  BY TermTypes, TotalType, UsersAssumption DEF TermsTyped

-----------------------------------------------------------------------------
(* What the inductive invariant implies.                                   *)

\* The properties that are parts of it.
LEMMA SumInvImplies ==
    ASSUME StorageInv, LoopInv, SumInv
    PROVE  ActivePoolMatchesTroves /\ StakesMatch /\ SurplusBacked
<1>1. Holds(activePool, Troves, CollTaken, DebtTaken)
  BY DEF SumInv, SumsNow
<1>2. ActivePoolMatchesTroves
  BY <1>1, SumTypes, TakenTypes
     DEF TakenTyped, Holds, CollTaken, DebtTaken, ActivePoolMatchesTroves, CollsOf, DebtsOf
<1>3. StakesMatch /\ SurplusBacked
  BY DEF SumInv, SumsNow, TrovesSummed, SurplusSummed, StakesOf, StakesMatch, SurplusBacked
<1>. QED
  BY <1>2, <1>3

\* What a trove is owed covers the quotient it is paid.
LEMMA PendingCovered ==
    ASSUME StorageInv, NEW u \in Users
    PROVE  /\ getPendingFILReward(u) \in Nat
           /\ getPendingFILReward(u) * DECIMAL_PRECISION
                <= OwedTo(Troves, rewardSnapshots, L)[u]
<1>. DEFINE owed == Troves[u].stake * (L.FIL - rewardSnapshots[u].FIL)
<1>1. OwedTo(Troves, rewardSnapshots, L)[u] = owed /\ owed \in Nat
  <2>1. OwedTo(Troves, rewardSnapshots, L)[u] = owed
    BY DEF OwedTo
  <2>. QED
    BY <2>1, TermTypes DEF TermsTyped
<1>2. (owed \div DECIMAL_PRECISION) * DECIMAL_PRECISION <= owed
  BY <1>1, DivTimes, PrecisionAssumption
<1>3. getPendingFILReward(u) = IF Active(u) THEN owed \div DECIMAL_PRECISION ELSE 0
  BY DEF getPendingFILReward
<1>4. getPendingFILReward(u) \in Nat
  BY PendingType DEF StorageInv
<1>5. 0 * DECIMAL_PRECISION <= owed
  BY <1>1, PrecisionAssumption
<1>. HIDE DEF owed
<1>. QED
  BY <1>1, <1>2, <1>3, <1>4, <1>5

\* The floors of what the troves are owed add up to no more than the pool holds.
LEMMA CoversImplies ==
    ASSUME StorageInv, SumInv
    PROVE  DefaultPoolCoversPendingFIL
<1>. DEFINE pending == [u \in Users |-> getPendingFILReward(u)]
            scaled  == [u \in Users |-> DECIMAL_PRECISION * pending[u]]
            owed    == OwedTo(Troves, rewardSnapshots, L)
<1>1. pending \in [Users -> Nat] /\ \A u \in Users : pending[u] = getPendingFILReward(u)
  BY PendingCovered
<1>. HIDE DEF pending
<1>2. DECIMAL_PRECISION \in Nat \ {0}
  BY PrecisionAssumption
<1>3. /\ scaled \in [Users -> Nat]
      /\ \A u \in Users : scaled[u] = DECIMAL_PRECISION * pending[u]
  BY <1>1, <1>2, TimesNat
<1>. HIDE DEF scaled
<1>4. Total(scaled) = DECIMAL_PRECISION * Total(pending)
  BY <1>1, <1>2, <1>3, TotalTimes, UsersAssumption
<1>5. ASSUME NEW u \in Users
      PROVE  scaled[u] <= owed[u]
  <2>1. DECIMAL_PRECISION * pending[u] = pending[u] * DECIMAL_PRECISION
    BY <1>1, <1>2
  <2>. QED
    BY <1>1, <1>3, <2>1, PendingCovered
<1>6. owed \in [Users -> Nat] /\ L.lastFILError \in Nat
  BY TermTypes DEF TermsTyped
<1>7. Total(scaled) <= Total(owed)
  BY <1>3, <1>5, <1>6, TotalLeq, UsersAssumption
<1>8. Total(owed) + L.lastFILError <= defaultPool.FIL * DECIMAL_PRECISION
  BY DEF SumInv, SumsNow, TrovesSummed, Covers
<1>9. /\ Total(pending) \in Nat /\ Total(owed) \in Nat /\ Total(scaled) \in Nat
      /\ defaultPool.FIL \in Nat
  BY <1>1, <1>3, <1>6, TotalType, UsersAssumption, PoolFields DEF StorageInv
<1>10. DECIMAL_PRECISION * Total(pending) <= defaultPool.FIL * DECIMAL_PRECISION
  <2>. HIDE DEF owed
  <2>1. defaultPool.FIL * DECIMAL_PRECISION \in Nat
    BY <1>2, <1>9, TimesNat
  <2>. QED
    BY <1>4, <1>6, <1>7, <1>8, <1>9, <2>1
<1>11. Total(pending) <= defaultPool.FIL
  BY <1>2, <1>9, <1>10, CancelTimes
<1>. QED
  BY <1>11 DEF DefaultPoolCoversPendingFIL, pending

-----------------------------------------------------------------------------
(* One trove moves.                                                        *)

\* Only the account of u changes: its stake with totalStakes, and what it is owed is
\* cleared.
Moved(u) ==
    /\ \A v \in Users \ {u} :
         /\ Troves'[v].status = Troves[v].status
         /\ Troves'[v].stake = Troves[v].stake
         /\ Troves'[v].coll = Troves[v].coll
         /\ Troves'[v].debt = Troves[v].debt
         /\ rewardSnapshots'[v] = rewardSnapshots[v]
    /\ L' = L
    /\ totalStakes' = (totalStakes - Troves[u].stake) + Troves'[u].stake
    /\ Troves'[u].stake = 0 \/ rewardSnapshots'[u].FIL = L.FIL
    /\ ~IsActive(Troves', u) =>
         Troves'[u].stake = 0 /\ Troves'[u].coll = 0 /\ Troves'[u].debt = 0

\* The sums over the troves follow.
LEMMA MovedSums ==
    ASSUME StorageInv, StorageInv', NEW u \in Users, Moved(u)
    PROVE  /\ Total(StakesOf(Troves'))
                = (Total(StakesOf(Troves)) - Troves[u].stake) + Troves'[u].stake
           /\ Total(CollsOf(Troves'))
                = (Total(CollsOf(Troves)) - Troves[u].coll) + Troves'[u].coll
           /\ Total(DebtsOf(Troves'))
                = (Total(DebtsOf(Troves)) - Troves[u].debt) + Troves'[u].debt
           /\ Total(OwedTo(Troves', rewardSnapshots', L'))
                = Total(OwedTo(Troves, rewardSnapshots, L))
                    - OwedTo(Troves, rewardSnapshots, L)[u]
<1>1. TermsTyped /\ TermsTyped'
  BY TermTypes, TermTypesNext
<1>2. /\ StakesOf(Troves)[u] = Troves[u].stake /\ StakesOf(Troves')[u] = Troves'[u].stake
      /\ \A v \in Users \ {u} : StakesOf(Troves')[v] = StakesOf(Troves)[v]
  BY DEF StakesOf, Moved
<1>3. /\ CollsOf(Troves)[u] = Troves[u].coll /\ CollsOf(Troves')[u] = Troves'[u].coll
      /\ \A v \in Users \ {u} : CollsOf(Troves')[v] = CollsOf(Troves)[v]
  BY DEF CollsOf, Moved
<1>4. /\ DebtsOf(Troves)[u] = Troves[u].debt /\ DebtsOf(Troves')[u] = Troves'[u].debt
      /\ \A v \in Users \ {u} : DebtsOf(Troves')[v] = DebtsOf(Troves)[v]
  BY DEF DebtsOf, Moved
<1>. DEFINE old == OwedTo(Troves, rewardSnapshots, L)
            new == OwedTo(Troves', rewardSnapshots', L')
<1>5. new[u] = 0
  <2>1. new[u] = Troves'[u].stake * (L'.FIL - rewardSnapshots'[u].FIL)
    BY DEF OwedTo
  <2>2. Troves'[u].stake \in Nat /\ L'.FIL - rewardSnapshots'[u].FIL \in Int /\ L'.FIL \in Nat
    <3>1. Troves' \in [Users -> TroveType] /\ rewardSnapshots' \in [Users -> SnapshotType]
          /\ L' \in LType
      BY DEF StorageInv, Typed, TrovesTyped, SnapshotsTyped
    <3>. QED
      BY <3>1 DEF TroveType, SnapshotType, LType
  <2>3. Troves'[u].stake = 0 \/ L'.FIL - rewardSnapshots'[u].FIL = 0
    <3>1. Troves'[u].stake = 0 \/ rewardSnapshots'[u].FIL = L'.FIL
      BY DEF Moved
    <3>. QED
      BY <2>2, <3>1
  <2>. QED
    BY <2>1, <2>2, <2>3
<1>6. \A v \in Users \ {u} : new[v] = old[v]
  BY DEF OwedTo, Moved
<1>7. /\ StakesOf(Troves) \in [Users -> Nat] /\ StakesOf(Troves') \in [Users -> Nat]
      /\ CollsOf(Troves) \in [Users -> Nat] /\ CollsOf(Troves') \in [Users -> Nat]
      /\ DebtsOf(Troves) \in [Users -> Nat] /\ DebtsOf(Troves') \in [Users -> Nat]
      /\ old \in [Users -> Nat] /\ new \in [Users -> Nat]
  BY <1>1 DEF TermsTyped
<1>. HIDE DEF old, new
<1>8. Total(new) = (Total(old) - old[u]) + new[u]
  BY <1>6, <1>7, TotalChange, UsersAssumption
<1>12. Total(old) \in Nat /\ old[u] \in Nat
  BY <1>7, TotalType, UsersAssumption
<1>9. Total(StakesOf(Troves')) = (Total(StakesOf(Troves)) - Troves[u].stake) + Troves'[u].stake
  BY <1>2, <1>7, TotalChange, UsersAssumption
<1>10. Total(CollsOf(Troves')) = (Total(CollsOf(Troves)) - Troves[u].coll) + Troves'[u].coll
  BY <1>3, <1>7, TotalChange, UsersAssumption
<1>11. Total(DebtsOf(Troves')) = (Total(DebtsOf(Troves)) - Troves[u].debt) + Troves'[u].debt
  BY <1>4, <1>7, TotalChange, UsersAssumption
<1>. QED
  BY <1>5, <1>8, <1>9, <1>10, <1>11, <1>12 DEF old, new

\* One trove moves and the default pool pays f of what it was owed: the accounts agree
\* again when the active pool and the totals of the loop take up the difference.
LEMMA OneTroveMoves ==
    ASSUME StorageInv, LoopInv, StorageInv', LoopInv', SumsNow, NEW u \in Users, Moved(u),
           NEW f \in Nat, f * DECIMAL_PRECISION <= OwedTo(Troves, rewardSnapshots, L)[u],
           defaultPool'.FIL = defaultPool.FIL - f,
           activePool'.FIL + CollTaken + Troves[u].coll
             = activePool.FIL + CollTaken' + Troves'[u].coll,
           activePool'.debt + DebtTaken + Troves[u].debt
             = activePool.debt + DebtTaken' + Troves'[u].debt,
           SurplusSummed(collSurplusPool', liquidation'.totals.totalCollSurplus)
    PROVE  SumsNow'
<1>. DEFINE old == OwedTo(Troves, rewardSnapshots, L)
            new == OwedTo(Troves', rewardSnapshots', L')
<1>1. Total(new) = Total(old) - old[u]
  BY MovedSums
<1>2. /\ Total(old) \in Nat /\ old[u] \in Nat
      /\ L.lastFILError \in Nat /\ L'.lastFILError = L.lastFILError
  BY SumTypes, TermTypes DEF TermsTyped, Moved
<1>3. Total(old) + L.lastFILError <= defaultPool.FIL * DECIMAL_PRECISION
  BY DEF SumsNow, TrovesSummed, Covers
<1>4. Covers(defaultPool', Troves', rewardSnapshots', L')
  <2>1. defaultPool.FIL \in Nat /\ DECIMAL_PRECISION \in Nat
    BY PoolFields, PrecisionAssumption DEF StorageInv
  <2>2. /\ (defaultPool.FIL - f) * DECIMAL_PRECISION
             = defaultPool.FIL * DECIMAL_PRECISION - f * DECIMAL_PRECISION
        /\ defaultPool.FIL * DECIMAL_PRECISION \in Nat /\ f * DECIMAL_PRECISION \in Nat
    BY <2>1, TimesOver, TimesNat
  <2>. HIDE DEF old, new
  <2>3. Total(new) + L'.lastFILError <= defaultPool'.FIL * DECIMAL_PRECISION
    BY <1>1, <1>2, <1>3, <2>2 DEF old
  <2>. QED
    BY <2>3 DEF Covers, new
<1>5. ClosedAreEmpty(Troves')
  <2>1. ASSUME NEW v \in Users, ~IsActive(Troves', v)
        PROVE  Troves'[v].stake = 0 /\ Troves'[v].coll = 0 /\ Troves'[v].debt = 0
    BY <2>1 DEF Moved, SumsNow, TrovesSummed, ClosedAreEmpty, IsActive
  <2>. QED
    BY <2>1 DEF ClosedAreEmpty
<1>6. totalStakes' = Total(StakesOf(Troves'))
  BY MovedSums DEF Moved, SumsNow, TrovesSummed
<1>7. Holds(activePool', Troves', CollTaken', DebtTaken')
  <2>1. /\ Total(CollsOf(Troves')) = (Total(CollsOf(Troves)) - Troves[u].coll) + Troves'[u].coll
        /\ Total(DebtsOf(Troves')) = (Total(DebtsOf(Troves)) - Troves[u].debt) + Troves'[u].debt
    BY MovedSums
  <2>2. /\ activePool.FIL = Total(CollsOf(Troves)) + CollTaken
        /\ activePool.debt = Total(DebtsOf(Troves)) + DebtTaken
    BY DEF SumsNow, Holds
  <2>3. /\ Total(CollsOf(Troves)) \in Nat /\ Total(DebtsOf(Troves)) \in Nat
        /\ CollTaken \in Nat /\ DebtTaken \in Nat
        /\ Troves[u].coll \in Nat /\ Troves[u].debt \in Nat
    BY SumTypes, TakenTypes, TroveFields DEF StorageInv, TakenTyped
  <2>4. CollTaken' \in Nat /\ DebtTaken' \in Nat
    BY TakenTypesNext DEF TakenTyped
  <2>5. Troves'[u].coll \in Nat /\ Troves'[u].debt \in Nat
    BY DEF StorageInv, Typed, TrovesTyped, TroveType
  <2>6. activePool'.FIL \in Nat /\ activePool'.debt \in Nat
    BY DEF StorageInv, Typed, PoolsTyped, PoolType
  <2>7. activePool'.FIL = Total(CollsOf(Troves')) + CollTaken'
    BY <2>1, <2>2, <2>3, <2>4, <2>5, <2>6, SameDifference
  <2>8. activePool'.debt = Total(DebtsOf(Troves')) + DebtTaken'
    BY <2>1, <2>2, <2>3, <2>4, <2>5, <2>6, SameDifference
  <2>. QED
    BY <2>7, <2>8 DEF Holds
<1>. QED
  BY <1>4, <1>5, <1>6, <1>7 DEF SumsNow, TrovesSummed

\* updateTroveRewardSnapshots and the new stake.
LEMMA UpdateMoves ==
    ASSUME StorageInv, NEW u \in Users, IsActive(Troves, u), NEW coll, NEW debt,
           UpdateTrove(u, coll, debt, AppliedSnapshot(u)), L' = L
    PROVE  Moved(u) /\ Troves'[u].coll = coll /\ Troves'[u].debt = debt
<1>1. Troves \in [Users -> TroveType] /\ rewardSnapshots \in [Users -> SnapshotType]
      /\ L \in LType /\ rewardSnapshots[u].FIL <= L.FIL
  BY DEF StorageInv, Typed, TrovesTyped, SnapshotsTyped, SnapshotsBehind
<1>2. /\ Troves' = [Troves EXCEPT ![u].coll = coll, ![u].debt = debt,
                                   ![u].stake = ComputeNewStake(coll)]
      /\ rewardSnapshots' = [rewardSnapshots EXCEPT ![u] = AppliedSnapshot(u)]
      /\ totalStakes' = (totalStakes - Troves[u].stake) + ComputeNewStake(coll)
  BY DEF UpdateTrove, NewTotalStakes
<1>3. /\ Troves'[u].coll = coll /\ Troves'[u].debt = debt
      /\ Troves'[u].stake = ComputeNewStake(coll) /\ Troves'[u].status = Troves[u].status
      /\ \A v \in Users \ {u} : Troves'[v] = Troves[v]
  BY <1>1, <1>2 DEF TroveType
<1>4. rewardSnapshots'[u].FIL = L.FIL
  <2>1. AppliedSnapshot(u).FIL = L.FIL
    <3>1. L.FIL \in Nat /\ rewardSnapshots[u].FIL \in Nat
      BY <1>1 DEF LType, SnapshotType
    <3>2. Active(u)
      BY DEF Active, IsActive
    <3>. QED
      BY <1>1, <3>1, <3>2 DEF AppliedSnapshot, CurrentL, hasPendingRewards
  <2>. QED
    BY <1>1, <1>2, <2>1
<1>5. \A v \in Users \ {u} : rewardSnapshots'[v] = rewardSnapshots[v]
  BY <1>1, <1>2
<1>. QED
  BY <1>2, <1>3, <1>4, <1>5 DEF Moved, IsActive

\* A trove that is closed leaves nothing behind.
LEMMA CloseMoves ==
    ASSUME StorageInv, NEW u \in Users, NEW status \in Status, status # "active",
           RemoveStakeAndCloseTrove(u, status), L' = L
    PROVE  Moved(u) /\ Troves'[u].coll = 0 /\ Troves'[u].debt = 0
<1>. DEFINE index == Troves[u].arrayIndex
            last  == Last(TroveOwners)
            closed == [NoTrove EXCEPT !.status = status, !.arrayIndex = index]
<1>1. /\ Troves' = [Troves EXCEPT ![u] = closed, ![last].arrayIndex = index]
      /\ rewardSnapshots' = [rewardSnapshots EXCEPT ![u] = NoSnapshot]
      /\ totalStakes' = totalStakes - Troves[u].stake
  BY DEF RemoveStakeAndCloseTrove
<1>2. /\ Troves \in [Users -> TroveType] /\ rewardSnapshots \in [Users -> SnapshotType]
      /\ totalStakes \in Nat
  BY DEF StorageInv, Typed, TrovesTyped
<1>3. /\ Troves'[u].status = status /\ Troves'[u].stake = 0
      /\ Troves'[u].coll = 0 /\ Troves'[u].debt = 0
      /\ \A v \in Users \ {u} :
           /\ Troves'[v].status = Troves[v].status /\ Troves'[v].stake = Troves[v].stake
           /\ Troves'[v].coll = Troves[v].coll /\ Troves'[v].debt = Troves[v].debt
  <2>1. /\ closed.status = status /\ closed.stake = 0 /\ closed.coll = 0 /\ closed.debt = 0
        /\ closed \in TroveType
    BY <1>2 DEF NoTrove, TroveType, Status
  <2>. HIDE DEF last, index, closed
  <2>. QED
    BY <1>1, <1>2, <2>1 DEF TroveType
<1>4. \A v \in Users \ {u} : rewardSnapshots'[v] = rewardSnapshots[v]
  BY <1>1, <1>2
<1>5. totalStakes' = (totalStakes - Troves[u].stake) + Troves'[u].stake
  BY <1>1, <1>2, <1>3 DEF TroveType
<1>. QED
  BY <1>3, <1>4, <1>5 DEF Moved, IsActive

\* The rewards a trove is given are owed to it.
LEMMA AppliedCovered ==
    ASSUME StorageInv, NEW u \in Users
    PROVE  /\ AppliedRewards(u).FIL \in Nat /\ AppliedRewards(u).debt \in Nat
           /\ AppliedRewards(u).FIL * DECIMAL_PRECISION
                <= OwedTo(Troves, rewardSnapshots, L)[u]
<1>1. OwedTo(Troves, rewardSnapshots, L)[u] \in Nat /\ 0 * DECIMAL_PRECISION = 0
  BY TermTypes, PrecisionAssumption DEF TermsTyped
<1>2. /\ getPendingFILReward(u) * DECIMAL_PRECISION <= OwedTo(Troves, rewardSnapshots, L)[u]
      /\ getPendingFILReward(u) \in Nat /\ getPendingDebtReward(u) \in Nat
  BY PendingCovered, PendingType DEF StorageInv
<1>. QED
  BY <1>1, <1>2 DEF AppliedRewards

-----------------------------------------------------------------------------
(* Transactions of one step.                                               *)

\* A transaction of one step leaves the loops and what they saved alone.
LEMMA OneStepSumInv ==
    ASSUME SumInv, Idle, UNCHANGED loopVars, SumsNow'
    PROVE  SumInv'
  BY DEF SumInv, SumsSaved, Split, DepositsTracked, NothingTaken, Idle, loopVars

\* What the loops have taken does not change with the loops.
LEMMA SameTaken ==
    ASSUME UNCHANGED loopVars
    PROVE  /\ CollTaken' = CollTaken /\ DebtTaken' = DebtTaken
           /\ liquidation'.totals.totalCollSurplus = liquidation.totals.totalCollSurplus
  BY DEF CollTaken, DebtTaken, loopVars

\* openTrove adds the collateral and the composite debt to the trove and to the pool.
LEMMA OpenTroveSums ==
    ASSUME StorageInv, LoopInv, StorageInv', LoopInv', SumsNow, NEW u \in Users,
           NEW coll \in Nat, NEW amount \in Nat, NEW fee \in Nat,
           OpenTroveAtFee(u, coll, amount, fee)
    PROVE  SumsNow'
<1>. DEFINE debt == CompositeDebt(amount + fee)
<1>1. Troves[u].stake = 0 /\ Troves[u].coll = 0 /\ Troves[u].debt = 0
  BY DEF OpenTroveAtFee, SumsNow, TrovesSummed, ClosedAreEmpty, Active, IsActive
<1>2. debt \in Nat
  BY DebtAssumption DEF CompositeDebt
<1>3. /\ Troves' = [Troves EXCEPT ![u] =
           [status |-> "active", debt |-> Troves[u].debt + debt,
            coll |-> Troves[u].coll + coll, stake |-> ComputeNewStake(Troves[u].coll + coll),
            arrayIndex |-> Len(TroveOwners)]]
      /\ rewardSnapshots' = [rewardSnapshots EXCEPT ![u] = CurrentL]
      /\ totalStakes' = (totalStakes - Troves[u].stake) + ComputeNewStake(Troves[u].coll + coll)
      /\ activePool' = [FIL |-> activePool.FIL + coll, debt |-> activePool.debt + debt]
      /\ UNCHANGED <<snapshotVars, defaultPool, collSurplusPool, loopVars>>
  BY DEF OpenTroveAtFee, NewTotalStakes
<1>. HIDE DEF debt
<1>4. Troves \in [Users -> TroveType] /\ rewardSnapshots \in [Users -> SnapshotType]
  BY DEF StorageInv, Typed, TrovesTyped
<1>5. /\ Troves'[u].status = "active" /\ Troves'[u].coll = coll /\ Troves'[u].debt = debt
      /\ Troves'[u].stake = ComputeNewStake(Troves[u].coll + coll)
      /\ \A v \in Users \ {u} : Troves'[v] = Troves[v]
  BY <1>1, <1>2, <1>3, <1>4
<1>6. /\ rewardSnapshots'[u].FIL = L.FIL
      /\ \A v \in Users \ {u} : rewardSnapshots'[v] = rewardSnapshots[v]
  BY <1>3, <1>4 DEF CurrentL
<1>7. Moved(u)
  BY <1>3, <1>5, <1>6 DEF Moved, IsActive, snapshotVars
<1>8. 0 * DECIMAL_PRECISION <= OwedTo(Troves, rewardSnapshots, L)[u]
  BY TermTypes, PrecisionAssumption DEF TermsTyped
<1>9. /\ CollTaken' = CollTaken /\ DebtTaken' = DebtTaken
      /\ CollTaken \in Nat /\ DebtTaken \in Nat
      /\ liquidation'.totals.totalCollSurplus = liquidation.totals.totalCollSurplus
  BY <1>3, SameTaken, TakenTypes DEF TakenTyped
<1>10. SurplusSummed(collSurplusPool', liquidation'.totals.totalCollSurplus)
  BY <1>3, <1>9 DEF SumsNow
<1>11. activePool.FIL \in Nat /\ activePool.debt \in Nat /\ defaultPool.FIL \in Nat
  BY PoolFields DEF StorageInv
<1>12. defaultPool'.FIL = defaultPool.FIL - 0
  BY <1>3, <1>11
<1>13. /\ activePool'.FIL + CollTaken + Troves[u].coll
            = activePool.FIL + CollTaken' + Troves'[u].coll
       /\ activePool'.debt + DebtTaken + Troves[u].debt
            = activePool.debt + DebtTaken' + Troves'[u].debt
  BY <1>1, <1>2, <1>3, <1>5, <1>9, <1>11
<1>. QED
  BY <1>7, <1>8, <1>10, <1>12, <1>13, OneTroveMoves

\* _adjustTrove moves the pending rewards with the changes.
LEMMA AdjustTroveSums ==
    ASSUME StorageInv, LoopInv, StorageInv', LoopInv', SumsNow, NEW u \in Users,
           NEW collReceived \in Nat, NEW collWithdrawal \in Nat, NEW debtChange \in Nat,
           NEW isDebtIncrease \in BOOLEAN, NEW fee \in Nat,
           AdjustTroveAtFee(u, collReceived, collWithdrawal, debtChange, isDebtIncrease, fee)
    PROVE  SumsNow'
<1>. DEFINE pending == AppliedRewards(u)
            coll    == Troves[u].coll + pending.FIL
            debt    == Troves[u].debt + pending.debt
            newColl == (coll + collReceived) - collWithdrawal
            newDebt == IF isDebtIncrease THEN debt + debtChange + fee ELSE debt - debtChange
<1>1. /\ UpdateTrove(u, newColl, newDebt, AppliedSnapshot(u))
      /\ MovePendingTroveRewardsToActivePool(pending)
      /\ activePool' =
           [FIL  |-> (activePool.FIL + pending.FIL + collReceived) - collWithdrawal,
            debt |-> (activePool.debt + pending.debt + newDebt) - debt]
      /\ UNCHANGED <<snapshotVars, collSurplusPool, loopVars>>
      /\ Active(u)
  BY DEF AdjustTroveAtFee
<1>2. /\ pending.FIL \in Nat /\ pending.debt \in Nat
      /\ pending.FIL * DECIMAL_PRECISION <= OwedTo(Troves, rewardSnapshots, L)[u]
  BY AppliedCovered
<1>3. /\ coll \in Nat /\ debt \in Nat /\ newColl \in Int /\ newDebt \in Int
      /\ Troves[u].coll \in Nat /\ Troves[u].debt \in Nat
  BY <1>2, TroveFields DEF StorageInv
<1>4. defaultPool'.FIL = defaultPool.FIL - pending.FIL
  BY <1>1 DEF MovePendingTroveRewardsToActivePool
<1>. HIDE DEF pending, newDebt, newColl
<1>5. Moved(u) /\ Troves'[u].coll = newColl /\ Troves'[u].debt = newDebt
  BY <1>1, UpdateMoves DEF snapshotVars, Active, IsActive
<1>6. /\ CollTaken' = CollTaken /\ DebtTaken' = DebtTaken
      /\ CollTaken \in Nat /\ DebtTaken \in Nat
      /\ liquidation'.totals.totalCollSurplus = liquidation.totals.totalCollSurplus
  BY <1>1, SameTaken, TakenTypes DEF TakenTyped
<1>7. SurplusSummed(collSurplusPool', liquidation'.totals.totalCollSurplus)
  BY <1>1, <1>6 DEF SumsNow
<1>8. activePool.FIL \in Nat /\ activePool.debt \in Nat
  BY PoolFields DEF StorageInv
<1>9. activePool'.FIL + CollTaken + Troves[u].coll
        = activePool.FIL + CollTaken' + Troves'[u].coll
  <2>1. activePool'.FIL = (activePool.FIL + pending.FIL + collReceived) - collWithdrawal
    BY <1>1
  <2>. QED
    BY <1>2, <1>3, <1>5, <1>6, <1>8, <2>1 DEF newColl
<1>10. activePool'.debt + DebtTaken + Troves[u].debt
         = activePool.debt + DebtTaken' + Troves'[u].debt
  <2>1. activePool'.debt = (activePool.debt + pending.debt + newDebt) - debt
    BY <1>1
  <2>. QED
    BY <1>2, <1>3, <1>5, <1>6, <1>8, <2>1
<1>. QED
  BY <1>2, <1>4, <1>5, <1>7, <1>9, <1>10, OneTroveMoves

\* closeTrove takes the whole trove out of the active pool.
LEMMA CloseTroveSums ==
    ASSUME StorageInv, LoopInv, StorageInv', LoopInv', SumsNow, NEW u \in Users, CloseTrove(u)
    PROVE  SumsNow'
<1>. DEFINE pending == AppliedRewards(u)
<1>1. /\ RemoveStakeAndCloseTrove(u, "closedByOwner") /\ "closedByOwner" \in Status
      /\ MovePendingTroveRewardsToActivePool(pending)
      /\ activePool' = [
           FIL  |-> (activePool.FIL + pending.FIL) - (Troves[u].coll + pending.FIL),
           debt |-> (activePool.debt + pending.debt) - (Troves[u].debt + pending.debt)]
      /\ UNCHANGED <<snapshotVars, collSurplusPool, loopVars>>
  BY DEF CloseTrove, Status
<1>2. /\ pending.FIL \in Nat /\ pending.debt \in Nat
      /\ pending.FIL * DECIMAL_PRECISION <= OwedTo(Troves, rewardSnapshots, L)[u]
  BY AppliedCovered
<1>3. defaultPool'.FIL = defaultPool.FIL - pending.FIL
  BY <1>1 DEF MovePendingTroveRewardsToActivePool
<1>. HIDE DEF pending
<1>4. Moved(u) /\ Troves'[u].coll = 0 /\ Troves'[u].debt = 0
  BY <1>1, CloseMoves DEF snapshotVars
<1>5. /\ CollTaken' = CollTaken /\ DebtTaken' = DebtTaken
      /\ CollTaken \in Nat /\ DebtTaken \in Nat
      /\ liquidation'.totals.totalCollSurplus = liquidation.totals.totalCollSurplus
  BY <1>1, SameTaken, TakenTypes DEF TakenTyped
<1>6. SurplusSummed(collSurplusPool', liquidation'.totals.totalCollSurplus)
  BY <1>1, <1>5 DEF SumsNow
<1>7. /\ activePool.FIL \in Nat /\ activePool.debt \in Nat
      /\ Troves[u].coll \in Nat /\ Troves[u].debt \in Nat
  BY PoolFields, TroveFields DEF StorageInv
<1>8. /\ activePool'.FIL + CollTaken + Troves[u].coll
           = activePool.FIL + CollTaken' + Troves'[u].coll
      /\ activePool'.debt + DebtTaken + Troves[u].debt
           = activePool.debt + DebtTaken' + Troves'[u].debt
  BY <1>1, <1>2, <1>4, <1>5, <1>7
<1>. QED
  BY <1>2, <1>3, <1>4, <1>6, <1>8, OneTroveMoves

\* A step that touches neither the troves nor the pools that answer for them.
LEMMA SameSums ==
    ASSUME SumsNow, UNCHANGED <<troveVars, snapshotVars, activePool, defaultPool>>,
           CollTaken' = CollTaken, DebtTaken' = DebtTaken,
           SurplusSummed(collSurplusPool', liquidation'.totals.totalCollSurplus)
    PROVE  SumsNow'
  BY DEF SumsNow, troveVars, snapshotVars

\* claimCollateral pays the whole balance of the user.
LEMMA ClaimCollateralSums ==
    ASSUME StorageInv, LoopInv, SumsNow, NEW u \in Users, ClaimCollateral(u)
    PROVE  SumsNow'
<1>. DEFINE old == collSurplusPool.balances
            new == [old EXCEPT ![u] = 0]
<1>1. collSurplusPool' = [FIL |-> collSurplusPool.FIL - old[u], balances |-> new]
      /\ UNCHANGED <<troveVars, snapshotVars, activePool, defaultPool, loopVars>>
  BY DEF ClaimCollateral
<1>2. old \in [Users -> Nat] /\ collSurplusPool.FIL \in Nat
  BY DEF StorageInv, Typed, PoolsTyped, SurplusType
<1>3. new \in [Users -> Nat] /\ new[u] = 0 /\ \A v \in Users \ {u} : new[v] = old[v]
  BY <1>2
<1>. HIDE DEF old, new
<1>4. Total(new) = (Total(old) - old[u]) + new[u] /\ Total(old) \in Nat
  BY <1>2, <1>3, TotalChange, TotalType, UsersAssumption
<1>5. Total(old) = collSurplusPool.FIL + liquidation.totals.totalCollSurplus
  BY DEF SumsNow, SurplusSummed, old
<1>6. old[u] \in Nat
  BY <1>2
<1>7. SurplusSummed(collSurplusPool', liquidation'.totals.totalCollSurplus)
  <2>1. liquidation'.totals.totalCollSurplus = liquidation.totals.totalCollSurplus
    BY <1>1, SameTaken
  <2>2. collSurplusPool'.FIL = collSurplusPool.FIL - old[u] /\ collSurplusPool'.balances = new
    BY <1>1
  <2>3. liquidation.totals.totalCollSurplus \in Nat
    BY TakenTypes DEF TakenTyped
  <2>4. Total(new) = collSurplusPool'.FIL + liquidation.totals.totalCollSurplus
    BY <1>2, <1>3, <1>4, <1>5, <1>6, <2>2, <2>3
  <2>. QED
    BY <2>1, <2>2, <2>4 DEF SurplusSummed
<1>. QED
  BY <1>1, <1>7, SameTaken, SameSums

\* Any transaction of a borrower.
LEMMA BorrowerStepSumInv ==
    ASSUME StorageInv, LoopInv, StorageInv', LoopInv', SumInv, BorrowerStep
    PROVE  SumInv'
<1>. USE InputAssumption
<1>1. SumsNow
  BY DEF SumInv
<1>2. ASSUME NEW u \in Users, NEW coll \in OpenColls, NEW debt \in OpenDebts,
             OpenTrove(u, coll, debt)
      PROVE  SumInv'
  <2>1. PICK rate \in RatesCharged(TRUE) : OpenTroveAtFee(u, coll, debt, BorrowingFee(rate, debt))
    BY <1>2 DEF OpenTrove
  <2>2. SumsNow'
    BY <1>1, <2>1, FeeType, OpenTroveSums
  <2>. QED
    BY <2>1, <2>2, OneStepSumInv DEF OpenTroveAtFee, StartTransaction
<1>3. ASSUME NEW u \in Users, NEW collReceived \in Nat, NEW collWithdrawal \in Nat,
             NEW debtChange \in Nat, NEW isDebtIncrease \in BOOLEAN,
             AdjustTrove(u, collReceived, collWithdrawal, debtChange, isDebtIncrease)
      PROVE  SumInv'
  <2>1. PICK rate \in RatesCharged(isDebtIncrease) :
          AdjustTroveAtFee(u, collReceived, collWithdrawal, debtChange, isDebtIncrease,
                           BorrowingFee(rate, debtChange))
    BY <1>3 DEF AdjustTrove
  <2>2. SumsNow'
    BY <1>1, <2>1, FeeType, AdjustTroveSums
  <2>. QED
    BY <2>1, <2>2, OneStepSumInv DEF AdjustTroveAtFee, StartTransaction
<1>4. ASSUME NEW u \in Users, NEW coll \in CollChanges, AddColl(u, coll) \/ WithdrawColl(u, coll)
      PROVE  SumInv'
  BY <1>3, <1>4 DEF AddColl, WithdrawColl
<1>5. ASSUME NEW u \in Users, NEW debt \in DebtChanges,
             WithdrawDebtToken(u, debt) \/ RepayDebtToken(u, debt)
      PROVE  SumInv'
  BY <1>3, <1>5 DEF WithdrawDebtToken, RepayDebtToken
<1>6. ASSUME NEW u \in Users, NEW coll \in CollChanges, NEW debt \in DebtChanges,
             NEW up \in BOOLEAN, NEW more \in BOOLEAN, AdjustCollAndDebt(u, coll, debt, up, more)
      PROVE  SumInv'
  BY <1>3, <1>6 DEF AdjustCollAndDebt
<1>7. ASSUME NEW u \in Users, WithdrawFILGainToTrove(u, stabilityPool.FIL)
      PROVE  SumInv'
  <2>1. stabilityPool.FIL \in Nat
    BY PoolFields DEF StorageInv
  <2>. QED
    BY <1>3, <1>7, <2>1 DEF WithdrawFILGainToTrove
<1>8. ASSUME NEW u \in Users, CloseTrove(u)
      PROVE  SumInv'
  BY <1>1, <1>8, CloseTroveSums, OneStepSumInv DEF CloseTrove, StartTransaction
<1>9. ASSUME NEW u \in Users, ClaimCollateral(u)
      PROVE  SumInv'
  BY <1>1, <1>9, ClaimCollateralSums, OneStepSumInv DEF ClaimCollateral, StartTransaction
<1>. QED
  BY <1>2, <1>4, <1>5, <1>6, <1>7, <1>8, <1>9 DEF BorrowerStep

\* Deposits, withdrawals, claims of stakers and new prices.
LEMMA OtherSumInv ==
    ASSUME SumInv, DepositorStep \/ ClaimStakingGains \/ \E p \in Prices : SetPrice(p)
    PROVE  SumInv'
<1>1. /\ Idle
      /\ UNCHANGED <<troveVars, snapshotVars, activePool, defaultPool, collSurplusPool>>
      /\ UNCHANGED loopVars
  BY DEF DepositorStep, ProvideToSP, WithdrawFromSP, ClaimStakingGains, SetPrice,
         StartTransaction
<1>2. /\ CollTaken' = CollTaken /\ DebtTaken' = DebtTaken
      /\ liquidation'.totals.totalCollSurplus = liquidation.totals.totalCollSurplus
  BY <1>1, SameTaken
<1>3. SumsNow
  BY DEF SumInv
<1>4. SurplusSummed(collSurplusPool', liquidation'.totals.totalCollSurplus)
  BY <1>1, <1>2, <1>3 DEF SumsNow
<1>5. SumsNow'
  BY <1>1, <1>2, <1>3, <1>4, SameSums
<1>. QED
  BY <1>1, <1>5, OneStepSumInv

-----------------------------------------------------------------------------
(* The loops begin and end.                                                *)

\* A loop has taken nothing when it starts, and what it saves is the storage of now.
LEMMA BeginSumInv ==
    ASSUME LoopInv, SumInv, Idle, saved' = Storage,
           UNCHANGED <<troveVars, snapshotVars, activePool, defaultPool, collSurplusPool,
                       stabilityPool>>,
           liquidation'.totals = NoTotals,
           liquidation'.running
             => liquidation'.remainingDebtTokenInStabPool = stabilityPool.deposits,
           redemption'.totalFILDrawn = 0, redemption'.totalDebtTokenToRedeem = 0,
           stabilityPool.deposits \in Nat
    PROVE  SumInv'
<1>1. /\ NoTotals.totalCollInSequence = 0 /\ NoTotals.totalDebtInSequence = 0
      /\ NoTotals.totalCollSurplus = 0 /\ NoTotals.totalDebtToOffset = 0
      /\ Split(NoTotals)
  BY DEF NoTotals, Split
<1>2. /\ liquidation.totals = NoTotals
      /\ redemption.totalFILDrawn = 0 /\ redemption.totalDebtTokenToRedeem = 0
  BY DEF Idle, SumInv, NothingTaken
<1>3. CollTaken = 0 /\ DebtTaken = 0 /\ CollTaken' = 0 /\ DebtTaken' = 0
  BY <1>1, <1>2 DEF CollTaken, DebtTaken
<1>4. /\ TrovesSummed(Troves, rewardSnapshots, totalStakes, L, defaultPool)
      /\ Holds(activePool, Troves, 0, 0)
      /\ SurplusSummed(collSurplusPool, 0)
  BY <1>1, <1>2, <1>3 DEF SumInv, SumsNow
<1>5. SumsNow'
  BY <1>1, <1>3, <1>4 DEF SumsNow, troveVars, snapshotVars
<1>6. /\ saved'.Troves = Troves /\ saved'.rewardSnapshots = rewardSnapshots
      /\ saved'.totalStakes = totalStakes /\ saved'.L = L
      /\ saved'.defaultPool = defaultPool /\ saved'.activePool = activePool
      /\ saved'.collSurplusPool = collSurplusPool
  BY DEF Storage
<1>7. SumsSaved'
  BY <1>4, <1>6 DEF SumsSaved
<1>8. DepositsTracked'
  BY <1>1 DEF DepositsTracked
<1>. QED
  BY <1>1, <1>5, <1>7, <1>8 DEF SumInv, NothingTaken

\* The sums over the storage as deployed are zero.
LEMMA DeployedSummed ==
    /\ TrovesSummed(Deployed.Troves, Deployed.rewardSnapshots, Deployed.totalStakes, Deployed.L,
                    Deployed.defaultPool)
    /\ Holds(Deployed.activePool, Deployed.Troves, 0, 0)
    /\ SurplusSummed(Deployed.collSurplusPool, 0)
<1>. DEFINE zeros == [u \in Users |-> 0]
<1>1. Total(zeros) = 0
  BY TotalZero
<1>2. /\ StakesOf(Deployed.Troves) = zeros /\ CollsOf(Deployed.Troves) = zeros
      /\ DebtsOf(Deployed.Troves) = zeros
      /\ OwedTo(Deployed.Troves, Deployed.rewardSnapshots, Deployed.L) = zeros
      /\ Deployed.collSurplusPool.balances = zeros
  BY DEF StakesOf, CollsOf, DebtsOf, OwedTo, Deployed, NoTrove, NoSnapshot
<1>. HIDE DEF zeros
<1>3. /\ Deployed.totalStakes = 0 /\ Deployed.L.lastFILError = 0
      /\ Deployed.defaultPool.FIL = 0 /\ Deployed.collSurplusPool.FIL = 0
      /\ Deployed.activePool.FIL = 0 /\ Deployed.activePool.debt = 0
      /\ ClosedAreEmpty(Deployed.Troves)
  BY DEF Deployed, EmptyPool, ClosedAreEmpty, NoTrove
<1>4. 0 * DECIMAL_PRECISION = 0
  BY PrecisionAssumption
<1>. QED
  BY <1>1, <1>2, <1>3, <1>4 DEF TrovesSummed, Holds, SurplusSummed, Covers

\* A transaction that is over has taken nothing, and nothing is saved.
LEMMA EndSumInv ==
    ASSUME SumsNow', saved' = Deployed, liquidation'.running = FALSE,
           liquidation'.totals = NoTotals, redemption'.totalFILDrawn = 0,
           redemption'.totalDebtTokenToRedeem = 0
    PROVE  SumInv'
<1>1. SumsSaved'
  BY DeployedSummed DEF SumsSaved
<1>2. Split(NoTotals)
  BY DEF NoTotals, Split
<1>. QED
  BY <1>1, <1>2 DEF SumInv, DepositsTracked, NothingTaken

\* A revert goes back to a storage in which the sums are equal.
LEMMA RevertSumInv ==
    ASSUME SumInv, Revert
    PROVE  SumInv'
<1>1. /\ Troves' = saved.Troves /\ rewardSnapshots' = saved.rewardSnapshots
      /\ totalStakes' = saved.totalStakes /\ L' = saved.L
      /\ activePool' = saved.activePool /\ defaultPool' = saved.defaultPool
      /\ collSurplusPool' = saved.collSurplusPool
      /\ liquidation' = NoLiquidation /\ redemption' = NoRedemption /\ saved' = Deployed
  BY DEF Revert
<1>2. /\ liquidation'.totals = NoTotals /\ liquidation'.running = FALSE
      /\ redemption'.totalFILDrawn = 0 /\ redemption'.totalDebtTokenToRedeem = 0
      /\ CollTaken' = 0 /\ DebtTaken' = 0 /\ liquidation'.totals.totalCollSurplus = 0
  BY <1>1 DEF NoLiquidation, NoRedemption, NoTotals, CollTaken, DebtTaken
<1>3. SumsNow'
  BY <1>1, <1>2 DEF SumsNow, SumInv, SumsSaved
<1>. QED
  BY <1>1, <1>2, <1>3, EndSumInv

-----------------------------------------------------------------------------
(* The steps of a liquidation.                                             *)

\* The division of an exact multiple.
LEMMA ExactQuotient ==
    ASSUME NEW a \in Nat, NEW b \in Nat \ {0}
    PROVE  (a * b) \div b = a /\ (0 * a) \div b = 0 /\ (a * 0) \div b = 0
  BY SMT

\* How the values of a single liquidation are split.
SplitValues(v) ==
    /\ v.entireTroveColl
         = v.collToSendToSP + v.collToRedistribute + v.collGasCompensation + v.collSurplus
    /\ v.entireTroveDebt = v.debtToOffset + v.debtToRedistribute
    /\ v.debtToOffset = 0 => v.collToSendToSP = 0
    /\ v.debtToRedistribute = 0 => v.collToRedistribute = 0

\* A single liquidation splits the whole trove, with or without the cap.
LEMMA LiquidationValuesSplit ==
    ASSUME StorageInv, LoopInv, NEW u \in Users
    PROVE  SplitValues(LiquidationValues(u))
<1>. DEFINE debt == EntireDebt(u)
            coll == EntireColl(u)
<1>1. debt \in Nat /\ coll \in Nat
  BY PendingType DEF StorageInv
<1>2. price \in Nat \ {0}
  BY DEF StorageInv, Typed
<1>3. CASE getCurrentICR(u) >= MCR
  <2>. DEFINE capped == CappedCollPortion(u)
              paid   == CollGasCompensation(capped)
  <2>1. capped \in Nat
    BY <1>1, <1>2, RatioAssumption, DivNat, TimesNat DEF CappedCollPortion
  <2>2. paid \in Nat /\ paid <= capped
    BY <2>1, QuotientLeq, PrecisionAssumption DEF CollGasCompensation
  <2>3. debt = 0 => capped = 0
    <3>1. capped = (debt * MCR) \div price
      BY DEF CappedCollPortion
    <3>2. (0 * MCR) \div price = 0
      BY <1>2, RatioAssumption, ExactQuotient
    <3>. QED
      BY <3>1, <3>2
  <2>4. /\ LiquidationValues(u).entireTroveDebt = debt
        /\ LiquidationValues(u).entireTroveColl = coll
        /\ LiquidationValues(u).collGasCompensation = paid
        /\ LiquidationValues(u).debtToOffset = debt
        /\ LiquidationValues(u).collToSendToSP = capped - paid
        /\ LiquidationValues(u).debtToRedistribute = 0
        /\ LiquidationValues(u).collToRedistribute = 0
        /\ LiquidationValues(u).collSurplus = coll - capped
    BY <1>3 DEF LiquidationValues, CappedLiquidation
  <2>. HIDE DEF paid, capped, debt, coll
  <2>. QED
    BY <1>1, <2>1, <2>2, <2>3, <2>4 DEF SplitValues
<1>4. CASE ~(getCurrentICR(u) >= MCR)
  <2>. DEFINE inPool == IF liquidation.recovery /\ getCurrentICR(u) <= _100pct
                          THEN 0 ELSE liquidation.remainingDebtTokenInStabPool
              paid        == CollGasCompensation(coll)
              toLiquidate == CollToLiquidate(u)
              toOffset    == MinOf(debt, inPool)
              toSP        == IF inPool > 0 THEN (toLiquidate * toOffset) \div debt ELSE 0
  <2>1. debt \in Nat \ {0}
    BY <1>1, <1>4, RatioAssumption DEF getCurrentICR, ComputeCR
  <2>2. inPool \in Nat
    BY DEF LoopInv, LiquidationType
  <2>3. toOffset \in Nat /\ (toOffset = 0 => inPool = 0) /\ (toOffset = debt => inPool > 0)
    BY <2>1, <2>2 DEF MinOf
  <2>4. /\ paid \in Nat /\ paid <= coll
        /\ toLiquidate = coll - paid
    BY <1>1, QuotientLeq, PrecisionAssumption DEF CollGasCompensation, CollToLiquidate
  <2>5. /\ LiquidationValues(u).entireTroveDebt = debt
        /\ LiquidationValues(u).entireTroveColl = coll
        /\ LiquidationValues(u).collGasCompensation = paid
        /\ LiquidationValues(u).debtToOffset = toOffset
        /\ LiquidationValues(u).collToSendToSP = toSP
        /\ LiquidationValues(u).debtToRedistribute = debt - toOffset
        /\ LiquidationValues(u).collToRedistribute = toLiquidate - toSP
        /\ LiquidationValues(u).collSurplus = 0
    BY <1>4 DEF LiquidationValues, FullLiquidation, OffsetAndRedistribution
  <2>. HIDE DEF inPool, paid, toLiquidate, toOffset, debt, coll
  <2>6. toSP \in Int /\ (toOffset = 0 => toSP = 0) /\ (toOffset = debt => toSP = toLiquidate)
    <3>1. toLiquidate \in Nat
      BY <1>1, <2>4
    <3>2. (toLiquidate * debt) \div debt = toLiquidate
      BY <2>1, <3>1, ExactQuotient
    <3>3. (toLiquidate * toOffset) \div debt \in Nat
      BY <2>1, <2>3, <3>1, DivNat, TimesNat
    <3>. QED
      BY <2>3, <3>1, <3>2, <3>3
  <2>. HIDE DEF toSP
  <2>. QED
    BY <1>1, <2>1, <2>3, <2>4, <2>5, <2>6 DEF SplitValues
<1>. QED
  BY <1>3, <1>4

\* Totals that are split stay so when the values of a trove are added.
LEMMA AddedSplit ==
    ASSUME NEW t \in TotalsType, Split(t), NEW v, SplitValues(v),
           v.collGasCompensation \in Nat, v.debtToOffset \in Nat, v.collToSendToSP \in Nat,
           v.debtToRedistribute \in Nat, v.collToRedistribute \in Nat, v.collSurplus \in Nat
    PROVE  Split(AddLiquidationValuesToTotals(t, v))
<1>1. /\ t.totalCollInSequence \in Nat /\ t.totalDebtInSequence \in Nat
      /\ t.totalCollGasCompensation \in Nat /\ t.totalDebtToOffset \in Nat
      /\ t.totalCollToSendToSP \in Nat /\ t.totalDebtToRedistribute \in Nat
      /\ t.totalCollToRedistribute \in Nat /\ t.totalCollSurplus \in Nat
  BY DEF TotalsType
<1>. DEFINE s == AddLiquidationValuesToTotals(t, v)
<1>2. /\ s.totalCollInSequence = t.totalCollInSequence + v.entireTroveColl
      /\ s.totalDebtInSequence = t.totalDebtInSequence + v.entireTroveDebt
      /\ s.totalCollGasCompensation = t.totalCollGasCompensation + v.collGasCompensation
      /\ s.totalDebtToOffset = t.totalDebtToOffset + v.debtToOffset
      /\ s.totalCollToSendToSP = t.totalCollToSendToSP + v.collToSendToSP
      /\ s.totalDebtToRedistribute = t.totalDebtToRedistribute + v.debtToRedistribute
      /\ s.totalCollToRedistribute = t.totalCollToRedistribute + v.collToRedistribute
      /\ s.totalCollSurplus = t.totalCollSurplus + v.collSurplus
  BY DEF AddLiquidationValuesToTotals
<1>. HIDE DEF s
<1>3. /\ v.entireTroveColl = v.collToSendToSP + v.collToRedistribute
                               + v.collGasCompensation + v.collSurplus
      /\ v.entireTroveDebt = v.debtToOffset + v.debtToRedistribute
  BY DEF SplitValues
<1>4. /\ s.totalCollInSequence = s.totalCollToSendToSP + s.totalCollToRedistribute
                                   + s.totalCollGasCompensation + s.totalCollSurplus
      /\ s.totalDebtInSequence = s.totalDebtToOffset + s.totalDebtToRedistribute
  BY <1>1, <1>2, <1>3 DEF Split
<1>5. s.totalDebtToOffset = 0 => s.totalCollToSendToSP = 0
  BY <1>1, <1>2 DEF Split, SplitValues
<1>6. s.totalDebtToRedistribute = 0 => s.totalCollToRedistribute = 0
  BY <1>1, <1>2 DEF Split, SplitValues
<1>7. Split(s)
  BY <1>4, <1>5, <1>6 DEF Split
<1>. QED
  BY <1>7 DEF s

\* An iteration that closes a trove: its collateral and debt go into the totals, its
\* surplus to the balance of its owner.
LEMMA LiquidateTroveSums ==
    ASSUME StorageInv, LoopInv, StorageInv', LoopInv', SumInv, NEW u \in Users, LiquidateTrove(u)
    PROVE  SumInv'
<1>. DEFINE v == LiquidationValues(u)
            f == getPendingFILReward(u)
            d == getPendingDebtReward(u)
            t == liquidation.totals
<1>1. /\ RemoveStakeAndCloseTrove(u, "closedByLiquidation") /\ "closedByLiquidation" \in Status
      /\ liquidation.running
      /\ activePool' = [FIL |-> activePool.FIL + f, debt |-> activePool.debt + d]
      /\ collSurplusPool' = AccountSurplus(u, v.collSurplus)
      /\ UNCHANGED <<snapshotVars, stabilityPool, saved, redemption>>
      /\ v.collSurplus >= 0
  BY DEF LiquidateTrove, NotLiquidating, Status
<1>2. /\ v.entireTroveDebt \in Nat /\ v.entireTroveColl \in Nat
      /\ v.collGasCompensation \in Nat /\ v.debtToOffset \in Nat
      /\ v.collToSendToSP \in Nat /\ v.debtToRedistribute \in Nat
      /\ v.collToRedistribute \in Nat /\ v.collSurplus \in Nat
  BY <1>1, LiquidationValuesType
<1>3. /\ v.entireTroveColl = Troves[u].coll + f
      /\ v.entireTroveDebt = Troves[u].debt + d
  BY DEF LiquidationValues, CappedLiquidation, FullLiquidation, EntireColl, EntireDebt
<1>4. SplitValues(v)
  BY LiquidationValuesSplit
<1>5. /\ f \in Nat /\ d \in Nat
      /\ f * DECIMAL_PRECISION <= OwedTo(Troves, rewardSnapshots, L)[u]
  BY PendingCovered, PendingType DEF StorageInv
<1>6. defaultPool'.FIL = defaultPool.FIL - f
  BY DEF LiquidateTrove, MovePendingTroveRewardsToActivePool
<1>7. /\ liquidation'.running
      /\ liquidation'.totals = AddLiquidationValuesToTotals(t, v)
      /\ liquidation'.remainingDebtTokenInStabPool
           = liquidation.remainingDebtTokenInStabPool - v.debtToOffset
  BY <1>1 DEF LiquidateTrove, LoopInv, LiquidationType, RemainingAfter
<1>. HIDE DEF v, f, d
<1>8. /\ liquidation'.totals.totalCollInSequence = t.totalCollInSequence + v.entireTroveColl
      /\ liquidation'.totals.totalDebtInSequence = t.totalDebtInSequence + v.entireTroveDebt
      /\ liquidation'.totals.totalCollSurplus = t.totalCollSurplus + v.collSurplus
      /\ liquidation'.totals.totalDebtToOffset = t.totalDebtToOffset + v.debtToOffset
  BY <1>7 DEF AddLiquidationValuesToTotals
<1>9. /\ t \in TotalsType /\ t.totalCollInSequence \in Nat /\ t.totalDebtInSequence \in Nat
      /\ t.totalCollSurplus \in Nat /\ t.totalDebtToOffset \in Nat
      /\ redemption.totalFILDrawn \in Nat /\ redemption.totalDebtTokenToRedeem \in Nat
      /\ CollTaken \in Nat /\ DebtTaken \in Nat
  BY TakenTypes DEF TakenTyped, TotalsType
<1>10. /\ CollTaken' = CollTaken + v.entireTroveColl
       /\ DebtTaken' = DebtTaken + v.entireTroveDebt
  BY <1>1, <1>2, <1>8, <1>9 DEF CollTaken, DebtTaken
<1>11. Moved(u) /\ Troves'[u].coll = 0 /\ Troves'[u].debt = 0
  BY <1>1, CloseMoves DEF snapshotVars
<1>12. /\ activePool'.FIL + CollTaken + Troves[u].coll
             = activePool.FIL + CollTaken' + Troves'[u].coll
       /\ activePool'.debt + DebtTaken + Troves[u].debt
             = activePool.debt + DebtTaken' + Troves'[u].debt
  <2>1. /\ Troves[u].coll \in Nat /\ Troves[u].debt \in Nat
        /\ activePool.FIL \in Nat /\ activePool.debt \in Nat
    BY TroveFields, PoolFields DEF StorageInv
  <2>2. activePool'.FIL = activePool.FIL + f /\ activePool'.debt = activePool.debt + d
    BY <1>1
  <2>. QED
    BY <1>2, <1>3, <1>5, <1>9, <1>10, <1>11, <2>1, <2>2
<1>13. SurplusSummed(collSurplusPool', liquidation'.totals.totalCollSurplus)
  <2>. DEFINE old == collSurplusPool.balances
              new == collSurplusPool'.balances
  <2>1. old \in [Users -> Nat] /\ collSurplusPool.FIL \in Nat
    BY DEF StorageInv, Typed, PoolsTyped, SurplusType
  <2>2. /\ new = [old EXCEPT ![u] = @ + v.collSurplus]
        /\ collSurplusPool'.FIL = collSurplusPool.FIL
    BY <1>1 DEF AccountSurplus, StorageInv, Typed, PoolsTyped, SurplusType
  <2>. HIDE DEF old, new
  <2>3. /\ new \in [Users -> Nat] /\ new[u] = old[u] + v.collSurplus
        /\ \A w \in Users \ {u} : new[w] = old[w]
    BY <1>2, <2>1, <2>2
  <2>4. Total(new) = (Total(old) - old[u]) + new[u] /\ Total(old) \in Nat /\ old[u] \in Nat
    BY <2>1, <2>3, TotalChange, TotalType, UsersAssumption
  <2>5. Total(old) = collSurplusPool.FIL + t.totalCollSurplus
    BY DEF SumInv, SumsNow, SurplusSummed, old
  <2>6. Total(new) = collSurplusPool'.FIL + liquidation'.totals.totalCollSurplus
    BY <1>2, <1>8, <1>9, <2>1, <2>2, <2>3, <2>4, <2>5
  <2>. QED
    BY <2>6 DEF SurplusSummed, new
<1>14. SumsNow'
  <2>1. SumsNow
    BY DEF SumInv
  <2>. QED
    BY <1>5, <1>6, <1>11, <1>12, <1>13, <2>1, OneTroveMoves
<1>15. Split(liquidation'.totals)
  <2>1. Split(t)
    BY DEF SumInv
  <2>. QED
    BY <1>2, <1>4, <1>7, <1>9, <2>1, AddedSplit
<1>16. DepositsTracked'
  <2>1. stabilityPool.deposits = liquidation.remainingDebtTokenInStabPool + t.totalDebtToOffset
    BY <1>1 DEF SumInv, DepositsTracked
  <2>2. liquidation.remainingDebtTokenInStabPool \in Nat
    BY DEF LoopInv, LiquidationType
  <2>3. stabilityPool'.deposits = liquidation'.remainingDebtTokenInStabPool
                                    + liquidation'.totals.totalDebtToOffset
    BY <1>1, <1>2, <1>7, <1>8, <1>9, <2>1, <2>2
  <2>. QED
    BY <2>3 DEF DepositsTracked
<1>17. SumsSaved' /\ NothingTaken'
  BY <1>1, <1>7 DEF SumInv, SumsSaved, NothingTaken
<1>. QED
  BY <1>14, <1>15, <1>16, <1>17 DEF SumInv

\* A trove is passed over, or the sequence stops.
LEMMA SkipSums ==
    ASSUME LoopInv, SumInv, NEW u \in Users, LeaveTrove(u) \/ StopSequence(u)
    PROVE  SumInv'
<1>1. /\ UNCHANGED <<troveVars, snapshotVars, activePool, defaultPool, collSurplusPool,
                     stabilityPool, saved, redemption>>
      /\ liquidation.running
      /\ liquidation'.running = liquidation.running
      /\ liquidation'.totals = liquidation.totals
      /\ liquidation'.remainingDebtTokenInStabPool = liquidation.remainingDebtTokenInStabPool
  BY DEF LeaveTrove, StopSequence, NotLiquidating, LoopInv, LiquidationType
<1>2. CollTaken' = CollTaken /\ DebtTaken' = DebtTaken
  BY <1>1 DEF CollTaken, DebtTaken
<1>3. SumsNow'
  <2>1. SumsNow /\ SurplusSummed(collSurplusPool', liquidation'.totals.totalCollSurplus)
    BY <1>1 DEF SumInv, SumsNow
  <2>. QED
    BY <1>1, <1>2, <2>1, SameSums
<1>. QED
  BY <1>1, <1>3 DEF SumInv, SumsSaved, DepositsTracked, NothingTaken

\* A redistribution owes the troves, with the remainder it keeps, exactly what it adds to
\* the default pool.
LEMMA RedistributedCovers ==
    ASSUME StorageInv, TrovesSummed(Troves, rewardSnapshots, totalStakes, L, defaultPool),
           totalStakes > 0, NEW debt \in Nat, NEW coll \in Nat,
           NEW pool, pool.FIL = defaultPool.FIL + coll
    PROVE  Covers(pool, Troves, rewardSnapshots, RedistributedL(debt, coll))
<1>. DEFINE numerator == coll * DECIMAL_PRECISION + L.lastFILError
            k         == numerator \div totalStakes
            remainder == numerator % totalStakes
            stakes    == StakesOf(Troves)
            old       == OwedTo(Troves, rewardSnapshots, L)
            new       == OwedTo(Troves, rewardSnapshots, RedistributedL(debt, coll))
            extra     == [u \in Users |-> k * stakes[u]]
<1>1. /\ stakes \in [Users -> Nat] /\ old \in [Users -> Nat]
      /\ L.FIL \in Nat /\ L.lastFILError \in Nat /\ totalStakes \in Nat \ {0}
  BY TermTypes DEF TermsTyped
<1>2. coll * DECIMAL_PRECISION \in Nat /\ numerator \in Nat
  <2>1. coll * DECIMAL_PRECISION \in Nat
    BY TimesNat, PrecisionAssumption
  <2>. QED
    BY <1>1, <2>1
<1>3. /\ RedistributedL(debt, coll).FIL = L.FIL + k
      /\ RedistributedL(debt, coll).lastFILError = remainder
  BY DEF RedistributedL
<1>4. k \in Nat /\ remainder \in Nat /\ k * totalStakes + remainder = numerator
  <2>. HIDE DEF numerator
  <2>. QED
    BY <1>1, <1>2, DivTimes
<1>. HIDE DEF k, remainder, stakes
<1>5. extra \in [Users -> Nat] /\ \A u \in Users : extra[u] = k * stakes[u]
  BY <1>1, <1>4, TimesNat
<1>. HIDE DEF extra
<1>6. ASSUME NEW u \in Users
      PROVE  new[u] = old[u] + extra[u]
  <2>. DEFINE s    == Troves[u].stake
              left == L.FIL - rewardSnapshots[u].FIL
  <2>1. s \in Nat /\ rewardSnapshots[u].FIL \in Nat /\ left \in Int
    BY <1>1 DEF StorageInv, Typed, TrovesTyped, TroveType, SnapshotType
  <2>2. /\ new[u] = s * ((L.FIL + k) - rewardSnapshots[u].FIL)
        /\ old[u] = s * left
        /\ extra[u] = k * s
    BY <1>3, <1>5 DEF OwedTo, stakes, StakesOf
  <2>3. (L.FIL + k) - rewardSnapshots[u].FIL = left + k
    BY <1>1, <1>4, <2>1
  <2>. HIDE DEF s, left
  <2>4. s * (left + k) = s * left + s * k /\ s * k = k * s
    BY <1>4, <2>1, TimesOver
  <2>. QED
    BY <2>2, <2>3, <2>4
<1>. HIDE DEF old, new
<1>7. new \in [Users -> Nat]
  <2>1. new = [u \in Users |-> new[u]]
    BY DEF new, OwedTo
  <2>. QED
    BY <1>1, <1>5, <1>6, <2>1
<1>8. Total(new) = Total(old) + Total(extra)
  BY <1>1, <1>5, <1>6, <1>7, TotalAdd, UsersAssumption
<1>9. Total(extra) = k * Total(stakes)
  BY <1>1, <1>4, <1>5, TotalTimes, UsersAssumption
<1>10. /\ totalStakes = Total(stakes)
       /\ Total(old) + L.lastFILError <= defaultPool.FIL * DECIMAL_PRECISION
  BY DEF TrovesSummed, Covers, stakes, old
<1>11. /\ pool.FIL * DECIMAL_PRECISION
            = defaultPool.FIL * DECIMAL_PRECISION + coll * DECIMAL_PRECISION
       /\ defaultPool.FIL * DECIMAL_PRECISION \in Nat
  <2>1. defaultPool.FIL \in Nat
    BY PoolFields DEF StorageInv
  <2>. QED
    BY <2>1, TimesOver, TimesNat, PrecisionAssumption
<1>12. Total(new) + remainder <= pool.FIL * DECIMAL_PRECISION
  <2>1. Total(old) \in Nat /\ k * totalStakes \in Nat
    BY <1>1, <1>4, TotalType, TimesNat, UsersAssumption
  <2>2. Total(new) + remainder = Total(old) + numerator
    BY <1>4, <1>8, <1>9, <1>10, <2>1
  <2>3. numerator = coll * DECIMAL_PRECISION + L.lastFILError
    OBVIOUS
  <2>. HIDE DEF numerator
  <2>. QED
    BY <1>1, <1>2, <1>10, <1>11, <2>1, <2>2, <2>3
<1>. QED
  BY <1>3, <1>12 DEF Covers, new

\* The settlement takes from the active pool what the troves it closed had recorded, and
\* puts what it redistributes into the default pool.
LEMMA SettleLiquidationSums ==
    ASSUME StorageInv, LoopInv, StorageInv', SumInv, ~redemption.running, SettleLiquidation
    PROVE  SumInv'
<1>. DEFINE t      == liquidation.totals
            offset == IF t.totalDebtToOffset = 0 THEN 0 ELSE t.totalCollToSendToSP
            redist == IF t.totalDebtToRedistribute = 0 THEN 0 ELSE t.totalCollToRedistribute
            kept   == activePool.FIL - offset - redist - t.totalCollSurplus
<1>1. /\ UNCHANGED <<troveVars, redemption>>
      /\ liquidation' = NoLiquidation /\ saved' = Deployed
      /\ activePool' = [
           FIL  |-> kept - t.totalCollGasCompensation,
           debt |-> activePool.debt - t.totalDebtToOffset - t.totalDebtToRedistribute]
      /\ defaultPool' = [FIL  |-> defaultPool.FIL + redist,
                         debt |-> defaultPool.debt + t.totalDebtToRedistribute]
      /\ collSurplusPool' = [collSurplusPool EXCEPT !.FIL = @ + t.totalCollSurplus]
      /\ L' = IF t.totalDebtToRedistribute = 0
                THEN L ELSE RedistributedL(t.totalDebtToRedistribute, t.totalCollToRedistribute)
      /\ t.totalDebtToRedistribute > 0 => totalStakes > 0
  BY DEF SettleLiquidation, NotLiquidating
<1>2. /\ t.totalDebtToOffset \in Nat /\ t.totalDebtToRedistribute \in Nat
      /\ t.totalCollToSendToSP \in Nat /\ t.totalCollToRedistribute \in Nat
      /\ t.totalCollSurplus \in Nat /\ t.totalCollGasCompensation \in Nat
      /\ t.totalCollInSequence \in Nat /\ t.totalDebtInSequence \in Nat
  BY TakenTypes DEF TakenTyped, TotalsType
<1>3. /\ t.totalCollInSequence = t.totalCollToSendToSP + t.totalCollToRedistribute
                                   + t.totalCollGasCompensation + t.totalCollSurplus
      /\ t.totalDebtInSequence = t.totalDebtToOffset + t.totalDebtToRedistribute
      /\ offset = t.totalCollToSendToSP
      /\ redist = t.totalCollToRedistribute
  BY DEF SumInv, Split
<1>4. /\ activePool.FIL \in Nat /\ activePool.debt \in Nat /\ defaultPool.FIL \in Nat
      /\ collSurplusPool.FIL \in Nat
  BY PoolFields DEF StorageInv, Typed, PoolsTyped, SurplusType
<1>5. redemption.totalFILDrawn = 0 /\ redemption.totalDebtTokenToRedeem = 0
  BY DEF SumInv, NothingTaken
<1>6. /\ NoLiquidation.totals = NoTotals /\ NoLiquidation.running = FALSE
      /\ NoTotals.totalCollInSequence = 0 /\ NoTotals.totalDebtInSequence = 0
      /\ NoTotals.totalCollSurplus = 0
  BY DEF NoLiquidation, NoTotals
<1>7. CollTaken = t.totalCollInSequence /\ DebtTaken = t.totalDebtInSequence
  BY <1>2, <1>5 DEF CollTaken, DebtTaken
<1>8. CollTaken' = 0 /\ DebtTaken' = 0
  BY <1>1, <1>5, <1>6 DEF CollTaken, DebtTaken
<1>9. Troves' = Troves /\ rewardSnapshots' = rewardSnapshots /\ totalStakes' = totalStakes
  BY <1>1 DEF troveVars
<1>10. /\ TrovesSummed(Troves, rewardSnapshots, totalStakes, L, defaultPool)
       /\ activePool.FIL = Total(CollsOf(Troves)) + t.totalCollInSequence
       /\ activePool.debt = Total(DebtsOf(Troves)) + t.totalDebtInSequence
       /\ Total(collSurplusPool.balances) = collSurplusPool.FIL + t.totalCollSurplus
  BY <1>7 DEF SumInv, SumsNow, Holds, SurplusSummed
<1>11. /\ activePool'.FIL = kept - t.totalCollGasCompensation
       /\ activePool'.debt = activePool.debt - t.totalDebtToOffset - t.totalDebtToRedistribute
       /\ defaultPool'.FIL = defaultPool.FIL + t.totalCollToRedistribute
       /\ collSurplusPool'.FIL = collSurplusPool.FIL + t.totalCollSurplus
       /\ collSurplusPool'.balances = collSurplusPool.balances
  BY <1>1, <1>3 DEF StorageInv, Typed, PoolsTyped, SurplusType
<1>12. kept = activePool.FIL - t.totalCollToSendToSP - t.totalCollToRedistribute
                - t.totalCollSurplus
  BY <1>3
<1>. HIDE DEF t, offset, redist, kept
<1>13. Total(CollsOf(Troves)) \in Nat /\ Total(DebtsOf(Troves)) \in Nat
  BY SumTypes
<1>14. Holds(activePool', Troves', CollTaken', DebtTaken')
  <2>1. activePool'.FIL = Total(CollsOf(Troves)) + 0
    BY <1>2, <1>3, <1>4, <1>10, <1>11, <1>12, <1>13
  <2>2. activePool'.debt = Total(DebtsOf(Troves)) + 0
    BY <1>2, <1>3, <1>4, <1>10, <1>11, <1>13
  <2>. QED
    BY <1>8, <1>9, <2>1, <2>2 DEF Holds
<1>15. SurplusSummed(collSurplusPool', liquidation'.totals.totalCollSurplus)
  <2>1. Total(collSurplusPool'.balances) = collSurplusPool'.FIL + 0
    BY <1>2, <1>4, <1>10, <1>11
  <2>. QED
    BY <1>1, <1>6, <2>1 DEF SurplusSummed
<1>16. Covers(defaultPool', Troves, rewardSnapshots, L')
  <2>1. CASE t.totalDebtToRedistribute = 0
    <3>1. t.totalCollToRedistribute = 0
      BY <2>1 DEF SumInv, Split, t
    <3>2. L' = L /\ defaultPool'.FIL = defaultPool.FIL
      BY <1>1, <1>4, <1>11, <2>1, <3>1
    <3>. QED
      BY <1>10, <3>2 DEF TrovesSummed, Covers
  <2>2. CASE t.totalDebtToRedistribute # 0
    <3>1. L' = RedistributedL(t.totalDebtToRedistribute, t.totalCollToRedistribute)
      BY <1>1, <2>2
    <3>2. totalStakes > 0
      BY <1>1, <1>2, <2>2
    <3>. QED
      BY <1>2, <1>10, <1>11, <3>1, <3>2, RedistributedCovers
  <2>. QED
    BY <2>1, <2>2
<1>17. SumsNow'
  BY <1>9, <1>10, <1>14, <1>15, <1>16 DEF SumsNow, TrovesSummed
<1>. QED
  BY <1>1, <1>5, <1>6, <1>17, EndSumInv

\* Any step of a liquidation.
LEMMA LiquidationStepSumInv ==
    ASSUME StorageInv, LoopInv, StorageInv', LoopInv', OneLoop, SumInv, LiquidationStep
    PROVE  SumInv'
<1>1. CASE SettleLiquidation
  <2>1. ~redemption.running
    BY <1>1 DEF OneLoop, SettleLiquidation
  <2>. QED
    BY <1>1, <2>1, SettleLiquidationSums
<1>. QED
  BY <1>1, LiquidateTroveSums, SkipSums DEF LiquidationStep

-----------------------------------------------------------------------------
(* The steps of a redemption.                                              *)

\* A list that names the active troves contains no other.
LEMMA ListedActive ==
    ASSUME StorageInv, RegInv, NEW u \in Users, Contains(sortedTroves, u)
    PROVE  IsActive(Troves, u)
<1>1. Lists(sortedTroves, ActiveIn(Troves))
  BY DEF RegInv, RegistryNow, Registered
<1>2. PICK i \in 1..Len(sortedTroves) : sortedTroves[i] = u
  BY DEF Contains, StorageInv, Typed, TrovesTyped
<1>3. u \in ActiveIn(Troves)
  BY <1>1, <1>2 DEF Lists
<1>. QED
  BY <1>3 DEF ActiveIn

\* What a lot adds to what is drawn and to the debt to redeem.
LEMMA RedeemedTaken ==
    ASSUME LoopInv, NEW u \in Users, Redeemed(u), UNCHANGED liquidation,
           DebtLot(u) \in Nat, FILLot(u) \in Nat
    PROVE  /\ CollTaken' = CollTaken + FILLot(u)
           /\ DebtTaken' = DebtTaken + DebtLot(u)
           /\ redemption'.running = redemption.running
<1>1. /\ redemption'.totalFILDrawn = redemption.totalFILDrawn + FILLot(u)
      /\ redemption'.totalDebtTokenToRedeem = redemption.totalDebtTokenToRedeem + DebtLot(u)
      /\ redemption'.running = redemption.running
  BY DEF Redeemed, LoopInv, RedemptionType
<1>2. /\ redemption.totalFILDrawn \in Nat /\ redemption.totalDebtTokenToRedeem \in Nat
      /\ liquidation.totals.totalCollInSequence \in Nat
      /\ liquidation.totals.totalDebtInSequence \in Nat
  BY TakenTypes DEF TakenTyped
<1>. QED
  BY <1>1, <1>2 DEF CollTaken, DebtTaken

\* What a step that redeems from a trove moves into the active pool, and leaves alone.
LEMMA RedeemingSums ==
    ASSUME StorageInv, LoopInv, NEW u \in Users, Redeeming(u)
    PROVE  /\ redemption.running
           /\ UNCHANGED <<snapshotVars, stabilityPool, saved, liquidation>>
           /\ defaultPool'.FIL = defaultPool.FIL - AppliedRewards(u).FIL
           /\ AppliedRewards(u).FIL * DECIMAL_PRECISION
                <= OwedTo(Troves, rewardSnapshots, L)[u]
           /\ RedeemedColl(u) = Troves[u].coll + AppliedRewards(u).FIL
           /\ RedeemedDebt(u) = Troves[u].debt + AppliedRewards(u).debt
  BY AppliedCovered
     DEF Redeeming, NotRedeeming, MovePendingTroveRewardsToActivePool, RedeemedColl, RedeemedDebt

\* An iteration changes nothing that is saved or tracked for a liquidation.
LEMMA RedeemSumInv ==
    ASSUME SumInv, SumsNow', UNCHANGED <<saved, liquidation, stabilityPool>>,
           redemption'.running
    PROVE  SumInv'
  BY DEF SumInv, SumsSaved, DepositsTracked, NothingTaken

\* The trove is closed: the reserve is burned, what is left is its owner's.
LEMMA RedeemAndCloseSums ==
    ASSUME StorageInv, LoopInv, StorageInv', LoopInv', SumInv, NEW u \in Users, RedeemAndClose(u)
    PROVE  SumInv'
<1>. DEFINE f       == AppliedRewards(u).FIL
            d       == AppliedRewards(u).debt
            coll    == RedeemedColl(u)
            debt    == RedeemedDebt(u)
            surplus == coll - FILLot(u)
<1>1. /\ Redeeming(u) /\ Redeemed(u) /\ ~LeavesDebt(u)
      /\ RemoveStakeAndCloseTrove(u, "closedByRedemption") /\ "closedByRedemption" \in Status
      /\ activePool' = [FIL |-> (activePool.FIL + f) - surplus,
                        debt |-> (activePool.debt + d) - GAS_COMPENSATION]
      /\ collSurplusPool' = [AccountSurplus(u, surplus) EXCEPT !.FIL = @ + surplus]
  BY DEF RedeemAndClose, Status
<1>2. /\ coll \in Nat /\ debt \in Nat /\ DebtLot(u) \in Nat /\ FILLot(u) \in Nat
      /\ FILLot(u) <= coll /\ f \in Nat /\ d \in Nat
  BY <1>1, LotType
<1>3. /\ redemption.running
      /\ UNCHANGED <<snapshotVars, stabilityPool, saved, liquidation>>
      /\ defaultPool'.FIL = defaultPool.FIL - f
      /\ f * DECIMAL_PRECISION <= OwedTo(Troves, rewardSnapshots, L)[u]
      /\ coll = Troves[u].coll + f /\ debt = Troves[u].debt + d
  BY <1>1, RedeemingSums
<1>4. debt - DebtLot(u) = GAS_COMPENSATION
  BY <1>1 DEF LeavesDebt
<1>. HIDE DEF f, d, coll, debt
<1>5. Moved(u) /\ Troves'[u].coll = 0 /\ Troves'[u].debt = 0
  BY <1>1, <1>3, CloseMoves DEF snapshotVars
<1>6. /\ CollTaken' = CollTaken + FILLot(u) /\ DebtTaken' = DebtTaken + DebtLot(u)
      /\ redemption'.running
      /\ CollTaken \in Nat /\ DebtTaken \in Nat
  BY <1>1, <1>2, <1>3, RedeemedTaken, TakenTypes DEF TakenTyped
<1>7. /\ activePool'.FIL + CollTaken + Troves[u].coll
           = activePool.FIL + CollTaken' + Troves'[u].coll
      /\ activePool'.debt + DebtTaken + Troves[u].debt
           = activePool.debt + DebtTaken' + Troves'[u].debt
  <2>1. /\ Troves[u].coll \in Nat /\ Troves[u].debt \in Nat
        /\ activePool.FIL \in Nat /\ activePool.debt \in Nat
    BY TroveFields, PoolFields DEF StorageInv
  <2>2. /\ activePool'.FIL = (activePool.FIL + f) - surplus
        /\ activePool'.debt = (activePool.debt + d) - GAS_COMPENSATION
    BY <1>1
  <2>3. surplus = coll - FILLot(u)
    OBVIOUS
  <2>. QED
    BY <1>2, <1>3, <1>4, <1>5, <1>6, <2>1, <2>2, <2>3
<1>8. SurplusSummed(collSurplusPool', liquidation'.totals.totalCollSurplus)
  <2>. DEFINE old == collSurplusPool.balances
              new == collSurplusPool'.balances
  <2>1. old \in [Users -> Nat] /\ collSurplusPool.FIL \in Nat /\ surplus \in Nat
    BY <1>2 DEF StorageInv, Typed, PoolsTyped, SurplusType
  <2>2. /\ new = [old EXCEPT ![u] = @ + surplus]
        /\ collSurplusPool'.FIL = collSurplusPool.FIL + surplus
    BY <1>1 DEF AccountSurplus, StorageInv, Typed, PoolsTyped, SurplusType
  <2>. HIDE DEF old, new, surplus
  <2>3. /\ new \in [Users -> Nat] /\ new[u] = old[u] + surplus
        /\ \A w \in Users \ {u} : new[w] = old[w]
    BY <2>1, <2>2
  <2>4. Total(new) = (Total(old) - old[u]) + new[u] /\ Total(old) \in Nat /\ old[u] \in Nat
    BY <2>1, <2>3, TotalChange, TotalType, UsersAssumption
  <2>5. Total(old) = collSurplusPool.FIL + liquidation.totals.totalCollSurplus
    BY DEF SumInv, SumsNow, SurplusSummed, old
  <2>6. liquidation.totals.totalCollSurplus \in Nat
    BY TakenTypes DEF TakenTyped
  <2>7. Total(new) = collSurplusPool'.FIL + liquidation.totals.totalCollSurplus
    BY <2>1, <2>2, <2>3, <2>4, <2>5, <2>6
  <2>. QED
    BY <1>3, <2>7 DEF SurplusSummed, new
<1>9. SumsNow'
  <2>1. SumsNow
    BY DEF SumInv
  <2>. QED
    BY <1>2, <1>3, <1>5, <1>7, <1>8, <2>1, OneTroveMoves
<1>. QED
  BY <1>3, <1>6, <1>9, RedeemSumInv

\* The trove keeps what the lots leave of it.
LEMMA RedeemPartiallySums ==
    ASSUME StorageInv, LoopInv, StorageInv', LoopInv', RegInv, SumInv, NEW u \in Users,
           RedeemPartially(u)
    PROVE  SumInv'
<1>. DEFINE f       == AppliedRewards(u).FIL
            d       == AppliedRewards(u).debt
            newColl == RedeemedColl(u) - FILLot(u)
            newDebt == RedeemedDebt(u) - DebtLot(u)
<1>1. /\ Redeeming(u) /\ Redeemed(u)
      /\ UpdateTrove(u, newColl, newDebt, AppliedSnapshot(u))
      /\ activePool' = [FIL |-> activePool.FIL + f, debt |-> activePool.debt + d]
      /\ UNCHANGED collSurplusPool
  BY DEF RedeemPartially
<1>2. /\ RedeemedColl(u) \in Nat /\ RedeemedDebt(u) \in Nat
      /\ DebtLot(u) \in Nat /\ FILLot(u) \in Nat /\ f \in Nat /\ d \in Nat
  BY <1>1, LotType
<1>3. /\ redemption.running
      /\ UNCHANGED <<snapshotVars, stabilityPool, saved, liquidation>>
      /\ defaultPool'.FIL = defaultPool.FIL - f
      /\ f * DECIMAL_PRECISION <= OwedTo(Troves, rewardSnapshots, L)[u]
      /\ RedeemedColl(u) = Troves[u].coll + f /\ RedeemedDebt(u) = Troves[u].debt + d
  BY <1>1, RedeemingSums
<1>4. IsActive(Troves, u)
  BY <1>1, ListedActive DEF UpdateTrove, ReInsert
<1>. HIDE DEF f, d
<1>5. Moved(u) /\ Troves'[u].coll = newColl /\ Troves'[u].debt = newDebt
  <2>. HIDE DEF newColl, newDebt
  <2>. QED
    BY <1>1, <1>3, <1>4, UpdateMoves DEF snapshotVars
<1>6. /\ CollTaken' = CollTaken + FILLot(u) /\ DebtTaken' = DebtTaken + DebtLot(u)
      /\ redemption'.running
      /\ CollTaken \in Nat /\ DebtTaken \in Nat
  BY <1>1, <1>2, <1>3, RedeemedTaken, TakenTypes DEF TakenTyped
<1>7. /\ activePool'.FIL + CollTaken + Troves[u].coll
           = activePool.FIL + CollTaken' + Troves'[u].coll
      /\ activePool'.debt + DebtTaken + Troves[u].debt
           = activePool.debt + DebtTaken' + Troves'[u].debt
  <2>1. /\ Troves[u].coll \in Nat /\ Troves[u].debt \in Nat
        /\ activePool.FIL \in Nat /\ activePool.debt \in Nat
    BY TroveFields, PoolFields DEF StorageInv
  <2>2. activePool'.FIL = activePool.FIL + f /\ activePool'.debt = activePool.debt + d
    BY <1>1
  <2>. QED
    BY <1>2, <1>3, <1>5, <1>6, <2>1, <2>2
<1>8. SumsNow
  BY DEF SumInv
<1>9. SurplusSummed(collSurplusPool', liquidation'.totals.totalCollSurplus)
  BY <1>1, <1>3, <1>8 DEF SumsNow
<1>10. SumsNow'
  BY <1>2, <1>3, <1>5, <1>7, <1>8, <1>9, OneTroveMoves
<1>. QED
  BY <1>3, <1>6, <1>10, RedeemSumInv

\* The trove keeps the rewards it was just given, and its stake.
LEMMA CancelPartialSums ==
    ASSUME StorageInv, LoopInv, StorageInv', LoopInv', SumInv, NEW u \in Users, CancelPartial(u)
    PROVE  SumInv'
<1>. DEFINE f == AppliedRewards(u).FIL
            d == AppliedRewards(u).debt
<1>1. /\ Redeeming(u)
      /\ Troves' = [Troves EXCEPT ![u].coll = RedeemedColl(u), ![u].debt = RedeemedDebt(u)]
      /\ rewardSnapshots' = [rewardSnapshots EXCEPT ![u] = AppliedSnapshot(u)]
      /\ activePool' = [FIL |-> activePool.FIL + f, debt |-> activePool.debt + d]
      /\ redemption' = [redemption EXCEPT !.todo = <<>>]
      /\ UNCHANGED <<totalStakes, collSurplusPool>>
  BY DEF CancelPartial
<1>2. /\ RedeemedColl(u) \in Nat /\ RedeemedDebt(u) \in Nat /\ f \in Nat /\ d \in Nat
  BY <1>1, LotType
<1>3. /\ redemption.running
      /\ UNCHANGED <<snapshotVars, stabilityPool, saved, liquidation>>
      /\ defaultPool'.FIL = defaultPool.FIL - f
      /\ f * DECIMAL_PRECISION <= OwedTo(Troves, rewardSnapshots, L)[u]
      /\ RedeemedColl(u) = Troves[u].coll + f /\ RedeemedDebt(u) = Troves[u].debt + d
  BY <1>1, RedeemingSums
<1>4. /\ CollTaken' = CollTaken /\ DebtTaken' = DebtTaken
      /\ redemption'.running
      /\ CollTaken \in Nat /\ DebtTaken \in Nat
  BY <1>1, <1>3, TakenTypes DEF TakenTyped, CollTaken, DebtTaken, LoopInv, RedemptionType
<1>5. /\ Troves \in [Users -> TroveType] /\ rewardSnapshots \in [Users -> SnapshotType]
      /\ L \in LType /\ rewardSnapshots[u].FIL <= L.FIL /\ totalStakes \in Nat
  BY DEF StorageInv, Typed, TrovesTyped, SnapshotsTyped, SnapshotsBehind
<1>6. /\ Troves'[u].coll = RedeemedColl(u) /\ Troves'[u].debt = RedeemedDebt(u)
      /\ Troves'[u].stake = Troves[u].stake /\ Troves'[u].status = Troves[u].status
      /\ \A v \in Users \ {u} : Troves'[v] = Troves[v] /\ rewardSnapshots'[v] = rewardSnapshots[v]
      /\ rewardSnapshots'[u] = AppliedSnapshot(u)
  BY <1>1, <1>5 DEF TroveType
<1>7. SumsNow /\ ClosedAreEmpty(Troves)
  BY DEF SumInv, SumsNow, TrovesSummed
<1>8. Moved(u)
  <2>1. CASE IsActive(Troves, u)
    <3>1. L.FIL \in Nat /\ rewardSnapshots[u].FIL \in Nat /\ Active(u)
      BY <1>5, <2>1 DEF LType, SnapshotType, Active, IsActive
    <3>2. AppliedSnapshot(u).FIL = L.FIL
      BY <1>5, <3>1 DEF AppliedSnapshot, CurrentL, hasPendingRewards
    <3>3. totalStakes = (totalStakes - Troves[u].stake) + Troves[u].stake
      BY <1>5 DEF TroveType
    <3>4. IsActive(Troves', u)
      BY <1>6, <2>1 DEF IsActive
    <3>. QED
      BY <1>1, <1>3, <1>6, <3>2, <3>3, <3>4 DEF Moved, snapshotVars
  <2>2. CASE ~IsActive(Troves, u)
    <3>1. Troves[u].stake = 0 /\ Troves[u].coll = 0 /\ Troves[u].debt = 0
      BY <1>7, <2>2 DEF ClosedAreEmpty
    <3>2. f = 0 /\ d = 0
      BY <2>2 DEF AppliedRewards, hasPendingRewards, Active, IsActive
    <3>3. Troves'[u].stake = 0 /\ Troves'[u].coll = 0 /\ Troves'[u].debt = 0
      BY <1>3, <1>6, <3>1, <3>2
    <3>. QED
      BY <1>1, <1>3, <1>5, <1>6, <3>1, <3>3 DEF Moved, snapshotVars
  <2>. QED
    BY <2>1, <2>2
<1>. HIDE DEF f, d
<1>9. /\ activePool'.FIL + CollTaken + Troves[u].coll
           = activePool.FIL + CollTaken' + Troves'[u].coll
      /\ activePool'.debt + DebtTaken + Troves[u].debt
           = activePool.debt + DebtTaken' + Troves'[u].debt
  <2>1. /\ Troves[u].coll \in Nat /\ Troves[u].debt \in Nat
        /\ activePool.FIL \in Nat /\ activePool.debt \in Nat
    BY TroveFields, PoolFields DEF StorageInv
  <2>2. activePool'.FIL = activePool.FIL + f /\ activePool'.debt = activePool.debt + d
    BY <1>1
  <2>. QED
    BY <1>2, <1>3, <1>4, <1>6, <2>1, <2>2
<1>10. SurplusSummed(collSurplusPool', liquidation'.totals.totalCollSurplus)
  BY <1>1, <1>3, <1>7 DEF SumsNow
<1>11. SumsNow'
  BY <1>2, <1>3, <1>7, <1>8, <1>9, <1>10, OneTroveMoves
<1>. QED
  BY <1>3, <1>4, <1>11, RedeemSumInv

\* The settlement takes from the active pool what the lots took from the troves.
LEMMA SettleRedemptionSums ==
    ASSUME StorageInv, LoopInv, StorageInv', SumInv, ~liquidation.running, SettleRedemption
    PROVE  SumInv'
<1>1. /\ UNCHANGED <<troveVars, snapshotVars, defaultPool, collSurplusPool, liquidation>>
      /\ redemption' = NoRedemption /\ saved' = Deployed
      /\ activePool' = [FIL  |-> activePool.FIL - redemption.totalFILDrawn,
                        debt |-> activePool.debt - redemption.totalDebtTokenToRedeem]
  BY DEF SettleRedemption, NotRedeeming
<1>2. liquidation.totals = NoTotals /\ liquidation.running = FALSE
  BY DEF SumInv, NothingTaken, LoopInv, LiquidationType
<1>3. /\ NoRedemption.totalFILDrawn = 0 /\ NoRedemption.totalDebtTokenToRedeem = 0
      /\ NoTotals.totalCollInSequence = 0 /\ NoTotals.totalDebtInSequence = 0
  BY DEF NoRedemption, NoTotals
<1>4. redemption.totalFILDrawn \in Nat /\ redemption.totalDebtTokenToRedeem \in Nat
  BY TakenTypes DEF TakenTyped
<1>5. /\ CollTaken = redemption.totalFILDrawn /\ DebtTaken = redemption.totalDebtTokenToRedeem
      /\ CollTaken' = 0 /\ DebtTaken' = 0
  BY <1>1, <1>2, <1>3, <1>4 DEF CollTaken, DebtTaken
<1>6. SumsNow
  BY DEF SumInv
<1>7. Holds(activePool', Troves', CollTaken', DebtTaken')
  <2>1. /\ activePool.FIL = Total(CollsOf(Troves)) + redemption.totalFILDrawn
        /\ activePool.debt = Total(DebtsOf(Troves)) + redemption.totalDebtTokenToRedeem
    BY <1>5, <1>6 DEF SumsNow, Holds
  <2>2. Total(CollsOf(Troves)) \in Nat /\ Total(DebtsOf(Troves)) \in Nat
    BY SumTypes
  <2>3. /\ activePool'.FIL = Total(CollsOf(Troves)) + 0
        /\ activePool'.debt = Total(DebtsOf(Troves)) + 0
    BY <1>1, <1>4, <2>1, <2>2
  <2>. QED
    BY <1>1, <1>5, <2>3 DEF Holds, troveVars
<1>8. SumsNow'
  BY <1>1, <1>6, <1>7 DEF SumsNow, troveVars, snapshotVars
<1>. QED
  BY <1>1, <1>2, <1>3, <1>8, EndSumInv

\* Any step of a redemption.
LEMMA RedemptionStepSumInv ==
    ASSUME StorageInv, LoopInv, StorageInv', LoopInv', OneLoop, RegInv, SumInv, RedemptionStep
    PROVE  SumInv'
<1>1. CASE SettleRedemption
  <2>1. ~liquidation.running
    BY <1>1 DEF OneLoop, SettleRedemption
  <2>. QED
    BY <1>1, <2>1, SettleRedemptionSums
<1>. QED
  BY <1>1, RedeemAndCloseSums, RedeemPartiallySums, CancelPartialSums DEF RedemptionStep

-----------------------------------------------------------------------------
(* The theorems.                                                           *)

\* SumInv is inductive, given the types, that one loop runs at a time, and the registers:
\* one case per disjunct of Next.
LEMMA NextSumInv ==
    ASSUME StorageInv, LoopInv, StorageInv', LoopInv', OneLoop, RegInv, SumInv, [Next]_vars
    PROVE  SumInv'
<1>1. stabilityPool.deposits \in Nat
  BY PoolFields DEF StorageInv
<1>2. ASSUME NEW troves, NEW isBatch, BeginLiquidation(troves, isBatch)
      PROVE  SumInv'
  <2>1. /\ Idle /\ saved' = Storage
        /\ UNCHANGED <<troveVars, snapshotVars, activePool, defaultPool, collSurplusPool,
                       stabilityPool, redemption>>
        /\ liquidation'.totals = NoTotals
        /\ liquidation'.remainingDebtTokenInStabPool = stabilityPool.deposits
    BY <1>2 DEF BeginLiquidation, StartTransaction, NoLiquidation
  <2>2. redemption'.totalFILDrawn = 0 /\ redemption'.totalDebtTokenToRedeem = 0
    BY <2>1 DEF SumInv, NothingTaken, Idle
  <2>. QED
    BY <1>1, <2>1, <2>2, BeginSumInv
<1>3. ASSUME NEW n, BeginSequence(n)
      PROVE  SumInv'
  BY <1>2, <1>3 DEF BeginSequence
<1>4. ASSUME NEW troveArray, BeginBatch(troveArray)
      PROVE  SumInv'
  BY <1>2, <1>4 DEF BeginBatch
<1>5. ASSUME NEW amount, NEW n, BeginRedemption(amount, n)
      PROVE  SumInv'
  <2>1. /\ Idle /\ saved' = Storage
        /\ UNCHANGED <<troveVars, snapshotVars, activePool, defaultPool, collSurplusPool,
                       stabilityPool, liquidation>>
        /\ redemption'.totalFILDrawn = 0 /\ redemption'.totalDebtTokenToRedeem = 0
    BY <1>5 DEF BeginRedemption, StartTransaction, NoRedemption
  <2>2. liquidation'.totals = NoTotals /\ ~liquidation'.running
    BY <2>1 DEF SumInv, NothingTaken, Idle
  <2>. QED
    BY <1>1, <2>1, <2>2, BeginSumInv
<1>6. CASE UNCHANGED vars
  <2>1. /\ UNCHANGED <<troveVars, snapshotVars, activePool, defaultPool, collSurplusPool,
                       stabilityPool>>
        /\ UNCHANGED loopVars
    BY <1>6 DEF vars
  <2>2. /\ CollTaken' = CollTaken /\ DebtTaken' = DebtTaken
        /\ liquidation' = liquidation /\ redemption' = redemption /\ saved' = saved
    BY <2>1, SameTaken DEF loopVars
  <2>3. SumsNow'
    BY <2>1, <2>2, SameSums DEF SumInv, SumsNow
  <2>. QED
    BY <2>1, <2>2, <2>3 DEF SumInv, SumsSaved, DepositsTracked, NothingTaken
<1>. QED
  BY <1>3, <1>4, <1>5, <1>6, BorrowerStepSumInv, OtherSumInv, LiquidationStepSumInv,
     RedemptionStepSumInv, RevertSumInv DEF Next, LoopStep

\* The sums are zero at deployment.
LEMMA InitSumInv == Init => SumInv
<1>. SUFFICES ASSUME Init PROVE SumInv
  OBVIOUS
<1>1. /\ Troves = Deployed.Troves /\ rewardSnapshots = Deployed.rewardSnapshots
      /\ totalStakes = Deployed.totalStakes /\ L = Deployed.L
      /\ activePool = Deployed.activePool /\ defaultPool = Deployed.defaultPool
      /\ collSurplusPool = Deployed.collSurplusPool
      /\ liquidation = NoLiquidation /\ redemption = NoRedemption /\ saved = Deployed
  BY DEF Init
<1>2. /\ liquidation.totals = NoTotals /\ ~liquidation.running /\ ~redemption.running
      /\ redemption.totalFILDrawn = 0 /\ redemption.totalDebtTokenToRedeem = 0
      /\ CollTaken = 0 /\ DebtTaken = 0 /\ liquidation.totals.totalCollSurplus = 0
  BY <1>1 DEF NoLiquidation, NoRedemption, NoTotals, CollTaken, DebtTaken
<1>3. SumsNow /\ SumsSaved
  BY <1>1, <1>2, DeployedSummed DEF SumsNow, SumsSaved
<1>4. Split(NoTotals)
  BY DEF NoTotals, Split
<1>. QED
  BY <1>2, <1>3, <1>4 DEF SumInv, DepositsTracked, NothingTaken

\* The inductive invariant, for every value of the constants.
THEOREM SumInvariance == Spec => [](TypeInv /\ DebtInv /\ RegInv /\ SumInv)
<1>1. TypeInv /\ RegInv /\ DebtInv /\ SumInv /\ [Next]_vars /\ TypeInv' => SumInv'
  <2>1. TypeInv' => StorageInv' /\ LoopInv'
    <3>1. TypeInv => StorageInv /\ LoopInv
      BY TypeInvParts
    <3>. QED
      BY <3>1, PTL
  <2>. QED
    BY <2>1, TypeInvParts, NextSumInv DEF DebtInv
<1>. QED
  BY <1>1, InitSumInv, RegistryInvariance, PTL DEF Spec

\* The collateral and debt in the active pool are those recorded for the troves, with what
\* a running loop has taken off them: across every path that moves rewards, closes a trove
\* or settles, and in the middle of the loops.
THEOREM ActivePoolMatches == Spec => []ActivePoolMatchesTroves
<1>1. TypeInv /\ SumInv => ActivePoolMatchesTroves
  BY TypeInvParts, SumInvImplies
<1>. QED
  BY <1>1, SumInvariance, PTL

\* totalStakes, by which every redistribution is divided, is the sum of the stakes.
THEOREM StakesAreSummed == Spec => []StakesMatch
<1>1. TypeInv /\ SumInv => StakesMatch
  BY TypeInvParts, SumInvImplies
<1>. QED
  BY <1>1, SumInvariance, PTL

\* What former owners may claim is in the surplus pool, or is about to be sent there.
THEOREM SurplusIsBacked == Spec => []SurplusBacked
<1>1. TypeInv /\ SumInv => SurplusBacked
  BY TypeInvParts, SumInvImplies
<1>. QED
  BY <1>1, SumInvariance, PTL

\* The default pool can pay every trove the collateral redistributed to it, in whatever
\* order they ask and however the divisions rounded.
THEOREM PendingIsCovered == Spec => []DefaultPoolCoversPendingFIL
<1>1. TypeInv /\ SumInv => DefaultPoolCoversPendingFIL
  BY TypeInvParts, CoversImplies
<1>. QED
  BY <1>1, SumInvariance, PTL

\* The totals are parts of what the invariants say the pools hold.
LEMMA SumInvFunds ==
    ASSUME StorageInv, LoopInv, DebtInv, RegInv, SumInv
    PROVE  SettlementFunded
<1>. DEFINE t == liquidation.totals
<1>1. /\ t.totalDebtToOffset \in Nat /\ t.totalDebtToRedistribute \in Nat
      /\ t.totalCollToSendToSP \in Nat /\ t.totalCollToRedistribute \in Nat
      /\ t.totalCollSurplus \in Nat /\ t.totalCollGasCompensation \in Nat
      /\ t.totalCollInSequence \in Nat /\ t.totalDebtInSequence \in Nat
      /\ redemption.totalFILDrawn \in Nat /\ redemption.totalDebtTokenToRedeem \in Nat
  BY TakenTypes DEF TakenTyped, TotalsType
<1>2. stabilityPool.deposits \in Nat /\ stabilityPool.deposits = balanceOf["stabilityPool"]
  BY PoolFields, DebtInvImplies DEF StorageInv, DepositsBacked
<1>3. t.totalDebtToOffset <= stabilityPool.deposits
  <2>1. CASE liquidation.running
    <3>1. /\ stabilityPool.deposits
               = liquidation.remainingDebtTokenInStabPool + t.totalDebtToOffset
          /\ liquidation.remainingDebtTokenInStabPool \in Nat
      BY <2>1 DEF SumInv, DepositsTracked, LoopInv, LiquidationType
    <3>. QED
      BY <1>1, <3>1
  <2>2. CASE ~liquidation.running
    BY <1>2, <2>2 DEF SumInv, NothingTaken, NoTotals
  <2>. QED
    BY <2>1, <2>2
<1>4. t.totalDebtGasCompensation <= balanceOf["gasPool"]
  <2>1. /\ balanceOf["gasPool"]
             = GAS_COMPENSATION * Len(TroveOwners) + t.totalDebtGasCompensation
        /\ GAS_COMPENSATION * Len(TroveOwners) \in Nat /\ t.totalDebtGasCompensation \in Nat
    BY ReserveTypes, OneReserve DEF RegInv, ReservesNow
  <2>. QED
    BY <2>1
<1>5. /\ Total(CollsOf(Troves)) \in Nat /\ Total(DebtsOf(Troves)) \in Nat
      /\ activePool.FIL = Total(CollsOf(Troves)) + (t.totalCollInSequence + redemption.totalFILDrawn)
      /\ activePool.debt
           = Total(DebtsOf(Troves)) + (t.totalDebtInSequence + redemption.totalDebtTokenToRedeem)
  BY SumTypes DEF SumInv, SumsNow, Holds, CollTaken, DebtTaken
<1>6. /\ t.totalCollInSequence = t.totalCollToSendToSP + t.totalCollToRedistribute
                                   + t.totalCollGasCompensation + t.totalCollSurplus
      /\ t.totalDebtInSequence = t.totalDebtToOffset + t.totalDebtToRedistribute
  BY DEF SumInv, Split
<1>. HIDE DEF t
<1>7. t.totalDebtToOffset + t.totalDebtToRedistribute <= activePool.debt
  BY <1>1, <1>5, <1>6
<1>8. t.totalCollToSendToSP + t.totalCollToRedistribute + t.totalCollSurplus
        + t.totalCollGasCompensation <= activePool.FIL
  BY <1>1, <1>5, <1>6
<1>. QED
  BY <1>2, <1>3, <1>4, <1>7, <1>8 DEF SettlementFunded, t

\* A liquidation can pay for its settlement at every point of its loop: no subtraction of
\* the settlement can fail, whichever troves it closed.
THEOREM SettlementIsFunded == Spec => []SettlementFunded
<1>1. TypeInv /\ DebtInv /\ RegInv /\ SumInv => SettlementFunded
  BY TypeInvParts, SumInvFunds
<1>. QED
  BY <1>1, SumInvariance, PTL

-----------------------------------------------------------------------------
(* No user trips recovery mode.                                            *)

\* Pending rewards move between the two pools of the system.
LEMMA RewardsStay ==
    ASSUME StorageInv, NEW r \in PoolType, MovePendingTroveRewardsToActivePool(r)
    PROVE  /\ defaultPool'.FIL \in Nat /\ defaultPool'.FIL = defaultPool.FIL - r.FIL
           /\ defaultPool'.debt \in Nat /\ defaultPool'.debt = defaultPool.debt - r.debt
           /\ activePool.FIL \in Nat /\ activePool.debt \in Nat
           /\ defaultPool.FIL \in Nat /\ defaultPool.debt \in Nat
           /\ r.FIL \in Nat /\ r.debt \in Nat
<1>1. /\ activePool.FIL \in Nat /\ activePool.debt \in Nat
      /\ defaultPool.FIL \in Nat /\ defaultPool.debt \in Nat
      /\ r.FIL \in Nat /\ r.debt \in Nat
  BY PoolFields DEF StorageInv, PoolType
<1>. QED
  BY <1>1 DEF MovePendingTroveRewardsToActivePool

\* A step after which the system holds a collateral and a debt that keep the TCR above CCR.
LEMMA CheckedRatio ==
    ASSUME StorageInv, price' = price, NEW coll \in Nat, NEW debt \in Nat,
           NewTCRAboveCCR(coll, debt),
           activePool'.FIL + defaultPool'.FIL = coll,
           activePool'.debt + defaultPool'.debt = debt
    PROVE  ~RecoveryMode'
<1>1. ComputeCR(coll, debt, price) \in Nat
  <2>1. price \in Nat
    BY DEF StorageInv, Typed
  <2>2. CASE debt > 0
    BY <2>1, <2>2, TimesNat, DivNat DEF ComputeCR
  <2>3. CASE ~(debt > 0)
    BY <2>3, RatioAssumption DEF ComputeCR
  <2>. QED
    BY <2>2, <2>3
<1>2. TCR' = ComputeCR(coll, debt, price)
  BY DEF TCR, getEntireSystemColl, getEntireSystemDebt, ComputeCR
<1>. QED
  BY <1>1, <1>2, RatioAssumption DEF NewTCRAboveCCR, RecoveryMode

\* A step that changes neither the price nor what the pools of the system hold.
LEMMA SameRatio ==
    ASSUME UNCHANGED <<price, activePool, defaultPool>>, ~RecoveryMode
    PROVE  ~RecoveryMode'
  BY DEF RecoveryMode, TCR, getEntireSystemColl, getEntireSystemDebt

\* openTrove adds what it checked.
LEMMA OpenTroveRatio ==
    ASSUME StorageInv, NEW u \in Users, NEW coll \in Nat, NEW amount \in Nat, NEW fee \in Nat,
           OpenTroveAtFee(u, coll, amount, fee), ~RecoveryMode
    PROVE  ~RecoveryMode'
<1>. DEFINE debt == CompositeDebt(amount + fee)
<1>1. debt \in Nat
  BY DebtAssumption DEF CompositeDebt
<1>2. /\ activePool.FIL \in Nat /\ activePool.debt \in Nat
      /\ defaultPool.FIL \in Nat /\ defaultPool.debt \in Nat
  BY PoolFields DEF StorageInv
<1>3. /\ NewTCRAboveCCR(getEntireSystemColl + coll, getEntireSystemDebt + debt)
      /\ activePool'.FIL = activePool.FIL + coll
      /\ activePool'.debt = activePool.debt + debt
      /\ UNCHANGED <<price, defaultPool>>
  BY DEF OpenTroveAtFee
<1>. HIDE DEF debt
<1>4. /\ getEntireSystemColl + coll \in Nat /\ getEntireSystemDebt + debt \in Nat
      /\ activePool'.FIL + defaultPool'.FIL = getEntireSystemColl + coll
      /\ activePool'.debt + defaultPool'.debt = getEntireSystemDebt + debt
  BY <1>1, <1>2, <1>3 DEF getEntireSystemColl, getEntireSystemDebt
<1>. QED
  BY <1>3, <1>4, CheckedRatio

\* An adjustment changes the collateral and debt of the system by what it changes those of
\* the trove, whatever the pending rewards it applies.
LEMMA AdjustedSystem ==
    ASSUME StorageInv, NEW u \in Users, NEW in \in Nat, NEW out \in Nat,
           NEW change \in Nat, NEW more \in BOOLEAN, NEW fee \in Nat,
           AdjustTroveAtFee(u, in, out, change, more, fee)
    PROVE  LET debt    == Troves[u].debt + AppliedRewards(u).debt
               newDebt == IF more THEN debt + change + fee ELSE debt - change
               sysColl == (getEntireSystemColl + in) - out
               sysDebt == (getEntireSystemDebt + newDebt) - debt
           IN  /\ price' = price
               /\ sysColl \in Nat /\ activePool'.FIL + defaultPool'.FIL = sysColl
               /\ sysDebt \in Nat /\ activePool'.debt + defaultPool'.debt = sysDebt
               /\ AppliedRewards(u).debt <= defaultPool.debt
<1>. DEFINE pending == AppliedRewards(u)
            debt    == Troves[u].debt + pending.debt
            newDebt == IF more THEN debt + change + fee ELSE debt - change
            sysColl == (getEntireSystemColl + in) - out
            sysDebt == (getEntireSystemDebt + newDebt) - debt
<1>1. pending \in PoolType /\ Troves[u].debt \in Nat
  BY AppliedType, TroveFields DEF StorageInv
<1>2. /\ MovePendingTroveRewardsToActivePool(pending)
      /\ out <= activePool.FIL + pending.FIL + in
      /\ debt <= activePool.debt + pending.debt + newDebt
      /\ activePool'.FIL = (activePool.FIL + pending.FIL + in) - out
      /\ activePool'.debt = (activePool.debt + pending.debt + newDebt) - debt
      /\ UNCHANGED price
  BY DEF AdjustTroveAtFee
<1>. HIDE DEF pending
<1>3. /\ defaultPool'.FIL \in Nat /\ defaultPool'.FIL = defaultPool.FIL - pending.FIL
      /\ defaultPool'.debt \in Nat /\ defaultPool'.debt = defaultPool.debt - pending.debt
      /\ activePool.FIL \in Nat /\ activePool.debt \in Nat
      /\ defaultPool.FIL \in Nat /\ defaultPool.debt \in Nat
      /\ pending.FIL \in Nat /\ pending.debt \in Nat
  BY <1>1, <1>2, RewardsStay
<1>4. debt \in Nat /\ newDebt \in Int
  BY <1>1, <1>3
<1>5. pending.debt <= defaultPool.debt
  BY <1>3
<1>. HIDE DEF debt, newDebt
<1>6. /\ sysColl \in Nat /\ activePool'.FIL + defaultPool'.FIL = sysColl
      /\ sysDebt \in Nat /\ activePool'.debt + defaultPool'.debt = sysDebt
  BY <1>2, <1>3, <1>4 DEF getEntireSystemColl, getEntireSystemDebt
<1>. QED
  BY <1>2, <1>5, <1>6 DEF pending, debt, newDebt

\* What it checked is what the system then has.
LEMMA AdjustTroveRatio ==
    ASSUME StorageInv, NEW u \in Users, NEW in \in Nat, NEW out \in Nat,
           NEW change \in Nat, NEW more \in BOOLEAN, AdjustTrove(u, in, out, change, more),
           ~RecoveryMode
    PROVE  ~RecoveryMode'
<1>1. PICK rate \in RatesCharged(more) :
        AdjustTroveAtFee(u, in, out, change, more, BorrowingFee(rate, change))
  BY DEF AdjustTrove
<1>. DEFINE fee     == BorrowingFee(rate, change)
            debt    == Troves[u].debt + AppliedRewards(u).debt
            newDebt == IF more THEN debt + change + fee ELSE debt - change
            sysColl == (getEntireSystemColl + in) - out
            sysDebt == (getEntireSystemDebt + newDebt) - debt
<1>2. fee \in Nat
  BY FeeType
<1>3. NewTCRAboveCCR(sysColl, sysDebt)
  BY <1>1 DEF AdjustTroveAtFee
<1>4. /\ price' = price
      /\ sysColl \in Nat /\ activePool'.FIL + defaultPool'.FIL = sysColl
      /\ sysDebt \in Nat /\ activePool'.debt + defaultPool'.debt = sysDebt
  BY <1>1, <1>2, AdjustedSystem
<1>. HIDE DEF sysColl, sysDebt
<1>. QED
  BY <1>3, <1>4, CheckedRatio

\* closeTrove takes away what it checked.
LEMMA CloseTroveRatio ==
    ASSUME StorageInv, NEW u \in Users, CloseTrove(u), ~RecoveryMode
    PROVE  ~RecoveryMode'
<1>. DEFINE pending == AppliedRewards(u)
            coll    == Troves[u].coll + pending.FIL
            debt    == Troves[u].debt + pending.debt
            sysColl == getEntireSystemColl - coll
            sysDebt == getEntireSystemDebt - debt
<1>1. pending \in PoolType /\ Troves[u].debt \in Nat /\ Troves[u].coll \in Nat
  BY AppliedType, TroveFields DEF StorageInv
<1>2. /\ NewTCRAboveCCR(sysColl, sysDebt)
      /\ MovePendingTroveRewardsToActivePool(pending)
      /\ coll <= getEntireSystemColl /\ debt <= getEntireSystemDebt
      /\ activePool'.FIL = (activePool.FIL + pending.FIL) - coll
      /\ activePool'.debt = (activePool.debt + pending.debt) - debt
      /\ UNCHANGED price
  BY DEF CloseTrove
<1>. HIDE DEF pending
<1>3. /\ defaultPool'.FIL \in Nat /\ defaultPool'.FIL = defaultPool.FIL - pending.FIL
      /\ defaultPool'.debt \in Nat /\ defaultPool'.debt = defaultPool.debt - pending.debt
      /\ activePool.FIL \in Nat /\ activePool.debt \in Nat
      /\ defaultPool.FIL \in Nat /\ defaultPool.debt \in Nat
      /\ pending.FIL \in Nat /\ pending.debt \in Nat
  BY <1>1, <1>2, RewardsStay
<1>4. coll \in Nat /\ debt \in Nat
  BY <1>1, <1>3
<1>. HIDE DEF coll, debt
<1>5. /\ sysColl \in Nat /\ activePool'.FIL + defaultPool'.FIL = sysColl
      /\ sysDebt \in Nat /\ activePool'.debt + defaultPool'.debt = sysDebt
  BY <1>2, <1>3, <1>4 DEF getEntireSystemColl, getEntireSystemDebt
<1>. QED
  BY <1>2, <1>5, CheckedRatio

\* Any transaction of a borrower.
LEMMA BorrowerStepRatio ==
    ASSUME StorageInv, BorrowerStep, ~RecoveryMode
    PROVE  ~RecoveryMode'
<1>. USE InputAssumption
<1>1. ASSUME NEW u \in Users, NEW coll \in OpenColls, NEW debt \in OpenDebts,
             OpenTrove(u, coll, debt)
      PROVE  ~RecoveryMode'
  BY <1>1, FeeType, OpenTroveRatio DEF OpenTrove
<1>2. ASSUME NEW u \in Users, NEW coll \in CollChanges, AddColl(u, coll) \/ WithdrawColl(u, coll)
      PROVE  ~RecoveryMode'
  BY <1>2, AdjustTroveRatio DEF AddColl, WithdrawColl
<1>3. ASSUME NEW u \in Users, NEW debt \in DebtChanges,
             WithdrawDebtToken(u, debt) \/ RepayDebtToken(u, debt)
      PROVE  ~RecoveryMode'
  BY <1>3, AdjustTroveRatio DEF WithdrawDebtToken, RepayDebtToken
<1>4. ASSUME NEW u \in Users, NEW coll \in CollChanges, NEW debt \in DebtChanges,
             NEW up \in BOOLEAN, NEW more \in BOOLEAN, AdjustCollAndDebt(u, coll, debt, up, more)
      PROVE  ~RecoveryMode'
  BY <1>4, AdjustTroveRatio DEF AdjustCollAndDebt
<1>5. ASSUME NEW u \in Users, WithdrawFILGainToTrove(u, stabilityPool.FIL)
      PROVE  ~RecoveryMode'
  <2>1. stabilityPool.FIL \in Nat
    BY AmountTypes DEF DepositType
  <2>2. AdjustTrove(u, stabilityPool.FIL, 0, 0, FALSE)
    BY <1>5 DEF WithdrawFILGainToTrove
  <2>. QED
    BY <2>1, <2>2, AdjustTroveRatio
<1>6. ASSUME NEW u \in Users, ClaimCollateral(u)
      PROVE  ~RecoveryMode'
  BY <1>6, SameRatio DEF ClaimCollateral
<1>. QED
  BY <1>1, <1>2, <1>3, <1>4, <1>5, <1>6, CloseTroveRatio DEF BorrowerStep

\* A step that is a whole transaction of a user is one of a borrower, a depositor or the
\* stakers.
LEMMA TransactionSteps ==
    ASSUME [Next]_vars, UserTransaction
    PROVE  BorrowerStep \/ DepositorStep \/ ClaimStakingGains
<1>1. ASSUME NEW p \in Prices, SetPrice(p)
      PROVE  FALSE
  BY <1>1 DEF SetPrice, UserTransaction
<1>2. ASSUME NEW troves, NEW isBatch, BeginLiquidation(troves, isBatch)
      PROVE  FALSE
  BY <1>2 DEF BeginLiquidation, NoLiquidation, UserTransaction, Idle
<1>3. ASSUME NEW n, BeginSequence(n)
      PROVE  FALSE
  BY <1>2, <1>3 DEF BeginSequence
<1>4. ASSUME NEW troveArray, BeginBatch(troveArray)
      PROVE  FALSE
  BY <1>2, <1>4 DEF BeginBatch
<1>5. ASSUME NEW amount, NEW n, BeginRedemption(amount, n)
      PROVE  FALSE
  BY <1>5 DEF BeginRedemption, NoRedemption, UserTransaction, Idle
<1>6. CASE LoopStep
  <2>1. UNCHANGED txs
    BY <1>6 DEF LoopStep, LiquidationStep, LiquidateTrove, LeaveTrove, StopSequence,
                SettleLiquidation, NotLiquidating, RedemptionStep, RedeemAndClose,
                RedeemPartially, CancelPartial, Redeeming, SettleRedemption, NotRedeeming
  <2>. QED
    BY <2>1 DEF UserTransaction
<1>7. CASE Revert \/ UNCHANGED vars
  BY <1>7 DEF Revert, vars, UserTransaction
<1>. QED
  BY <1>1, <1>3, <1>4, <1>5, <1>6, <1>7 DEF Next

\* None of these takes the system into recovery mode.
LEMMA NextRatio ==
    ASSUME StorageInv, [Next]_vars, UserTransaction, ~RecoveryMode
    PROVE  ~RecoveryMode'
<1>1. CASE DepositorStep \/ ClaimStakingGains
  <2>1. UNCHANGED <<price, activePool, defaultPool>>
    BY <1>1 DEF DepositorStep, ProvideToSP, WithdrawFromSP, ClaimStakingGains
  <2>. QED
    BY <2>1, SameRatio
<1>. QED
  BY <1>1, BorrowerStepRatio, TransactionSteps

-----------------------------------------------------------------------------
(* The trackers of a running sequence.                                     *)

\* Only a running liquidation tracks recovery mode.
TrackInv == RecoveryTrackersExact /\ (liquidation.recovery => liquidation.running)

\* Nothing is tracked while no liquidation runs.
LEMMA NotTracking ==
    ASSUME liquidation'.recovery = FALSE
    PROVE  TrackInv'
  BY DEF TrackInv, RecoveryTrackersExact

\* A step outside of a liquidation.
LEMMA TrackUnchanged ==
    ASSUME LoopInv, TrackInv, ~liquidation.running, UNCHANGED liquidation
    PROVE  TrackInv'
<1>1. liquidation'.recovery = FALSE
  BY DEF LoopInv, LiquidationType, TrackInv
<1>. QED
  BY <1>1, NotTracking

\* A sequence starts with the system as it is.
LEMMA BeginTrack ==
    ASSUME StorageInv, NEW troves, NEW isBatch, BeginLiquidation(troves, isBatch)
    PROVE  TrackInv'
<1>1. /\ liquidation'.running
      /\ liquidation'.entireSystemDebt = getEntireSystemDebt
      /\ liquidation'.entireSystemColl = getEntireSystemColl
      /\ liquidation'.remainingDebtTokenInStabPool = stabilityPool.deposits
      /\ liquidation'.totals = NoTotals
      /\ UNCHANGED <<activePool, defaultPool, stabilityPool>>
  BY DEF BeginLiquidation, NoLiquidation
<1>2. /\ getEntireSystemDebt \in Nat /\ getEntireSystemColl \in Nat
      /\ stabilityPool.deposits \in Nat
      /\ getEntireSystemDebt' = getEntireSystemDebt /\ getEntireSystemColl' = getEntireSystemColl
  BY <1>1, PoolFields DEF StorageInv, getEntireSystemDebt, getEntireSystemColl
<1>. QED
  BY <1>1, <1>2 DEF TrackInv, RecoveryTrackersExact, NoTotals

\* Each trove liquidated moves the trackers by what the settlement will move.
LEMMA LiquidateTroveTrack ==
    ASSUME StorageInv, LoopInv, TrackInv, NEW u \in Users, LiquidateTrove(u),
           liquidation'.recovery
    PROVE  TrackInv'
<1>. DEFINE v       == LiquidationValues(u)
            t       == liquidation.totals
            pending == [FIL |-> getPendingFILReward(u), debt |-> getPendingDebtReward(u)]
<1>1. /\ liquidation.running /\ liquidation'.running /\ liquidation.recovery
      /\ liquidation'.entireSystemDebt = liquidation.entireSystemDebt - v.debtToOffset
      /\ liquidation'.entireSystemColl = liquidation.entireSystemColl - CollLeaving(v)
      /\ liquidation'.remainingDebtTokenInStabPool
           = liquidation.remainingDebtTokenInStabPool - v.debtToOffset
      /\ liquidation'.totals = AddLiquidationValuesToTotals(t, v)
      /\ UNCHANGED stabilityPool
  BY DEF LiquidateTrove, RemainingAfter, LoopInv, LiquidationType
<1>2. /\ MovePendingTroveRewardsToActivePool(pending)
      /\ activePool'.FIL = activePool.FIL + pending.FIL
      /\ activePool'.debt = activePool.debt + pending.debt
  BY DEF LiquidateTrove
<1>3. pending \in PoolType
  BY PendingType DEF StorageInv, PoolType
<1>. HIDE DEF pending
<1>4. getEntireSystemDebt' = getEntireSystemDebt /\ getEntireSystemColl' = getEntireSystemColl
  BY <1>2, <1>3, RewardsStay DEF getEntireSystemDebt, getEntireSystemColl
<1>5. /\ liquidation.entireSystemDebt = getEntireSystemDebt - t.totalDebtToOffset
      /\ liquidation.entireSystemColl = getEntireSystemColl - t.totalCollToSendToSP
           - t.totalCollGasCompensation - t.totalCollSurplus
      /\ liquidation.remainingDebtTokenInStabPool = stabilityPool.deposits - t.totalDebtToOffset
  BY <1>1 DEF TrackInv, RecoveryTrackersExact
<1>6. /\ v.debtToOffset \in Nat /\ v.collToSendToSP \in Nat
      /\ v.collGasCompensation \in Nat /\ v.collSurplus \in Nat
  BY LiquidationValuesType DEF LiquidateTrove
<1>. HIDE DEF v
<1>7. /\ liquidation'.totals.totalDebtToOffset = t.totalDebtToOffset + v.debtToOffset
      /\ liquidation'.totals.totalCollToSendToSP = t.totalCollToSendToSP + v.collToSendToSP
      /\ liquidation'.totals.totalCollGasCompensation
           = t.totalCollGasCompensation + v.collGasCompensation
      /\ liquidation'.totals.totalCollSurplus = t.totalCollSurplus + v.collSurplus
  BY <1>1 DEF AddLiquidationValuesToTotals
<1>8. CollLeaving(v) = v.collToSendToSP + v.collGasCompensation + v.collSurplus
  BY DEF CollLeaving
<1>9. /\ t.totalDebtToOffset \in Nat /\ t.totalCollToSendToSP \in Nat
      /\ t.totalCollGasCompensation \in Nat /\ t.totalCollSurplus \in Nat
      /\ getEntireSystemDebt \in Nat /\ getEntireSystemColl \in Nat
      /\ stabilityPool.deposits \in Nat
  <2>1. /\ t.totalDebtToOffset \in Nat /\ t.totalCollToSendToSP \in Nat
        /\ t.totalCollGasCompensation \in Nat /\ t.totalCollSurplus \in Nat
    BY DEF LoopInv, LiquidationType, TotalsType
  <2>2. /\ getEntireSystemDebt \in Nat /\ getEntireSystemColl \in Nat
        /\ stabilityPool.deposits \in Nat
    BY PoolFields DEF StorageInv, getEntireSystemDebt, getEntireSystemColl
  <2>. QED
    BY <2>1, <2>2, Zenon
<1>. HIDE DEF t
<1>10. /\ liquidation'.entireSystemDebt
            = getEntireSystemDebt' - liquidation'.totals.totalDebtToOffset
       /\ liquidation'.entireSystemColl
            = getEntireSystemColl' - liquidation'.totals.totalCollToSendToSP
                - liquidation'.totals.totalCollGasCompensation
                - liquidation'.totals.totalCollSurplus
       /\ liquidation'.remainingDebtTokenInStabPool
            = stabilityPool'.deposits - liquidation'.totals.totalDebtToOffset
  BY <1>1, <1>4, <1>5, <1>6, <1>7, <1>8, <1>9
<1>. QED
  BY <1>1, <1>10 DEF TrackInv, RecoveryTrackersExact

\* TrackInv is inductive, given the types and that one loop runs at a time.
LEMMA NextTrack ==
    ASSUME StorageInv, LoopInv, OneLoop, TrackInv, [Next]_vars
    PROVE  TrackInv'
<1>1. ASSUME NEW n, BeginSequence(n)
      PROVE  TrackInv'
  BY <1>1, BeginTrack DEF BeginSequence
<1>2. ASSUME NEW troveArray, BeginBatch(troveArray)
      PROVE  TrackInv'
  BY <1>2, BeginTrack DEF BeginBatch
<1>3. ASSUME NEW amount, NEW n, BeginRedemption(amount, n)
      PROVE  TrackInv'
  BY <1>3, TrackUnchanged DEF BeginRedemption, StartTransaction, Idle
<1>4. ASSUME NEW u \in Users, LiquidateTrove(u)
      PROVE  TrackInv'
  <2>1. liquidation'.recovery \in BOOLEAN
    BY <1>4 DEF LiquidateTrove, LoopInv, LiquidationType
  <2>. QED
    BY <1>4, <2>1, LiquidateTroveTrack, NotTracking
<1>5. ASSUME NEW u \in Users, LeaveTrove(u) \/ StopSequence(u)
      PROVE  TrackInv'
  <2>1. /\ UNCHANGED <<activePool, defaultPool, stabilityPool>>
        /\ liquidation.running /\ liquidation'.running = liquidation.running
        /\ liquidation'.totals = liquidation.totals
        /\ liquidation'.entireSystemDebt = liquidation.entireSystemDebt
        /\ liquidation'.entireSystemColl = liquidation.entireSystemColl
        /\ liquidation'.remainingDebtTokenInStabPool = liquidation.remainingDebtTokenInStabPool
        /\ liquidation'.recovery => liquidation.recovery
    BY <1>5 DEF LeaveTrove, StopSequence, LoopInv, LiquidationType
  <2>. QED
    BY <2>1 DEF TrackInv, RecoveryTrackersExact, getEntireSystemDebt, getEntireSystemColl
<1>6. CASE SettleLiquidation \/ Revert
  <2>1. liquidation' = NoLiquidation
    BY <1>6 DEF SettleLiquidation, Revert
  <2>. QED
    BY <2>1, NotTracking DEF NoLiquidation
<1>7. CASE RedemptionStep
  <2>1. redemption.running /\ UNCHANGED liquidation
    BY <1>7 DEF RedemptionStep, RedeemAndClose, RedeemPartially, CancelPartial, Redeeming,
                SettleRedemption, NotRedeeming
  <2>. QED
    BY <2>1, TrackUnchanged DEF OneLoop
<1>8. CASE BorrowerStep \/ DepositorStep \/ ClaimStakingGains \/ \E p \in Prices : SetPrice(p)
  <2>1. StartTransaction /\ UNCHANGED liquidation
    <3>1. ASSUME NEW u, NEW in, NEW out, NEW debt, NEW more, AdjustTrove(u, in, out, debt, more)
          PROVE  StartTransaction /\ UNCHANGED liquidation
      BY <3>1 DEF AdjustTrove, AdjustTroveAtFee, loopVars
    <3>2. ASSUME NEW u, NEW coll, NEW debt, NEW up, NEW more,
                 \/ AddColl(u, coll) \/ WithdrawColl(u, coll)
                 \/ WithdrawDebtToken(u, debt) \/ RepayDebtToken(u, debt)
                 \/ AdjustCollAndDebt(u, coll, debt, up, more)
                 \/ WithdrawFILGainToTrove(u, coll)
          PROVE  StartTransaction /\ UNCHANGED liquidation
      BY <3>1, <3>2 DEF AddColl, WithdrawColl, WithdrawDebtToken, RepayDebtToken,
                        AdjustCollAndDebt, WithdrawFILGainToTrove
    <3>3. ASSUME NEW u, NEW coll, NEW debt, OpenTrove(u, coll, debt)
          PROVE  StartTransaction /\ UNCHANGED liquidation
      BY <3>3 DEF OpenTrove, OpenTroveAtFee, loopVars
    <3>4. ASSUME NEW u, CloseTrove(u) \/ ClaimCollateral(u)
          PROVE  StartTransaction /\ UNCHANGED liquidation
      BY <3>4 DEF CloseTrove, ClaimCollateral, loopVars
    <3>5. CASE BorrowerStep
      BY <3>2, <3>3, <3>4, <3>5 DEF BorrowerStep
    <3>. QED
      BY <1>8, <3>5 DEF DepositorStep, ProvideToSP, WithdrawFromSP, ClaimStakingGains, SetPrice,
                        loopVars
  <2>. QED
    BY <2>1, TrackUnchanged DEF StartTransaction, Idle
<1>9. CASE UNCHANGED vars
  <2>1. UNCHANGED <<liquidation, activePool, defaultPool, stabilityPool>>
    BY <1>9 DEF vars, loopVars
  <2>. QED
    BY <2>1 DEF TrackInv, RecoveryTrackersExact, getEntireSystemDebt, getEntireSystemColl
<1>. QED
  BY <1>1, <1>2, <1>3, <1>4, <1>5, <1>6, <1>7, <1>8, <1>9 DEF Next, LoopStep, LiquidationStep

-----------------------------------------------------------------------------
(* The minimum debt of a trove.                                            *)

MinDebt(troves) ==
    \A u \in Users : troves[u].status = "active" => troves[u].debt >= CompositeDebt(MIN_NET_DEBT)

MinInv == MinDebt(Troves) /\ MinDebt(saved.Troves)

\* The minimum is a number.
LEMMA MinNat == CompositeDebt(MIN_NET_DEBT) \in Nat
  BY DebtAssumption DEF CompositeDebt

\* An update that leaves enough debt.
LEMMA UpdateMin ==
    ASSUME Typed, MinDebt(Troves), NEW u \in Users, NEW coll, NEW debt, NEW snapshot,
           UpdateTrove(u, coll, debt, snapshot), debt >= CompositeDebt(MIN_NET_DEBT)
    PROVE  MinDebt(Troves')
<1>1. /\ Troves'[u].debt = debt
      /\ \A v \in Users : v # u => Troves'[v] = Troves[v]
  BY DEF UpdateTrove, Typed, TrovesTyped, TroveType
<1>. QED
  BY <1>1 DEF MinDebt

\* A trove that is closed has no minimum to keep, and the others keep their debt.
LEMMA CloseMin ==
    ASSUME Typed, MinDebt(Troves), NEW u \in Users, NEW status \in Status, status # "active",
           RemoveStakeAndCloseTrove(u, status)
    PROVE  MinDebt(Troves')
<1>1. Last(TroveOwners) \in Users
  <2>1. TroveOwners \in Seq(Users) /\ Len(TroveOwners) > 1
    BY DEF Typed, TrovesTyped, RemoveStakeAndCloseTrove, MoreThanOneTrove
  <2>. QED
    BY <2>1, FrontSeq
<1>2. /\ Troves'[u].status # "active"
      /\ \A v \in Users : v # u => Troves'[v].status = Troves[v].status
                                     /\ Troves'[v].debt = Troves[v].debt
  <2>. DEFINE last == Last(TroveOwners)
              index == Troves[u].arrayIndex
  <2>1. Troves' = [Troves EXCEPT
          ![u] = [NoTrove EXCEPT !.status = status, !.arrayIndex = index],
          ![last].arrayIndex = index]
    BY DEF RemoveStakeAndCloseTrove
  <2>2. Troves \in [Users -> TroveType]
    BY DEF Typed, TrovesTyped
  <2>. HIDE DEF last
  <2>3. last \in Users
    BY <1>1 DEF last
  <2>. QED
    BY <2>1, <2>2, <2>3 DEF NoTrove, TroveType
<1>. QED
  BY <1>2 DEF MinDebt

\* openTrove asks for the minimum, reserve excluded.
LEMMA OpenTroveMin ==
    ASSUME StorageInv, MinDebt(Troves), NEW u \in Users, NEW coll \in Nat, NEW amount \in Nat,
           NEW fee \in Nat, OpenTroveAtFee(u, coll, amount, fee)
    PROVE  MinDebt(Troves')
<1>1. /\ Troves'[u].debt = Troves[u].debt + CompositeDebt(amount + fee)
      /\ \A v \in Users : v # u => Troves'[v] = Troves[v]
  BY DEF OpenTroveAtFee, StorageInv, Typed, TrovesTyped
<1>2. amount + fee >= MIN_NET_DEBT
  BY DEF OpenTroveAtFee, AtLeastMinNetDebt
<1>3. CompositeDebt(amount + fee) >= CompositeDebt(MIN_NET_DEBT)
  BY <1>2, DebtAssumption DEF CompositeDebt
<1>4. Troves[u].debt \in Nat /\ CompositeDebt(amount + fee) \in Nat
  BY TroveFields, DebtAssumption DEF StorageInv, CompositeDebt
<1>5. Troves'[u].debt >= CompositeDebt(MIN_NET_DEBT)
  BY <1>1, <1>3, <1>4, MinNat
<1>. QED
  BY <1>1, <1>5 DEF MinDebt

\* An adjustment adds to the debt, or repays no more than leaves the minimum.
LEMMA AdjustTroveMin ==
    ASSUME StorageInv, MinDebt(Troves), NEW u \in Users, NEW in, NEW out, NEW change \in Nat,
           NEW more \in BOOLEAN, AdjustTrove(u, in, out, change, more)
    PROVE  MinDebt(Troves')
<1>1. PICK rate \in RatesCharged(more) :
        AdjustTroveAtFee(u, in, out, change, more, BorrowingFee(rate, change))
  BY DEF AdjustTrove
<1>. DEFINE fee     == BorrowingFee(rate, change)
            debt    == Troves[u].debt + AppliedRewards(u).debt
            newDebt == IF more THEN debt + change + fee ELSE debt - change
<1>2. fee \in Nat
  BY FeeType
<1>3. /\ Active(u)
      /\ (~more /\ change > 0) => AtLeastMinNetDebt(NetDebt(newDebt))
      /\ \E coll, snapshot : UpdateTrove(u, coll, newDebt, snapshot)
  BY <1>1 DEF AdjustTroveAtFee
<1>4. Troves[u].debt \in Nat /\ AppliedRewards(u).debt \in Nat
  BY TroveFields, AppliedType DEF StorageInv, PoolType
<1>5. Troves[u].debt >= CompositeDebt(MIN_NET_DEBT)
  BY <1>3 DEF MinDebt, Active
<1>. HIDE DEF fee
<1>6. debt \in Nat /\ debt >= CompositeDebt(MIN_NET_DEBT)
  BY <1>4, <1>5, MinNat
<1>. HIDE DEF debt
<1>7. newDebt >= CompositeDebt(MIN_NET_DEBT)
  <2>1. CASE more
    BY <1>2, <1>6, <2>1, MinNat
  <2>2. CASE ~more /\ change = 0
    BY <1>6, <2>2, MinNat
  <2>3. CASE ~more /\ change > 0
    <3>1. AtLeastMinNetDebt(NetDebt(debt - change))
      BY <1>3, <2>3
    <3>2. newDebt = debt - change
      BY <2>3
    <3>. QED
      BY <1>6, <3>1, <3>2, DebtAssumption DEF AtLeastMinNetDebt, NetDebt, CompositeDebt
  <2>. QED
    BY <2>1, <2>2, <2>3
<1>. HIDE DEF newDebt
<1>. QED
  BY <1>3, <1>7, UpdateMin DEF StorageInv

\* Any transaction of a borrower.
LEMMA BorrowerStepMin ==
    ASSUME StorageInv, MinDebt(Troves), BorrowerStep
    PROVE  MinDebt(Troves')
<1>. USE InputAssumption
<1>1. ASSUME NEW u \in Users, NEW coll \in OpenColls, NEW debt \in OpenDebts,
             OpenTrove(u, coll, debt)
      PROVE  MinDebt(Troves')
  BY <1>1, FeeType, OpenTroveMin DEF OpenTrove
<1>2. ASSUME NEW u \in Users, NEW coll \in CollChanges, AddColl(u, coll) \/ WithdrawColl(u, coll)
      PROVE  MinDebt(Troves')
  BY <1>2, AdjustTroveMin DEF AddColl, WithdrawColl
<1>3. ASSUME NEW u \in Users, NEW debt \in DebtChanges,
             WithdrawDebtToken(u, debt) \/ RepayDebtToken(u, debt)
      PROVE  MinDebt(Troves')
  BY <1>3, AdjustTroveMin DEF WithdrawDebtToken, RepayDebtToken
<1>4. ASSUME NEW u \in Users, NEW coll \in CollChanges, NEW debt \in DebtChanges,
             NEW up \in BOOLEAN, NEW more \in BOOLEAN, AdjustCollAndDebt(u, coll, debt, up, more)
      PROVE  MinDebt(Troves')
  BY <1>4, AdjustTroveMin DEF AdjustCollAndDebt
<1>5. ASSUME NEW u \in Users, WithdrawFILGainToTrove(u, stabilityPool.FIL)
      PROVE  MinDebt(Troves')
  BY <1>5, AdjustTroveMin DEF WithdrawFILGainToTrove
<1>6. ASSUME NEW u \in Users, CloseTrove(u)
      PROVE  MinDebt(Troves')
  <2>1. RemoveStakeAndCloseTrove(u, "closedByOwner") /\ "closedByOwner" \in Status
    BY <1>6 DEF CloseTrove, Status
  <2>. QED
    BY <2>1, CloseMin DEF StorageInv
<1>7. ASSUME NEW u \in Users, ClaimCollateral(u)
      PROVE  MinDebt(Troves')
  BY <1>7 DEF ClaimCollateral, troveVars
<1>. QED
  BY <1>1, <1>2, <1>3, <1>4, <1>5, <1>6, <1>7 DEF BorrowerStep

\* A redemption leaves a trove the minimum, closes it, or only applies its rewards.
LEMMA RedemptionStepMin ==
    ASSUME StorageInv, LoopInv, MinDebt(Troves), RedemptionStep
    PROVE  MinDebt(Troves')
<1>1. ASSUME NEW u \in Users, RedeemAndClose(u)
      PROVE  MinDebt(Troves')
  <2>1. RemoveStakeAndCloseTrove(u, "closedByRedemption") /\ "closedByRedemption" \in Status
    BY <1>1 DEF RedeemAndClose, Status
  <2>. QED
    BY <2>1, CloseMin DEF StorageInv
<1>2. ASSUME NEW u \in Users, RedeemPartially(u)
      PROVE  MinDebt(Troves')
  <2>. DEFINE newDebt == RedeemedDebt(u) - DebtLot(u)
  <2>1. /\ EnoughDebtLeft(newDebt)
        /\ UpdateTrove(u, RedeemedColl(u) - FILLot(u), newDebt, AppliedSnapshot(u))
    BY <1>2 DEF RedeemPartially
  <2>2. newDebt \in Int
    BY <1>2, LotType DEF RedeemPartially
  <2>. HIDE DEF newDebt
  <2>3. newDebt >= CompositeDebt(MIN_NET_DEBT)
    BY <2>1, <2>2, DebtAssumption DEF EnoughDebtLeft, NetDebt, CompositeDebt
  <2>. QED
    BY <2>1, <2>3, UpdateMin DEF StorageInv
<1>3. ASSUME NEW u \in Users, CancelPartial(u)
      PROVE  MinDebt(Troves')
  <2>1. Troves[u].debt \in Nat /\ RedeemedDebt(u) \in Nat /\ RedeemedDebt(u) >= Troves[u].debt
    BY TroveFields, AppliedType DEF StorageInv, RedeemedDebt, PoolType
  <2>2. /\ Troves'[u].debt = RedeemedDebt(u) /\ Troves'[u].status = Troves[u].status
        /\ \A v \in Users : v # u => Troves'[v] = Troves[v]
    BY <1>3 DEF CancelPartial, StorageInv, Typed, TrovesTyped, TroveType
  <2>. QED
    BY <2>1, <2>2, MinNat DEF MinDebt
<1>4. CASE SettleRedemption
  BY <1>4 DEF SettleRedemption, troveVars
<1>. QED
  BY <1>1, <1>2, <1>3, <1>4 DEF RedemptionStep

\* No trove of a deployed system is active.
LEMMA DeployedMin == MinDebt(Deployed.Troves)
  BY DEF Deployed, NoTrove, MinDebt

\* MinInv is inductive, given the types.
LEMMA NextMin ==
    ASSUME StorageInv, LoopInv, MinInv, [Next]_vars
    PROVE  MinInv'
<1>1. ASSUME UNCHANGED <<Troves, saved>>
      PROVE  MinInv'
  BY <1>1 DEF MinInv, MinDebt
<1>2. ASSUME MinDebt(Troves'), UNCHANGED saved \/ saved' = Deployed
      PROVE  MinInv'
  BY <1>2, DeployedMin DEF MinInv
<1>3. CASE BorrowerStep
  <2>1. UNCHANGED saved
    <3>1. ASSUME NEW u, NEW in, NEW out, NEW debt, NEW more, AdjustTrove(u, in, out, debt, more)
          PROVE  UNCHANGED saved
      BY <3>1 DEF AdjustTrove, AdjustTroveAtFee, loopVars
    <3>2. ASSUME NEW u, NEW coll, NEW debt, NEW up, NEW more,
                 \/ AddColl(u, coll) \/ WithdrawColl(u, coll)
                 \/ WithdrawDebtToken(u, debt) \/ RepayDebtToken(u, debt)
                 \/ AdjustCollAndDebt(u, coll, debt, up, more)
                 \/ WithdrawFILGainToTrove(u, coll)
          PROVE  UNCHANGED saved
      BY <3>1, <3>2 DEF AddColl, WithdrawColl, WithdrawDebtToken, RepayDebtToken,
                        AdjustCollAndDebt, WithdrawFILGainToTrove
    <3>3. ASSUME NEW u, NEW coll, NEW debt, OpenTrove(u, coll, debt)
          PROVE  UNCHANGED saved
      BY <3>3 DEF OpenTrove, OpenTroveAtFee, loopVars
    <3>4. ASSUME NEW u, CloseTrove(u) \/ ClaimCollateral(u)
          PROVE  UNCHANGED saved
      BY <3>4 DEF CloseTrove, ClaimCollateral, loopVars
    <3>. QED
      BY <1>3, <3>2, <3>3, <3>4 DEF BorrowerStep
  <2>. QED
    BY <1>2, <1>3, <2>1, BorrowerStepMin DEF MinInv
<1>4. CASE DepositorStep \/ ClaimStakingGains \/ \E p \in Prices : SetPrice(p)
  <2>1. UNCHANGED <<Troves, saved>>
    BY <1>4 DEF DepositorStep, ProvideToSP, WithdrawFromSP, ClaimStakingGains, SetPrice,
                troveVars, loopVars
  <2>. QED
    BY <1>1, <2>1
<1>5. ASSUME UNCHANGED Troves, saved' = Storage
      PROVE  MinInv'
  BY <1>5 DEF MinInv, MinDebt, Storage
<1>6. ASSUME NEW troves, NEW isBatch, BeginLiquidation(troves, isBatch)
      PROVE  MinInv'
  BY <1>5, <1>6 DEF BeginLiquidation, troveVars
<1>7. ASSUME NEW n, BeginSequence(n)
      PROVE  MinInv'
  BY <1>6, <1>7 DEF BeginSequence
<1>8. ASSUME NEW troveArray, BeginBatch(troveArray)
      PROVE  MinInv'
  BY <1>6, <1>8 DEF BeginBatch
<1>9. ASSUME NEW amount, NEW n, BeginRedemption(amount, n)
      PROVE  MinInv'
  BY <1>5, <1>9 DEF BeginRedemption, troveVars
<1>10. CASE LiquidationStep
  <2>1. ASSUME NEW u \in Users, LiquidateTrove(u)
        PROVE  MinInv'
    <3>1. RemoveStakeAndCloseTrove(u, "closedByLiquidation") /\ "closedByLiquidation" \in Status
      BY <2>1 DEF LiquidateTrove, Status
    <3>2. MinDebt(Troves')
      BY <3>1, CloseMin DEF StorageInv, MinInv
    <3>. QED
      BY <1>2, <2>1, <3>2 DEF LiquidateTrove
  <2>2. ASSUME NEW u \in Users, LeaveTrove(u) \/ StopSequence(u)
        PROVE  MinInv'
    BY <1>1, <2>2 DEF LeaveTrove, StopSequence, troveVars
  <2>3. CASE SettleLiquidation
    BY <1>2, <2>3 DEF SettleLiquidation, troveVars, MinInv
  <2>. QED
    BY <1>10, <2>1, <2>2, <2>3 DEF LiquidationStep
<1>11. CASE RedemptionStep
  <2>1. UNCHANGED saved \/ saved' = Deployed
    BY <1>11 DEF RedemptionStep, RedeemAndClose, RedeemPartially, CancelPartial, Redeeming,
                 SettleRedemption
  <2>. QED
    BY <1>2, <1>11, <2>1, RedemptionStepMin DEF MinInv
<1>12. CASE Revert
  BY <1>2, <1>12 DEF Revert, MinInv
<1>13. CASE UNCHANGED vars
  BY <1>1, <1>13 DEF vars, troveVars, loopVars
<1>. QED
  BY <1>3, <1>4, <1>7, <1>8, <1>9, <1>10, <1>11, <1>12, <1>13 DEF Next, LoopStep

-----------------------------------------------------------------------------
(* The cap on an owner's loss, and what a settlement moves.                *)

\* The body of LossIsCapped for one user.
LossCapped(u) ==
    liquidation.running /\ liquidation'.running /\ Active(u) /\ ~Active(u)'
      /\ getCurrentICR(u) >= MCR
    => /\ (EntireColl(u) - (collSurplusPool.balances[u]' - collSurplusPool.balances[u]))
            * price <= EntireDebt(u) * MCR
       /\ liquidation'.totals.totalDebtToRedistribute
            = liquidation.totals.totalDebtToRedistribute

\* A floored quotient times its divisor is at most the dividend.
LEMMA FloorLeq ==
    ASSUME NEW a \in Nat, NEW b \in Nat \ {0}
    PROVE  (a \div b) * b <= a
  BY SMT

\* The liquidation of the trove itself: the collateral it loses is the capped portion.
LEMMA LiquidateTroveCapped ==
    ASSUME StorageInv, LoopInv, NEW u \in Users, LiquidateTrove(u), getCurrentICR(u) >= MCR
    PROVE  /\ (EntireColl(u) - (collSurplusPool'.balances[u] - collSurplusPool.balances[u]))
                * price <= EntireDebt(u) * MCR
           /\ liquidation'.totals.totalDebtToRedistribute
                = liquidation.totals.totalDebtToRedistribute
<1>. DEFINE surplus == EntireColl(u) - CappedCollPortion(u)
            t       == liquidation.totals
<1>1. LiquidationValues(u) = CappedLiquidation(u)
  BY DEF LiquidationValues
<1>2. /\ CappedLiquidation(u).collSurplus = surplus
      /\ CappedLiquidation(u).debtToRedistribute = 0
  BY DEF CappedLiquidation
<1>3. /\ collSurplusPool' = AccountSurplus(u, surplus)
      /\ liquidation'.totals = AddLiquidationValuesToTotals(t, CappedLiquidation(u))
  BY <1>1, <1>2 DEF LiquidateTrove
<1>4. /\ EntireColl(u) \in Nat /\ EntireDebt(u) \in Nat /\ price \in Nat \ {0} /\ MCR \in Nat
      /\ collSurplusPool \in SurplusType /\ collSurplusPool.balances[u] \in Nat
      /\ t.totalDebtToRedistribute \in Nat
  <2>1. EntireColl(u) \in Nat /\ EntireDebt(u) \in Nat
    BY PendingType DEF StorageInv
  <2>2. price \in Nat \ {0} /\ MCR \in Nat
    BY RatioAssumption DEF StorageInv, Typed
  <2>3. collSurplusPool \in SurplusType /\ collSurplusPool.balances[u] \in Nat
    BY DEF StorageInv, Typed, PoolsTyped, SurplusType
  <2>4. t.totalDebtToRedistribute \in Nat
    BY DEF LoopInv, LiquidationType, TotalsType
  <2>. QED
    BY <2>1, <2>2, <2>3, <2>4, Zenon
<1>5. /\ EntireDebt(u) * MCR \in Nat
      /\ CappedCollPortion(u) = (EntireDebt(u) * MCR) \div price
      /\ CappedCollPortion(u) \in Nat
  BY <1>4, TimesNat, DivNat DEF CappedCollPortion
<1>6. CappedCollPortion(u) * price <= EntireDebt(u) * MCR
  BY <1>4, <1>5, FloorLeq
<1>7. collSurplusPool'.balances[u] = collSurplusPool.balances[u] + surplus
  BY <1>3, <1>4 DEF AccountSurplus, SurplusType
<1>8. EntireColl(u) - (collSurplusPool'.balances[u] - collSurplusPool.balances[u])
        = CappedCollPortion(u)
  BY <1>4, <1>5, <1>7
<1>9. liquidation'.totals.totalDebtToRedistribute = t.totalDebtToRedistribute + 0
  BY <1>2, <1>3 DEF AddLiquidationValuesToTotals
<1>. QED
  BY <1>4, <1>6, <1>8, <1>9

\* Every step caps the loss: only the liquidation of a trove closes it while one runs.
LEMMA NextCapped ==
    ASSUME StorageInv, LoopInv, OneLoop, [Next]_vars, NEW u \in Users
    PROVE  LossCapped(u)
<1>. SUFFICES ASSUME liquidation.running, liquidation'.running, Active(u), ~Active(u)',
                     getCurrentICR(u) >= MCR
              PROVE  /\ (EntireColl(u) - (collSurplusPool.balances[u]' - collSurplusPool.balances[u]))
                          * price <= EntireDebt(u) * MCR
                     /\ liquidation'.totals.totalDebtToRedistribute
                          = liquidation.totals.totalDebtToRedistribute
  BY DEF LossCapped
<1>1. Troves'[u].status # Troves[u].status
  BY DEF Active
<1>2. ASSUME StartTransaction
      PROVE  FALSE
  BY <1>2 DEF StartTransaction, Idle
<1>3. ~RedemptionStep
  BY DEF OneLoop, RedemptionStep, RedeemAndClose, RedeemPartially, CancelPartial, Redeeming,
         SettleRedemption
<1>4. ~Revert /\ ~SettleLiquidation
  BY DEF Revert, SettleLiquidation, NoLiquidation
<1>5. ASSUME NEW v \in Users, LeaveTrove(v) \/ StopSequence(v)
      PROVE  FALSE
  BY <1>1, <1>5 DEF LeaveTrove, StopSequence, troveVars
<1>6. ~(UNCHANGED vars)
  BY <1>1 DEF vars, troveVars
<1>7. ASSUME NEW v \in Users, LiquidateTrove(v), v # u
      PROVE  FALSE
  <2>1. RemoveStakeAndCloseTrove(v, "closedByLiquidation")
    BY <1>7 DEF LiquidateTrove
  <2>2. Last(TroveOwners) \in Users
    <3>1. TroveOwners \in Seq(Users) /\ Len(TroveOwners) > 1
      BY <2>1 DEF StorageInv, Typed, TrovesTyped, RemoveStakeAndCloseTrove, MoreThanOneTrove
    <3>. QED
      BY <3>1, FrontSeq
  <2>3. Troves'[u].status = Troves[u].status
    <3>. DEFINE last == Last(TroveOwners)
                index == Troves[v].arrayIndex
    <3>1. Troves' = [Troves EXCEPT
            ![v] = [NoTrove EXCEPT !.status = "closedByLiquidation", !.arrayIndex = index],
            ![last].arrayIndex = index]
      BY <2>1 DEF RemoveStakeAndCloseTrove
    <3>2. Troves \in [Users -> TroveType] /\ last \in Users
      BY <2>2 DEF StorageInv, Typed, TrovesTyped
    <3>. HIDE DEF last
    <3>. QED
      BY <1>7, <3>1, <3>2 DEF TroveType
  <2>. QED
    BY <1>1, <2>3
<1>8. ~BorrowerStep /\ ~DepositorStep /\ ~ClaimStakingGains /\ \A p \in Prices : ~SetPrice(p)
  <2>1. ASSUME NEW w, NEW in, NEW out, NEW debt, NEW more, AdjustTrove(w, in, out, debt, more)
        PROVE  FALSE
    BY <1>2, <2>1 DEF AdjustTrove, AdjustTroveAtFee
  <2>2. ASSUME NEW w, NEW coll, NEW debt, NEW up, NEW more,
               \/ AddColl(w, coll) \/ WithdrawColl(w, coll)
               \/ WithdrawDebtToken(w, debt) \/ RepayDebtToken(w, debt)
               \/ AdjustCollAndDebt(w, coll, debt, up, more)
               \/ WithdrawFILGainToTrove(w, coll)
               \/ OpenTrove(w, coll, debt) \/ CloseTrove(w) \/ ClaimCollateral(w)
        PROVE  FALSE
    BY <1>2, <2>1, <2>2
       DEF AddColl, WithdrawColl, WithdrawDebtToken, RepayDebtToken, AdjustCollAndDebt,
           WithdrawFILGainToTrove, OpenTrove, OpenTroveAtFee, CloseTrove, ClaimCollateral
  <2>3. ~BorrowerStep
    BY <2>2 DEF BorrowerStep
  <2>. QED
    BY <1>2, <2>3 DEF DepositorStep, ProvideToSP, WithdrawFromSP, ClaimStakingGains, SetPrice
<1>9. ASSUME NEW troves, NEW isBatch, BeginLiquidation(troves, isBatch)
      PROVE  FALSE
  BY <1>2, <1>9 DEF BeginLiquidation
<1>10. ASSUME NEW amount, NEW n, BeginRedemption(amount, n)
       PROVE  FALSE
  BY <1>2, <1>10 DEF BeginRedemption
<1>11. LiquidateTrove(u)
  BY <1>3, <1>4, <1>5, <1>6, <1>7, <1>8, <1>9, <1>10
     DEF Next, LoopStep, LiquidationStep, BeginSequence, BeginBatch
<1>. QED
  BY <1>11, LiquidateTroveCapped

\* The settlement moves between the pools all it takes from the active pool but the gas
\* compensation.
LEMMA SettlementMoves ==
    ASSUME StorageInv, LoopInv, SettleLiquidation
    PROVE  /\ PoolsFIL' = PoolsFIL - liquidation.totals.totalCollGasCompensation
           /\ totalCollateralSnapshot' = getEntireSystemColl'
<1>. DEFINE t      == liquidation.totals
            offset == IF t.totalDebtToOffset = 0 THEN 0 ELSE t.totalCollToSendToSP
            redist == IF t.totalDebtToRedistribute = 0 THEN 0 ELSE t.totalCollToRedistribute
            gas    == t.totalCollGasCompensation
            kept   == activePool.FIL - offset - redist - t.totalCollSurplus
<1>1. /\ t.totalCollToSendToSP \in Nat /\ t.totalCollToRedistribute \in Nat
      /\ gas \in Nat /\ t.totalCollSurplus \in Nat
  BY DEF LoopInv, LiquidationType, TotalsType
<1>2. /\ activePool.FIL \in Nat /\ defaultPool.FIL \in Nat
      /\ collSurplusPool.FIL \in Nat /\ stabilityPool.FIL \in Nat
  BY DEF StorageInv, Typed, PoolsTyped, PoolType, SurplusType, DepositType
<1>3. /\ activePool'.FIL = kept - gas
      /\ defaultPool'.FIL = defaultPool.FIL + redist
      /\ totalCollateralSnapshot' = (kept - gas) + (defaultPool.FIL + redist)
  BY DEF SettleLiquidation, CollateralSnapshot
<1>4. collSurplusPool'.FIL = collSurplusPool.FIL + t.totalCollSurplus
  BY DEF SettleLiquidation, StorageInv, Typed, PoolsTyped, SurplusType
<1>5. stabilityPool'.FIL = stabilityPool.FIL + offset
  BY <1>2 DEF SettleLiquidation, Offset
<1>6. offset \in Nat /\ redist \in Nat
  BY <1>1
<1>. HIDE DEF offset, redist, gas
<1>. QED
  BY <1>1, <1>2, <1>3, <1>4, <1>5, <1>6 DEF PoolsFIL, getEntireSystemColl, gas

-----------------------------------------------------------------------------
(* In recovery mode, no user lowers the TCR by more than the floors hide.  *)

\* A quotient is at least what the dividend is a multiple for.
LEMMA FloorAtLeast ==
    ASSUME NEW a \in Nat, NEW b \in Nat \ {0}, NEW t \in Nat, t * b <= a
    PROVE  t <= a \div b
<1>. DEFINE q == a \div b
<1>1. q \in Nat /\ a < (q + 1) * b
  BY DivNat
<1>. HIDE DEF q
<1>2. t < q + 1
  <2>1. CASE t >= q + 1
    <3>1. (q + 1) * b <= t * b
      BY <1>1, <2>1
    <3>. QED
      BY <1>1, <3>1
  <2>. QED
    BY <1>1, <2>1
<1>. QED
  BY <1>1, <1>2 DEF q

\* A ratio that fell by no more than a unit.
LEMMA WithinUnit ==
    ASSUME NEW before \in Nat, NEW after \in Nat, before <= after \/ before - 1 <= after
    PROVE  after + 1 >= before
  OBVIOUS

\* A part of the system whose ratio is at least t is added.
LEMMA PartAdded ==
    ASSUME NEW sysColl \in Nat, NEW sysDebt \in Nat, NEW coll \in Nat, NEW debt \in Nat,
           NEW p \in Nat, NEW t \in Nat, NEW n \in Nat, t <= n,
           t * sysDebt <= sysColl * p, n * debt <= coll * p
    PROVE  t * (sysDebt + debt) <= (sysColl + coll) * p
<1>1. t * debt <= n * debt /\ t * debt \in Nat /\ n * debt \in Nat /\ coll * p \in Nat
  BY TimesNat
<1>2. t * (sysDebt + debt) = t * sysDebt + t * debt /\ t * sysDebt \in Nat
  BY TimesNat
<1>3. (sysColl + coll) * p = sysColl * p + coll * p /\ sysColl * p \in Nat
  BY TimesNat
<1>. QED
  BY <1>1, <1>2, <1>3

\* A part whose ratio was below n + 1, and with more debt is at least n: the ratio of the
\* system was at least t, which is at most n, and is at least t - 1.
LEMMA PartIncreased ==
    ASSUME NEW sysColl \in Nat, NEW sysDebt \in Nat, NEW coll \in Nat, NEW debt \in Nat,
           NEW in \in Nat, NEW more \in Nat, NEW p \in Nat, NEW t \in Nat \ {0}, NEW n \in Nat,
           t <= n, debt <= sysDebt, t * sysDebt <= sysColl * p,
           coll * p <= (n + 1) * debt, n * (debt + more) <= (coll + in) * p
    PROVE  (t - 1) * (sysDebt + more) <= (sysColl + in) * p
<1>1. n * (debt + more) = n * debt + n * more /\ (n + 1) * debt = n * debt + debt
  OBVIOUS
<1>2. (coll + in) * p = coll * p + in * p /\ (sysColl + in) * p = sysColl * p + in * p
  OBVIOUS
<1>3. /\ n * debt \in Nat /\ n * more \in Nat /\ t * more \in Nat /\ t * sysDebt \in Nat
      /\ coll * p \in Nat /\ in * p \in Nat /\ sysColl * p \in Nat
  BY TimesNat
<1>4. t * more <= n * more
  OBVIOUS
<1>5. (t - 1) * (sysDebt + more) = (t * sysDebt + t * more) - (sysDebt + more)
  OBVIOUS
<1>. QED
  BY <1>1, <1>2, <1>3, <1>4, <1>5

\* The TCR is a number; below CCR the system has debt, and the TCR times it is covered.
LEMMA RatioType ==
    ASSUME StorageInv
    PROVE  /\ price \in Nat \ {0} /\ getEntireSystemColl \in Nat /\ getEntireSystemDebt \in Nat
           /\ TCR \in Nat
           /\ RecoveryMode => /\ TCR < CCR
                              /\ TCR * getEntireSystemDebt <= getEntireSystemColl * price
<1>1. price \in Nat \ {0} /\ getEntireSystemColl \in Nat /\ getEntireSystemDebt \in Nat
  BY PoolFields DEF StorageInv, Typed, getEntireSystemColl, getEntireSystemDebt
<1>2. CASE getEntireSystemDebt > 0
  <2>1. getEntireSystemColl * price \in Nat
    BY <1>1, TimesNat
  <2>2. TCR = (getEntireSystemColl * price) \div getEntireSystemDebt
    BY <1>2 DEF TCR, ComputeCR
  <2>. HIDE DEF getEntireSystemColl, getEntireSystemDebt, TCR
  <2>. QED
    BY <1>1, <1>2, <2>1, <2>2, DivNat, FloorLeq DEF RecoveryMode
<1>3. CASE ~(getEntireSystemDebt > 0)
  <2>1. TCR = MAX_UINT
    BY <1>3 DEF TCR, ComputeCR
  <2>. QED
    BY <1>1, <2>1, RatioAssumption DEF RecoveryMode
<1>. QED
  BY <1>1, <1>2, <1>3

\* A step after which the collateral covers t times the debt leaves a TCR of at least t.
LEMMA RatioAtLeast ==
    ASSUME NEW coll \in Nat, NEW debt \in Nat, NEW t \in Nat, t <= MAX_UINT, price \in Nat,
           t * debt <= coll * price, price' = price,
           activePool'.FIL + defaultPool'.FIL = coll,
           activePool'.debt + defaultPool'.debt = debt
    PROVE  TCR' \in Nat /\ t <= TCR'
<1>1. TCR' = ComputeCR(coll, debt, price)
  BY DEF TCR, getEntireSystemColl, getEntireSystemDebt, ComputeCR
<1>2. CASE debt > 0
  <2>. DEFINE worth == coll * price
  <2>1. worth \in Nat /\ TCR' = worth \div debt /\ t * debt <= worth
    BY <1>1, <1>2, TimesNat DEF ComputeCR
  <2>. HIDE DEF worth
  <2>2. debt \in Nat \ {0}
    BY <1>2
  <2>. QED
    BY <2>1, <2>2, DivNat, FloorAtLeast
<1>3. CASE ~(debt > 0)
  BY <1>1, <1>3, RatioAssumption DEF ComputeCR
<1>. QED
  BY <1>2, <1>3

\* openTrove requires a ratio of CCR for the trove alone.
LEMMA OpenTroveNotWorse ==
    ASSUME StorageInv, NEW u \in Users, NEW coll \in Nat, NEW amount \in Nat, NEW fee \in Nat,
           OpenTroveAtFee(u, coll, amount, fee), RecoveryMode
    PROVE  TCR' + 1 >= TCR
<1>. DEFINE debt    == CompositeDebt(amount + fee)
            sysColl == getEntireSystemColl
            sysDebt == getEntireSystemDebt
<1>1. debt \in Nat \ {0}
  BY DebtAssumption DEF CompositeDebt
<1>2. /\ activePool.FIL \in Nat /\ activePool.debt \in Nat
      /\ defaultPool.FIL \in Nat /\ defaultPool.debt \in Nat
  BY PoolFields DEF StorageInv
<1>3. /\ ComputeCR(coll, debt, price) >= CCR
      /\ activePool'.FIL = activePool.FIL + coll
      /\ activePool'.debt = activePool.debt + debt
      /\ UNCHANGED <<price, defaultPool>>
  BY DEF OpenTroveAtFee
<1>4. /\ activePool'.FIL + defaultPool'.FIL = sysColl + coll
      /\ activePool'.debt + defaultPool'.debt = sysDebt + debt
  <2>. HIDE DEF debt
  <2>. QED
    BY <1>1, <1>2, <1>3 DEF getEntireSystemColl, getEntireSystemDebt
<1>5. /\ price \in Nat \ {0} /\ sysColl \in Nat /\ sysDebt \in Nat /\ TCR \in Nat /\ TCR < CCR
      /\ TCR * sysDebt <= sysColl * price
  BY RatioType
<1>. HIDE DEF debt, sysColl, sysDebt
<1>6. CCR * debt <= coll * price
  <2>. DEFINE worth == coll * price
              n     == worth \div debt
  <2>1. worth \in Nat /\ ComputeCR(coll, debt, price) = n
    BY <1>1, <1>5, TimesNat DEF ComputeCR
  <2>. HIDE DEF worth
  <2>2. n \in Nat /\ n * debt <= worth
    BY <1>1, <2>1, DivNat, FloorLeq
  <2>3. n >= CCR
    BY <1>3, <2>1
  <2>. HIDE DEF n
  <2>4. CCR * debt <= n * debt /\ CCR * debt \in Nat /\ n * debt \in Nat
    BY <1>1, <2>2, <2>3, RatioAssumption, TimesNat
  <2>. QED
    BY <2>1, <2>2, <2>4 DEF worth
<1>7. TCR * (sysDebt + debt) <= (sysColl + coll) * price
  BY <1>1, <1>5, <1>6, RatioAssumption, PartAdded
<1>8. TCR <= MAX_UINT /\ sysColl + coll \in Nat /\ sysDebt + debt \in Nat
  BY <1>1, <1>5, RatioAssumption
<1>9. TCR' \in Nat /\ TCR <= TCR'
  BY <1>3, <1>4, <1>5, <1>7, <1>8, RatioAtLeast
<1>. QED
  BY <1>5, <1>9, WithinUnit

\* Between transactions the debt of a trove is a part of the active pool's.
LEMMA IdleTroveDebt ==
    ASSUME StorageInv, SumsNow, Idle, NothingTaken, NEW u \in Users
    PROVE  Troves[u].debt <= activePool.debt
<1>. DEFINE debts == DebtsOf(Troves)
<1>1. DebtTaken = 0
  BY DEF Idle, NothingTaken, NoTotals, DebtTaken
<1>2. debts \in [Users -> Nat] /\ debts[u] = Troves[u].debt
  BY TermTypes DEF TermsTyped, DebtsOf
<1>. HIDE DEF debts
<1>3. debts[u] <= Total(debts) /\ Total(debts) \in Nat
  BY <1>2, TotalChange, TotalType, UsersAssumption
<1>4. activePool.debt = Total(debts) + 0
  BY <1>1 DEF SumsNow, Holds, debts
<1>. QED
  BY <1>2, <1>3, <1>4

\* A debt increase requires a ratio of the trove that is at least CCR and not below what
\* it was; any other adjustment only adds collateral and repays debt.  The ratios compared
\* are floors, and the debt of the trove is a part of the system's.
LEMMA AdjustTroveNotWorse ==
    ASSUME StorageInv, SumsNow, MinDebt(Troves), Idle, NothingTaken,
           NEW u \in Users, NEW in \in Nat, NEW out \in Nat,
           NEW change \in Nat, NEW more \in BOOLEAN, AdjustTrove(u, in, out, change, more),
           RecoveryMode
    PROVE  TCR' + 1 >= TCR
<1>1. PICK rate \in RatesCharged(more) :
        AdjustTroveAtFee(u, in, out, change, more, BorrowingFee(rate, change))
  BY DEF AdjustTrove
<1>. DEFINE fee     == BorrowingFee(rate, change)
            pending == AppliedRewards(u)
            coll    == Troves[u].coll + pending.FIL
            debt    == Troves[u].debt + pending.debt
            newDebt == IF more THEN debt + change + fee ELSE debt - change
            sysColl == getEntireSystemColl
            sysDebt == getEntireSystemDebt
            oldICR  == ComputeCR(coll, debt, price)
            newICR  == ComputeCR((coll + in) - out, newDebt, price)
<1>2. fee \in Nat
  BY FeeType
<1>3. /\ pending.FIL \in Nat /\ pending.debt \in Nat
      /\ Troves[u].debt \in Nat /\ Troves[u].coll \in Nat
  BY AppliedType, TroveFields DEF StorageInv, PoolType
<1>4. /\ Active(u)
      /\ out = 0 /\ (more => newICR >= CCR /\ newICR >= oldICR)
  BY <1>1 DEF AdjustTroveAtFee, ValidRecoveryAdjustment
<1>5. /\ price' = price
      /\ (sysColl + in) - out \in Nat
      /\ activePool'.FIL + defaultPool'.FIL = (sysColl + in) - out
      /\ (sysDebt + newDebt) - debt \in Nat
      /\ activePool'.debt + defaultPool'.debt = (sysDebt + newDebt) - debt
  BY <1>1, <1>2, AdjustedSystem
<1>6. pending.debt <= defaultPool.debt
  BY <1>1, <1>2, AdjustedSystem
<1>7. /\ price \in Nat \ {0} /\ sysColl \in Nat /\ sysDebt \in Nat /\ TCR \in Nat /\ TCR < CCR
      /\ TCR * sysDebt <= sysColl * price
  BY RatioType
<1>8. TCR <= MAX_UINT /\ CCR \in Nat
  BY <1>7, RatioAssumption
<1>9. debt \in Nat \ {0} /\ coll \in Nat
  <2>1. Troves[u].debt >= CompositeDebt(MIN_NET_DEBT)
    BY <1>4 DEF MinDebt, Active
  <2>. QED
    BY <1>3, <2>1, DebtAssumption DEF CompositeDebt
<1>10. debt <= sysDebt
  <2>1. Troves[u].debt <= activePool.debt
    BY IdleTroveDebt
  <2>. HIDE DEF pending
  <2>2. activePool.debt \in Nat /\ defaultPool.debt \in Nat
    BY PoolFields DEF StorageInv
  <2>. QED
    BY <1>3, <1>6, <2>1, <2>2 DEF getEntireSystemDebt
<1>. HIDE DEF fee, pending, coll, debt, sysColl, sysDebt
<1>11. CASE ~more
  <2>. DEFINE left == (sysDebt + newDebt) - debt
  <2>1. left \in Nat /\ left <= sysDebt /\ (sysColl + in) - out = sysColl + in
    BY <1>4, <1>5, <1>7, <1>9, <1>11
  <2>. HIDE DEF left
  <2>2. TCR * left <= TCR * sysDebt /\ sysColl * price <= (sysColl + in) * price
    BY <1>7, <2>1
  <2>3. /\ TCR * left \in Nat /\ TCR * sysDebt \in Nat /\ sysColl * price \in Nat
        /\ (sysColl + in) * price \in Nat /\ sysColl + in \in Nat
    BY <1>7, <2>1, TimesNat
  <2>4. TCR * left <= (sysColl + in) * price
    BY <1>7, <2>2, <2>3
  <2>5. /\ activePool'.FIL + defaultPool'.FIL = sysColl + in
        /\ activePool'.debt + defaultPool'.debt = left
    BY <1>5, <2>1 DEF left
  <2>6. TCR' \in Nat /\ TCR <= TCR'
    BY <1>5, <1>7, <1>8, <2>1, <2>3, <2>4, <2>5, RatioAtLeast
  <2>. QED
    BY <1>7, <2>6, WithinUnit
<1>12. CASE more
  <2>. DEFINE rise  == change + fee
              n     == newICR
              worth == (coll + in) * price
  <2>1. rise \in Nat /\ newDebt = debt + rise /\ (coll + in) - out = coll + in
    BY <1>2, <1>4, <1>9, <1>12
  <2>2. /\ activePool'.FIL + defaultPool'.FIL = sysColl + in
        /\ activePool'.debt + defaultPool'.debt = sysDebt + rise
        /\ sysColl + in \in Nat /\ sysDebt + rise \in Nat
    <3>. HIDE DEF rise
    <3>. QED
      BY <1>4, <1>5, <1>7, <1>9, <2>1
  <2>. HIDE DEF rise
  <2>3. worth \in Nat /\ debt + rise \in Nat \ {0}
    BY <1>7, <1>9, <2>1, TimesNat
  <2>4. n = worth \div (debt + rise)
    BY <2>1, <2>3 DEF ComputeCR
  <2>. HIDE DEF n, newDebt, worth
  <2>5. n \in Nat /\ n * (debt + rise) <= worth
    BY <2>3, <2>4, DivNat, FloorLeq
  <2>6. TCR <= n
    BY <1>4, <1>7, <1>8, <1>12, <2>5 DEF n
  <2>7. coll * price <= (n + 1) * debt
    <3>. DEFINE old == coll * price
    <3>1. old \in Nat /\ oldICR = old \div debt
      BY <1>7, <1>9, TimesNat DEF ComputeCR
    <3>. HIDE DEF old
    <3>2. old \div debt \in Nat /\ old <= (old \div debt + 1) * debt
      BY <1>9, <3>1, DivNat
    <3>3. old \div debt <= n
      BY <1>4, <1>12, <3>1 DEF n
    <3>. DEFINE m == old \div debt
    <3>. HIDE DEF m
    <3>4. (m + 1) * debt <= (n + 1) * debt /\ (m + 1) * debt \in Nat /\ (n + 1) * debt \in Nat
      <4>1. m + 1 \in Nat /\ n + 1 \in Nat /\ m + 1 <= n + 1
        BY <2>5, <3>2, <3>3 DEF m
      <4>. QED
        BY <1>9, <4>1, TimesNat
    <3>. QED
      BY <3>1, <3>2, <3>4 DEF old, m
  <2>8. CASE TCR = 0
    <3>1. 0 * (sysDebt + rise) <= (sysColl + in) * price
      BY <1>7, <2>2, TimesNat
    <3>2. TCR' \in Nat /\ TCR <= TCR'
      BY <1>5, <1>7, <1>8, <2>2, <2>8, <3>1, RatioAtLeast
    <3>. QED
      BY <1>7, <3>2, WithinUnit
  <2>9. CASE TCR # 0
    <3>1. (TCR - 1) * (sysDebt + rise) <= (sysColl + in) * price
      BY <1>7, <1>9, <1>10, <2>1, <2>5, <2>6, <2>7, <2>9, PartIncreased DEF worth
    <3>2. TCR - 1 \in Nat /\ TCR - 1 <= MAX_UINT
      BY <1>7, <1>8, <2>9, RatioAssumption
    <3>3. TCR' \in Nat /\ TCR - 1 <= TCR'
      BY <1>5, <1>7, <2>2, <3>1, <3>2, RatioAtLeast
    <3>. QED
      BY <1>7, <3>3, WithinUnit
  <2>. QED
    BY <2>8, <2>9
<1>. QED
  BY <1>11, <1>12

\* A step that changes neither the price nor what the pools of the system hold.
LEMMA SameRatioKept ==
    ASSUME StorageInv, UNCHANGED <<price, activePool, defaultPool>>
    PROVE  TCR' + 1 >= TCR
<1>1. TCR' = TCR /\ TCR \in Nat
  BY RatioType DEF TCR, getEntireSystemColl, getEntireSystemDebt
<1>2. TCR <= TCR' /\ TCR' \in Nat
  BY <1>1
<1>. QED
  BY <1>1, <1>2, WithinUnit

\* Any transaction of a borrower: closing a trove is refused in recovery mode.
LEMMA BorrowerStepNotWorse ==
    ASSUME StorageInv, SumsNow, MinDebt(Troves), Idle, NothingTaken, BorrowerStep, RecoveryMode
    PROVE  TCR' + 1 >= TCR
<1>. USE InputAssumption
<1>1. ASSUME NEW u \in Users, NEW coll \in OpenColls, NEW debt \in OpenDebts,
             OpenTrove(u, coll, debt)
      PROVE  TCR' + 1 >= TCR
  BY <1>1, FeeType, OpenTroveNotWorse DEF OpenTrove
<1>2. ASSUME NEW u \in Users, NEW coll \in CollChanges, AddColl(u, coll) \/ WithdrawColl(u, coll)
      PROVE  TCR' + 1 >= TCR
  BY <1>2, AdjustTroveNotWorse DEF AddColl, WithdrawColl
<1>3. ASSUME NEW u \in Users, NEW debt \in DebtChanges,
             WithdrawDebtToken(u, debt) \/ RepayDebtToken(u, debt)
      PROVE  TCR' + 1 >= TCR
  BY <1>3, AdjustTroveNotWorse DEF WithdrawDebtToken, RepayDebtToken
<1>4. ASSUME NEW u \in Users, NEW coll \in CollChanges, NEW debt \in DebtChanges,
             NEW up \in BOOLEAN, NEW more \in BOOLEAN, AdjustCollAndDebt(u, coll, debt, up, more)
      PROVE  TCR' + 1 >= TCR
  BY <1>4, AdjustTroveNotWorse DEF AdjustCollAndDebt
<1>5. ASSUME NEW u \in Users, WithdrawFILGainToTrove(u, stabilityPool.FIL)
      PROVE  TCR' + 1 >= TCR
  <2>1. stabilityPool.FIL \in Nat
    BY AmountTypes DEF DepositType
  <2>2. AdjustTrove(u, stabilityPool.FIL, 0, 0, FALSE)
    BY <1>5 DEF WithdrawFILGainToTrove
  <2>. QED
    BY <2>1, <2>2, AdjustTroveNotWorse
<1>6. ASSUME NEW u \in Users, ClaimCollateral(u)
      PROVE  TCR' + 1 >= TCR
  BY <1>6, SameRatioKept DEF ClaimCollateral
<1>7. ASSUME NEW u \in Users, CloseTrove(u)
      PROVE  FALSE
  BY <1>7 DEF CloseTrove
<1>. QED
  BY <1>1, <1>2, <1>3, <1>4, <1>5, <1>6, <1>7 DEF BorrowerStep

\* A borrower's transaction begins between two loops.
LEMMA BorrowerStartsIdle ==
    ASSUME BorrowerStep
    PROVE  Idle
<1>1. ASSUME NEW u \in Users, NEW in, NEW out, NEW change, NEW more,
             AdjustTrove(u, in, out, change, more)
      PROVE  Idle
  BY <1>1 DEF AdjustTrove, AdjustTroveAtFee, StartTransaction
<1>2. ASSUME NEW u \in Users, NEW coll, NEW debt, OpenTrove(u, coll, debt)
      PROVE  Idle
  BY <1>2 DEF OpenTrove, OpenTroveAtFee, StartTransaction
<1>3. ASSUME NEW u \in Users, NEW coll, AddColl(u, coll) \/ WithdrawColl(u, coll)
      PROVE  Idle
  BY <1>1, <1>3 DEF AddColl, WithdrawColl
<1>4. ASSUME NEW u \in Users, NEW debt, WithdrawDebtToken(u, debt) \/ RepayDebtToken(u, debt)
      PROVE  Idle
  BY <1>1, <1>4 DEF WithdrawDebtToken, RepayDebtToken
<1>5. ASSUME NEW u \in Users, NEW coll, NEW debt, NEW up, NEW more,
             AdjustCollAndDebt(u, coll, debt, up, more)
      PROVE  Idle
  BY <1>1, <1>5 DEF AdjustCollAndDebt
<1>6. ASSUME NEW u \in Users, CloseTrove(u) \/ ClaimCollateral(u)
      PROVE  Idle
  BY <1>6 DEF CloseTrove, ClaimCollateral, StartTransaction
<1>7. ASSUME NEW u \in Users, WithdrawFILGainToTrove(u, stabilityPool.FIL)
      PROVE  Idle
  BY <1>1, <1>7 DEF WithdrawFILGainToTrove
<1>. QED
  BY <1>2, <1>3, <1>4, <1>5, <1>6, <1>7 DEF BorrowerStep

\* Every step that is a whole transaction of a borrower or depositor is one of these.
LEMMA NextNotWorse ==
    ASSUME StorageInv, SumsNow, MinDebt(Troves), NothingTaken, [Next]_vars,
           UserTransaction, RecoveryMode
    PROVE  TCR' + 1 >= TCR
<1>1. CASE BorrowerStep
  <2>1. Idle
    BY <1>1, BorrowerStartsIdle
  <2>. QED
    BY <1>1, <2>1, BorrowerStepNotWorse
<1>2. CASE DepositorStep \/ ClaimStakingGains
  <2>1. UNCHANGED <<price, activePool, defaultPool>>
    BY <1>2 DEF DepositorStep, ProvideToSP, WithdrawFromSP, ClaimStakingGains
  <2>. QED
    BY <2>1, SameRatioKept
<1>. QED
  BY <1>1, <1>2, TransactionSteps

-----------------------------------------------------------------------------
(* The theorems.                                                           *)

LimitInv == TrackInv /\ MinInv

\* The inductive invariant, for every value of the constants.
THEOREM LimitInvariance == Spec => [](TypeInv /\ DebtInv /\ LimitInv)
<1>1. Init => TypeInv /\ DebtInv /\ LimitInv
  <2>1. Init => LimitInv
    BY DeployedMin DEF Init, NoLiquidation, LimitInv, TrackInv, RecoveryTrackersExact, MinInv
  <2>. QED
    BY <2>1, InitTypeInv, InitDebtInv
<1>2. TypeInv /\ DebtInv /\ LimitInv /\ [Next]_vars => (TypeInv /\ DebtInv /\ LimitInv)'
  BY NextTypeInv, NextDebtInv, NextTrack, NextMin, TypeInvParts DEF DebtInv, LimitInv
<1>. QED
  BY <1>1, <1>2, PTL DEF Spec

\* No opening, adjustment, closing, claim, deposit or withdrawal takes the system from
\* normal into recovery mode: the TCR the code computes before it moves anything is the one
\* the pools have after, pending rewards applied on the way included.
THEOREM RecoveryNotTripped == Spec => UsersCannotTripRecovery
<1>1. TypeInv /\ [Next]_vars => [UserTransaction /\ ~RecoveryMode => ~RecoveryMode']_vars
  BY NextRatio, TypeInvParts
<1>. QED
  BY <1>1, TypeInvariance, PTL DEF Spec, UsersCannotTripRecovery

\* In recovery mode nothing users do lowers the TCR by more than one unit of its precision,
\* whatever the amounts: a debt increase is checked by floored ratios of the trove, whose
\* debt is a part of the system's.
THEOREM RecoveryDoesNotWorsen == Spec => RecoveryNeverWorsens
<1>1. TypeInv /\ SumInv /\ LimitInv /\ [Next]_vars
        => [UserTransaction /\ RecoveryMode => TCR' + 1 >= TCR]_vars
  BY NextNotWorse, TypeInvParts DEF SumInv, LimitInv, MinInv
<1>. QED
  BY <1>1, SumInvariance, LimitInvariance, PTL DEF Spec, RecoveryNeverWorsens

\* While a sequence is in recovery mode, the collateral and debt it tracks are those the
\* system will have once it is settled.
THEOREM TrackersAreExact == Spec => []RecoveryTrackersExact
<1>1. LimitInv => RecoveryTrackersExact
  BY DEF LimitInv, TrackInv
<1>. QED
  BY <1>1, LimitInvariance, PTL

\* No sequence of openings, adjustments, redemptions and reverts leaves an open trove with
\* less than the minimum debt and its reserve.
THEOREM MinimumDebtIsKept == Spec => []TroveDebtAboveMinimum
<1>1. LimitInv => TroveDebtAboveMinimum
  BY DEF LimitInv, MinInv, MinDebt, TroveDebtAboveMinimum, ActiveUsers, Active
<1>. QED
  BY <1>1, LimitInvariance, PTL

\* An owner at or above MCR who is liquidated loses at most MCR of the debt in collateral,
\* and none of that debt is redistributed, whatever the amounts and the rounding.
THEOREM LossesAreCapped == Spec => LossIsCapped
<1>1. TypeInv /\ DebtInv /\ [Next]_vars => [\A u \in Users : LossCapped(u)]_vars
  BY NextCapped, TypeInvParts DEF DebtInv
<1>. QED
  BY <1>1, DebtInvariance, PTL DEF Spec, LossIsCapped, LossCapped

\* A settlement takes out of the four pools nothing but the gas compensation, and the
\* collateral snapshot it takes is that of the pools it leaves.
THEOREM SettlementsConserve == Spec => SettlementConserves
<1>1. TypeInv /\ [Next]_vars =>
        [liquidation.running /\ ~liquidation'.running /\ SettleLiquidation
           => /\ PoolsFIL' = PoolsFIL - liquidation.totals.totalCollGasCompensation
              /\ totalCollateralSnapshot' = getEntireSystemColl']_vars
  BY SettlementMoves, TypeInvParts
<1>. QED
  BY <1>1, TypeInvariance, PTL DEF Spec, SettlementConserves

=============================================================================
