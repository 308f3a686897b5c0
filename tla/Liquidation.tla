----------------------------- MODULE Liquidation -----------------------------
(***************************************************************************)
(* Liquidation: liquidateTroves, which walks the sorted list from its      *)
(* tail, and batchLiquidateTroves (and so liquidate), which walks an array *)
(* its caller chose.                                                       *)
(*                                                                         *)
(* One transaction is BeginSequence or BeginBatch, one LiquidateTrove,     *)
(* LeaveTrove or StopSequence per trove it looks at, and SettleLiquidation.*)
(* The troves are closed one by one, while the pools keep their debt and   *)
(* collateral until the settlement moves the totals.                       *)
(***************************************************************************)
EXTENDS TroveManager

NotLiquidating == UNCHANGED <<price, redemption, txs>>

BeginLiquidation(troves, isBatch) ==
    /\ StartTransaction
    /\ saved' = Storage
    /\ liquidation' = [NoLiquidation EXCEPT
         !.running = TRUE,
         !.batch = isBatch,
         !.recovery = RecoveryMode,
         !.todo = troves,
         !.remainingDebtTokenInStabPool = stabilityPool.deposits,
         !.entireSystemDebt = getEntireSystemDebt,
         !.entireSystemColl = getEntireSystemColl]
    /\ UNCHANGED <<price, troveVars, snapshotVars, activePool, defaultPool,
                   collSurplusPool, stabilityPool, balanceOf, redemption>>

\* At most n troves from the tail.  In recovery mode the head is never
\* reached, in normal mode each iteration takes the tail of that moment.
BeginSequence(n) ==
    LET upwards == Reverse(IF RecoveryMode /\ sortedTroves # <<>>
                             THEN Tail(sortedTroves) ELSE sortedTroves)
    IN  BeginLiquidation(SubSeq(upwards, 1, MinOf(n, Len(upwards))), FALSE)

BeginBatch(troveArray) ==
    troveArray # <<>> /\ BeginLiquidation(troveArray, TRUE)

-----------------------------------------------------------------------------
(* The values of a single liquidation.                                     *)

\* Offset against the pool as much debt as it can take, redistribute the rest.
OffsetAndRedistribution(debt, coll, inPool) ==
    LET toOffset == MinOf(debt, inPool)
        toSP     == IF inPool > 0 THEN (coll * toOffset) \div debt ELSE 0
    IN  [debtToOffset |-> toOffset, collToSendToSP |-> toSP,
         debtToRedistribute |-> debt - toOffset, collToRedistribute |-> coll - toSP]

CollToLiquidateGross(u) == EntireColl(u)   \* mutant: compensation paid twice
CollToLiquidate(u) == EntireColl(u) - CollGasCompensation(EntireColl(u))

\* Everything in u, less its gas compensation, is offset or redistributed.
FullLiquidation(u, inPool) ==
    LET vals == OffsetAndRedistribution(EntireDebt(u), CollToLiquidate(u), inPool)
    IN  [entireTroveDebt     |-> EntireDebt(u),
         entireTroveColl     |-> EntireColl(u),
         collGasCompensation |-> CollGasCompensation(EntireColl(u)),
         debtToOffset        |-> vals.debtToOffset,
         collToSendToSP      |-> vals.collToSendToSP,
         debtToRedistribute  |-> vals.debtToRedistribute,
         collToRedistribute  |-> vals.collToRedistribute,
         collSurplus         |-> 0]

UncappedCollPortion(u) == EntireColl(u)   \* mutant: nothing is left to the owner
CappedCollPortion(u) == (EntireDebt(u) * MCR) \div price

\* The pool takes the whole debt and MCR times its worth of collateral; the
\* rest is the borrower's.
CappedLiquidation(u) ==
    LET compensation == CollGasCompensation(CappedCollPortion(u))
    IN  [entireTroveDebt     |-> EntireDebt(u),
         entireTroveColl     |-> EntireColl(u),
         collGasCompensation |-> compensation,
         debtToOffset        |-> EntireDebt(u),
         collToSendToSP      |-> CappedCollPortion(u) - compensation,
         debtToRedistribute  |-> 0,
         collToRedistribute  |-> 0,
         collSurplus         |-> EntireColl(u) - CappedCollPortion(u)]

\* TCR by the trackers of the running sequence.
TrackedTCR == ComputeCR(liquidation.entireSystemColl, liquidation.entireSystemDebt, price)

(***************************************************************************)
(* How the trove u at the head of `todo` is treated.                       *)
(***************************************************************************)
ShouldOffsetAtCap(u) ==
    /\ getCurrentICR(u) >= MCR
    /\ getCurrentICR(u) < TrackedTCR
    /\ EntireDebt(u) <= liquidation.remainingDebtTokenInStabPool

\* The sequence stops, a batch goes on, at a trove it finds healthy.
Healthy(u) ==
    /\ getCurrentICR(u) >= MCR
    /\ liquidation.recovery => liquidation.remainingDebtTokenInStabPool = 0

Liquidatable(u) ==
    /\ Active(u)
    /\ ~Healthy(u)
    /\ liquidation.recovery =>
         /\ Len(TroveOwners) > 1
         /\ getCurrentICR(u) < MCR \/ ShouldOffsetAtCap(u)

LiquidationValues(u) ==
    IF getCurrentICR(u) >= MCR
      THEN CappedLiquidation(u)
      ELSE FullLiquidation(u,
             IF liquidation.recovery /\ getCurrentICR(u) <= _100pct
               THEN 0 ELSE liquidation.remainingDebtTokenInStabPool)

PaidOnce(totals) == GAS_COMPENSATION   \* mutant: one reserve per sequence
DebtGasCompensation(totals) == totals.totalDebtGasCompensation + GAS_COMPENSATION

AddLiquidationValuesToTotals(totals, v) == [
    totalCollInSequence      |-> totals.totalCollInSequence + v.entireTroveColl,
    totalDebtInSequence      |-> totals.totalDebtInSequence + v.entireTroveDebt,
    totalCollGasCompensation |-> totals.totalCollGasCompensation + v.collGasCompensation,
    totalDebtGasCompensation |-> DebtGasCompensation(totals),
    totalDebtToOffset        |-> totals.totalDebtToOffset + v.debtToOffset,
    totalCollToSendToSP      |-> totals.totalCollToSendToSP + v.collToSendToSP,
    totalDebtToRedistribute  |-> totals.totalDebtToRedistribute + v.debtToRedistribute,
    totalCollToRedistribute  |-> totals.totalCollToRedistribute + v.collToRedistribute,
    totalCollSurplus         |-> totals.totalCollSurplus + v.collSurplus ]

-----------------------------------------------------------------------------
(* The iterations.                                                         *)

\* What the loop tracks: the collateral that will leave the pools, and the
\* deposits that will be left.  Only the recovery-mode loop tracks the system.
CollLeavingKeepsSurplus(v) == v.collToSendToSP + v.collGasCompensation   \* mutant
CollLeaving(v) == v.collToSendToSP + v.collGasCompensation + v.collSurplus

RemainingUnchanged(v) == liquidation.remainingDebtTokenInStabPool   \* mutant
RemainingAfter(v) == liquidation.remainingDebtTokenInStabPool - v.debtToOffset

LiquidateTrove(u) ==
    LET v       == LiquidationValues(u)
        pending == [FIL |-> getPendingFILReward(u), debt |-> getPendingDebtReward(u)]
        sysDebt == liquidation.entireSystemDebt - v.debtToOffset
        sysColl == liquidation.entireSystemColl - CollLeaving(v)
    IN  /\ liquidation.running /\ liquidation.todo # <<>> /\ u = Head(liquidation.todo)
        /\ Liquidatable(u)
        /\ v.collSurplus >= 0
        /\ v.debtToOffset <= liquidation.remainingDebtTokenInStabPool
        /\ liquidation.recovery => sysDebt >= 0 /\ sysColl >= 0
        /\ MovePendingTroveRewardsToActivePool(pending)
        /\ activePool' = [FIL  |-> activePool.FIL + pending.FIL,
                          debt |-> activePool.debt + pending.debt]
        /\ RemoveStakeAndCloseTrove(u, "closedByLiquidation")
        /\ collSurplusPool' = AccountSurplus(u, v.collSurplus)
        /\ liquidation' = [liquidation EXCEPT
             !.todo = Tail(@),
             !.remainingDebtTokenInStabPool = RemainingAfter(v),
             !.entireSystemDebt = IF liquidation.recovery THEN sysDebt ELSE @,
             !.entireSystemColl = IF liquidation.recovery THEN sysColl ELSE @,
             !.recovery = @ /\ ComputeCR(sysColl, sysDebt, price) < CCR,
             !.totals = AddLiquidationValuesToTotals(@, v)]
        /\ NotLiquidating
        /\ UNCHANGED <<snapshotVars, stabilityPool, balanceOf, saved>>

\* Nothing is done with the trove and the walk goes on: a batch passes over
\* closed and healthy troves; in recovery mode both pass over a trove that is
\* not to be liquidated although the pool is not empty.
LeaveTrove(u) ==
    /\ liquidation.running /\ liquidation.todo # <<>> /\ u = Head(liquidation.todo)
    /\ ~Liquidatable(u)
    /\ liquidation.batch \/ ~Healthy(u)
    /\ liquidation' = [liquidation EXCEPT
         !.todo = Tail(@),
         !.recovery = @ /\ (Active(u) /\ ~Healthy(u) => TrackedTCR < CCR)]
    /\ NotLiquidating
    /\ UNCHANGED <<troveVars, snapshotVars, activePool, defaultPool, collSurplusPool,
                   stabilityPool, balanceOf, saved>>

StopSequenceSpins(u) ==   \* mutant: tests the same trove again
    /\ liquidation.running /\ liquidation.todo # <<>> /\ u = Head(liquidation.todo)
    /\ ~liquidation.batch
    /\ Healthy(u)
    /\ UNCHANGED <<price, troveVars, snapshotVars, activePool, defaultPool, collSurplusPool,
                   stabilityPool, balanceOf, loopVars, txs>>

StopSequence(u) ==
    /\ liquidation.running /\ liquidation.todo # <<>> /\ u = Head(liquidation.todo)
    /\ ~liquidation.batch
    /\ Healthy(u)
    /\ liquidation' = [liquidation EXCEPT !.todo = <<>>]
    /\ NotLiquidating
    /\ UNCHANGED <<troveVars, snapshotVars, activePool, defaultPool, collSurplusPool,
                   stabilityPool, balanceOf, saved>>

-----------------------------------------------------------------------------
(* The settlement.                                                         *)

OffsetWithoutCollateral(debt, coll) ==   \* mutant: the collateral is not received
    /\ debt <= stabilityPool.deposits
    /\ stabilityPool' = [stabilityPool EXCEPT !.deposits = @ - debt]

\* StabilityPool.offset burns deposits and receives collateral.
Offset(debt, coll) ==
    /\ debt <= stabilityPool.deposits
    /\ stabilityPool' = IF debt = 0
         THEN stabilityPool
         ELSE [deposits |-> stabilityPool.deposits - debt, FIL |-> stabilityPool.FIL + coll]

\* _redistributeDebtAndColl adds to L, keeping the remainders of its divisions.
RedistributedL(debt, coll) ==
    LET FILNumerator  == coll * DECIMAL_PRECISION + L.lastFILError
        debtNumerator == debt * DECIMAL_PRECISION + L.lastDebtError
    IN  [FIL           |-> L.FIL + FILNumerator \div totalStakes,
         debt          |-> L.debt + debtNumerator \div totalStakes,
         lastFILError  |-> FILNumerator % totalStakes,
         lastDebtError |-> debtNumerator % totalStakes]

\* _updateSystemSnapshots_excludeCollRemainder.
CollateralSnapshot(activeFIL, collRemainder, defaultFIL) ==
    (activeFIL - collRemainder) + defaultFIL

SettleLiquidation ==
    LET t        == liquidation.totals
        offset   == IF t.totalDebtToOffset = 0 THEN 0 ELSE t.totalCollToSendToSP
        redist   == IF t.totalDebtToRedistribute = 0 THEN 0 ELSE t.totalCollToRedistribute
        kept     == activePool.FIL - offset - redist - t.totalCollSurplus
    IN  /\ liquidation.running /\ liquidation.todo = <<>>
        /\ t.totalDebtInSequence > 0
        /\ t.totalDebtToRedistribute > 0 => totalStakes > 0
        /\ t.totalDebtToOffset + t.totalDebtToRedistribute <= activePool.debt
        /\ t.totalCollGasCompensation <= kept
        /\ t.totalDebtGasCompensation <= balanceOf["gasPool"]
        /\ t.totalDebtToOffset <= balanceOf["stabilityPool"]
        /\ Offset(t.totalDebtToOffset, t.totalCollToSendToSP)
        /\ L' = IF t.totalDebtToRedistribute = 0
                  THEN L ELSE RedistributedL(t.totalDebtToRedistribute, t.totalCollToRedistribute)
        /\ activePool' = [
             FIL  |-> kept - t.totalCollGasCompensation,
             debt |-> activePool.debt - t.totalDebtToOffset - t.totalDebtToRedistribute]
        /\ defaultPool' = [FIL  |-> defaultPool.FIL + redist,
                           debt |-> defaultPool.debt + t.totalDebtToRedistribute]
        /\ collSurplusPool' = [collSurplusPool EXCEPT !.FIL = @ + t.totalCollSurplus]
        /\ totalStakesSnapshot' = totalStakes
        /\ totalCollateralSnapshot' =
             CollateralSnapshot(kept, t.totalCollGasCompensation, defaultPool.FIL + redist)
        /\ balanceOf' = [balanceOf EXCEPT
             !["users"] = @ + t.totalDebtGasCompensation,
             !["gasPool"] = @ - t.totalDebtGasCompensation,
             !["stabilityPool"] = @ - t.totalDebtToOffset]
        /\ liquidation' = NoLiquidation
        /\ saved' = Deployed
        /\ NotLiquidating
        /\ UNCHANGED troveVars

=============================================================================
