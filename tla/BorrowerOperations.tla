-------------------------- MODULE BorrowerOperations --------------------------
(***************************************************************************)
(* The borrower's entry points: opening, adjusting and closing a trove,    *)
(* claiming a surplus, and the stability pool's transfer of a gain to a    *)
(* trove.  Each is one transaction; a require that fails leaves the        *)
(* storage as it was, so only the outcomes that succeed are steps.         *)
(*                                                                         *)
(* The borrowing rate is an input: the fee decays with time and grows with *)
(* redemptions between the floor and the maximum, and nothing here depends *)
(* on where in that range it lies.                                         *)
(***************************************************************************)
EXTENDS TroveManager

CONSTANTS
    BorrowingRates   \* the rates between BORROWING_FEE_FLOOR and MAX_BORROWING_FEE

ASSUME RateAssumption == BorrowingRates \subseteq 0..DECIMAL_PRECISION

\* The rates a debt increase may be charged: no fee in recovery mode.
RatesCharged(isDebtIncrease) ==
    IF isDebtIncrease /\ ~RecoveryMode THEN BorrowingRates ELSE {0}

BorrowingFee(rate, amount) == (rate * amount) \div DECIMAL_PRECISION

-----------------------------------------------------------------------------
(* What the transactions require.                                          *)

NewTCRAboveMCR(coll, debt) == ComputeCR(coll, debt, price) >= MCR   \* mutant
NewTCRAboveCCR(coll, debt) == ComputeCR(coll, debt, price) >= CCR

AtLeastMinNetDebt(netDebt) == netDebt >= MIN_NET_DEBT

\* mutant: a trove may be taken down to CCR
RecoveryAdjustmentAboveCCR(collWithdrawal, isDebtIncrease, oldICR, newICR) ==
    collWithdrawal = 0 /\ (isDebtIncrease => newICR >= CCR)
ValidRecoveryAdjustment(collWithdrawal, isDebtIncrease, oldICR, newICR) ==
    collWithdrawal = 0 /\ (isDebtIncrease => newICR >= CCR /\ newICR >= oldICR)

-----------------------------------------------------------------------------

OpenTroveAtFee(u, coll, amount, fee) ==
    LET debt  == CompositeDebt(amount + fee)
        ICR   == ComputeCR(coll, debt, price)
        stake == ComputeNewStake(Troves[u].coll + coll)
    IN  /\ StartTransaction
        /\ ~Active(u)
        /\ amount > 0
        /\ StakeComputable
        /\ AtLeastMinNetDebt(amount + fee)
        /\ IF RecoveryMode
             THEN ICR >= CCR
             ELSE /\ ICR >= MCR
                  /\ NewTCRAboveCCR(getEntireSystemColl + coll, getEntireSystemDebt + debt)
        /\ Troves[u].stake <= totalStakes
        /\ Troves' = [Troves EXCEPT ![u] =
             [status |-> "active", debt |-> Troves[u].debt + debt,
              coll |-> Troves[u].coll + coll, stake |-> stake,
              arrayIndex |-> Len(TroveOwners)]]
        /\ rewardSnapshots' = [rewardSnapshots EXCEPT ![u] = CurrentL]
        /\ totalStakes' = NewTotalStakes(u, stake)
        /\ TroveOwners' = Append(TroveOwners, u)
        /\ ~Contains(sortedTroves, u)
        /\ Insert(sortedTroves, u, ComputeNominalCR(coll, debt))
        /\ activePool' = [FIL |-> activePool.FIL + coll, debt |-> activePool.debt + debt]
        /\ balanceOf' = [balanceOf EXCEPT
             !["users"] = @ + amount,
             !["gasPool"] = @ + GAS_COMPENSATION,
             !["protocolTokenStaking"] = @ + fee]
        /\ UNCHANGED <<price, snapshotVars, defaultPool, collSurplusPool, stabilityPool, loopVars>>

OpenTrove(u, coll, amount) ==
    \E rate \in RatesCharged(TRUE) : OpenTroveAtFee(u, coll, amount, BorrowingFee(rate, amount))

(***************************************************************************)
(* Every change of an open trove goes through _adjustTrove: FIL received   *)
(* or withdrawn, debt token drawn or repaid.                               *)
(***************************************************************************)
AdjustTroveAtFee(u, collReceived, collWithdrawal, debtChange, isDebtIncrease, fee) ==
    LET pending == AppliedRewards(u)
        coll    == Troves[u].coll + pending.FIL
        debt    == Troves[u].debt + pending.debt
        newColl == (coll + collReceived) - collWithdrawal
        newDebt == IF isDebtIncrease THEN debt + debtChange + fee ELSE debt - debtChange
        oldICR  == ComputeCR(coll, debt, price)
        newICR  == ComputeCR(newColl, newDebt, price)
        sysColl == (getEntireSystemColl + collReceived) - collWithdrawal
        sysDebt == (getEntireSystemDebt + newDebt) - debt
    IN  /\ StartTransaction
        /\ Active(u)
        /\ isDebtIncrease => debtChange > 0
        /\ collReceived = 0 \/ collWithdrawal = 0
        /\ collReceived + collWithdrawal + debtChange > 0
        /\ collWithdrawal <= coll
        /\ IF RecoveryMode
             THEN ValidRecoveryAdjustment(collWithdrawal, isDebtIncrease, oldICR, newICR)
             ELSE newICR >= MCR /\ NewTCRAboveCCR(sysColl, sysDebt)
        /\ (~isDebtIncrease /\ debtChange > 0) =>
             /\ AtLeastMinNetDebt(NetDebt(newDebt))
             /\ debtChange <= balanceOf["users"]
        /\ UpdateTrove(u, newColl, newDebt, AppliedSnapshot(u))
        /\ MovePendingTroveRewardsToActivePool(pending)
        /\ collWithdrawal <= activePool.FIL + pending.FIL + collReceived
        /\ debt <= activePool.debt + pending.debt + newDebt
        /\ activePool' =
             [FIL  |-> (activePool.FIL + pending.FIL + collReceived) - collWithdrawal,
              debt |-> (activePool.debt + pending.debt + newDebt) - debt]
        /\ balanceOf' = [balanceOf EXCEPT
             !["users"] = IF isDebtIncrease THEN @ + debtChange ELSE @ - debtChange,
             !["protocolTokenStaking"] = @ + fee]
        /\ UNCHANGED <<price, snapshotVars, collSurplusPool, loopVars>>

AdjustTrove(u, collReceived, collWithdrawal, debtChange, isDebtIncrease) ==
    \E rate \in RatesCharged(isDebtIncrease) :
      AdjustTroveAtFee(u, collReceived, collWithdrawal, debtChange, isDebtIncrease,
                       BorrowingFee(rate, debtChange))

AddColl(u, coll)       == AdjustTrove(u, coll, 0, 0, FALSE) /\ UNCHANGED stabilityPool
WithdrawColl(u, coll)  == AdjustTrove(u, 0, coll, 0, FALSE) /\ UNCHANGED stabilityPool
WithdrawDebtToken(u, debt) == AdjustTrove(u, 0, 0, debt, TRUE) /\ UNCHANGED stabilityPool
RepayDebtToken(u, debt)    == AdjustTrove(u, 0, 0, debt, FALSE) /\ UNCHANGED stabilityPool

\* A change of both, in any of the four directions.
AdjustCollAndDebt(u, coll, debt, isCollIncrease, isDebtIncrease) ==
    /\ coll > 0 /\ debt > 0
    /\ IF isCollIncrease
         THEN AdjustTrove(u, coll, 0, debt, isDebtIncrease)
         ELSE AdjustTrove(u, 0, coll, debt, isDebtIncrease)
    /\ UNCHANGED stabilityPool

\* StabilityPool.withdrawFILGainToTrove, which calls moveFILGainToTrove.
WithdrawFILGainToTrove(u, gain) ==
    /\ gain > 0
    /\ gain <= stabilityPool.FIL
    /\ AdjustTrove(u, gain, 0, 0, FALSE)
    /\ stabilityPool' = [stabilityPool EXCEPT !.FIL = @ - gain]

CloseTrove(u) ==
    LET pending == AppliedRewards(u)
        coll    == Troves[u].coll + pending.FIL
        debt    == Troves[u].debt + pending.debt
    IN  /\ StartTransaction
        /\ Active(u)
        /\ ~RecoveryMode
        /\ NetDebt(debt) >= 0
        /\ NetDebt(debt) <= balanceOf["users"]
        /\ coll <= getEntireSystemColl /\ debt <= getEntireSystemDebt
        /\ NewTCRAboveCCR(getEntireSystemColl - coll, getEntireSystemDebt - debt)
        /\ RemoveStakeAndCloseTrove(u, "closedByOwner")
        /\ MovePendingTroveRewardsToActivePool(pending)
        /\ coll <= activePool.FIL + pending.FIL
        /\ debt <= activePool.debt + pending.debt
        /\ GAS_COMPENSATION <= balanceOf["gasPool"]
        /\ activePool' = [FIL  |-> (activePool.FIL + pending.FIL) - coll,
                          debt |-> (activePool.debt + pending.debt) - debt]
        /\ balanceOf' = [balanceOf EXCEPT
             !["users"] = @ - NetDebt(debt),
             !["gasPool"] = @ - GAS_COMPENSATION]
        /\ UNCHANGED <<price, snapshotVars, collSurplusPool, stabilityPool, loopVars>>

\* CollSurplusPool.claimColl pays everything the user is owed.
ClaimCollateral(u) ==
    LET claimable == collSurplusPool.balances[u]
    IN  /\ StartTransaction
        /\ claimable > 0
        /\ claimable <= collSurplusPool.FIL
        /\ collSurplusPool' = [FIL      |-> collSurplusPool.FIL - claimable,
                               balances |-> [collSurplusPool.balances EXCEPT ![u] = 0]]
        /\ UNCHANGED <<price, troveVars, snapshotVars, activePool, defaultPool,
                       stabilityPool, balanceOf, loopVars>>

=============================================================================
