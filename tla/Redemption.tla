----------------------------- MODULE Redemption -----------------------------
(***************************************************************************)
(* Redemption: debt token is exchanged at face value for collateral of the *)
(* troves with the lowest ratios.                                          *)
(*                                                                         *)
(* One transaction is BeginRedemption, then one RedeemAndClose,            *)
(* RedeemPartially or CancelPartial per trove, and SettleRedemption.       *)
(* The fee only splits the FIL that leaves the system between the redeemer *)
(* and the staking contract, so it is left out.                            *)
(***************************************************************************)
EXTENDS TroveManager

NotRedeeming == UNCHANGED <<price, liquidation, txs>>

-----------------------------------------------------------------------------
(* Where the walk starts.                                                  *)

isValidFirstRedemptionHint(i) ==
    /\ getCurrentICR(sortedTroves[i]) >= MCR
    /\ i = Len(sortedTroves) \/ getCurrentICR(sortedTroves[i + 1]) < MCR

\* Without a valid hint, the first trove at or above MCR from the tail.
FirstFromTail(i) ==
    /\ getCurrentICR(sortedTroves[i]) >= MCR
    /\ \A j \in (i + 1)..Len(sortedTroves) : getCurrentICR(sortedTroves[j]) < MCR

RedemptionStarts ==
    {i \in 1..Len(sortedTroves) : isValidFirstRedemptionHint(i) \/ FirstFromTail(i)}

\* maxIterations of 0 stands for no limit.
BeginRedemption(amount, maxIterations) ==
    /\ StartTransaction
    /\ TCR >= MCR
    /\ amount > 0
    /\ amount <= balanceOf["users"]
    /\ \E start \in RedemptionStarts :
         LET upwards == Reverse(SubSeq(sortedTroves, 1, start))
             visits  == IF maxIterations = 0 THEN start ELSE MinOf(maxIterations, start)
         IN  redemption' = [NoRedemption EXCEPT
               !.running = TRUE,
               !.todo = SubSeq(upwards, 1, visits),
               !.remainingDebtToken = amount]
    /\ saved' = Storage
    /\ UNCHANGED <<price, troveVars, snapshotVars, activePool, defaultPool,
                   collSurplusPool, stabilityPool, balanceOf, liquidation>>

-----------------------------------------------------------------------------
(* One trove.                                                              *)

\* The trove of u once its pending rewards are applied, and its lots.
RedeemedColl(u) == Troves[u].coll + AppliedRewards(u).FIL
RedeemedDebt(u) == Troves[u].debt + AppliedRewards(u).debt
DebtLot(u) == MinOf(redemption.remainingDebtToken, RedeemedDebt(u) - GAS_COMPENSATION)
FILLotRoundedUp(u) == (DebtLot(u) * DECIMAL_PRECISION + price - 1) \div price   \* mutant
FILLot(u) == (DebtLot(u) * DECIMAL_PRECISION) \div price

Redeeming(u) ==
    /\ redemption.running
    /\ redemption.todo # <<>> /\ u = Head(redemption.todo)
    /\ redemption.remainingDebtToken > 0
    /\ RedeemedDebt(u) >= GAS_COMPENSATION
    /\ FILLot(u) <= RedeemedColl(u)
    /\ MovePendingTroveRewardsToActivePool(AppliedRewards(u))
    /\ NotRedeeming
    /\ UNCHANGED <<snapshotVars, stabilityPool, saved>>

Redeemed(u) ==
    redemption' = [redemption EXCEPT
        !.todo = Tail(@),
        !.remainingDebtToken = @ - DebtLot(u),
        !.totalDebtTokenToRedeem = @ + DebtLot(u),
        !.totalFILDrawn = @ + FILLot(u)]

LeavesDebt(u) == RedeemedDebt(u) - DebtLot(u) # GAS_COMPENSATION

\* Only the reserve is left: it is burned with its debt, and the owner may
\* claim the collateral that remains.
RedeemAndClose(u) ==
    LET surplus == RedeemedColl(u) - FILLot(u)
        FIL     == activePool.FIL + AppliedRewards(u).FIL
        debt    == activePool.debt + AppliedRewards(u).debt
    IN  /\ Redeeming(u)
        /\ ~LeavesDebt(u)
        /\ surplus <= FIL /\ GAS_COMPENSATION <= debt
        /\ GAS_COMPENSATION <= balanceOf["gasPool"]
        /\ RemoveStakeAndCloseTrove(u, "closedByRedemption")
        /\ activePool' = [FIL |-> FIL - surplus, debt |-> debt - GAS_COMPENSATION]
        /\ collSurplusPool' = [AccountSurplus(u, surplus) EXCEPT !.FIL = @ + surplus]
        /\ balanceOf' = [balanceOf EXCEPT !["gasPool"] = @ - GAS_COMPENSATION]
        /\ Redeemed(u)

ReserveOnly(newDebt) == newDebt > GAS_COMPENSATION   \* mutant
EnoughDebtLeft(newDebt) == NetDebt(newDebt) >= MIN_NET_DEBT

\* The hint the redeemer computed still is the ratio the trove ends up with.
RedeemPartially(u) ==
    LET newColl == RedeemedColl(u) - FILLot(u)
        newDebt == RedeemedDebt(u) - DebtLot(u)
    IN  /\ Redeeming(u)
        /\ LeavesDebt(u)
        /\ EnoughDebtLeft(newDebt)
        /\ UpdateTrove(u, newColl, newDebt, AppliedSnapshot(u))
        /\ activePool' = [FIL  |-> activePool.FIL + AppliedRewards(u).FIL,
                          debt |-> activePool.debt + AppliedRewards(u).debt]
        /\ UNCHANGED <<collSurplusPool, balanceOf>>
        /\ Redeemed(u)

\* The hint is out of date, or too little debt would be left: the loop ends,
\* and the trove keeps the rewards just applied.
CancelPartial(u) ==
    /\ Redeeming(u)
    /\ LeavesDebt(u)
    /\ Troves' = [Troves EXCEPT ![u].coll = RedeemedColl(u), ![u].debt = RedeemedDebt(u)]
    /\ rewardSnapshots' = [rewardSnapshots EXCEPT ![u] = AppliedSnapshot(u)]
    /\ activePool' = [FIL  |-> activePool.FIL + AppliedRewards(u).FIL,
                      debt |-> activePool.debt + AppliedRewards(u).debt]
    /\ redemption' = [redemption EXCEPT !.todo = <<>>]
    /\ UNCHANGED <<TroveOwners, sortedTroves, totalStakes, collSurplusPool, balanceOf>>

SettleRedemption ==
    /\ redemption.running
    /\ redemption.todo = <<>> \/ redemption.remainingDebtToken = 0
    /\ redemption.totalFILDrawn > 0
    /\ redemption.totalDebtTokenToRedeem <= balanceOf["users"]
    /\ redemption.totalDebtTokenToRedeem <= activePool.debt
    /\ redemption.totalFILDrawn <= activePool.FIL
    /\ balanceOf' = [balanceOf EXCEPT !["users"] = @ - redemption.totalDebtTokenToRedeem]
    /\ activePool' = [FIL  |-> activePool.FIL - redemption.totalFILDrawn,
                      debt |-> activePool.debt - redemption.totalDebtTokenToRedeem]
    /\ redemption' = NoRedemption
    /\ saved' = Deployed
    /\ NotRedeeming
    /\ UNCHANGED <<troveVars, snapshotVars, defaultPool, collSurplusPool, stabilityPool>>

=============================================================================
