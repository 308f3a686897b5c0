--------------------------- MODULE TroveProperties ---------------------------
(***************************************************************************)
(* What the trove system promises.  Invariants hold in the middle of a     *)
(* liquidation or redemption too, with what the loop has closed but not    *)
(* yet settled added where the pools still hold it.                        *)
(***************************************************************************)
EXTENDS TroveSystem

ActiveUsers == {u \in Users : Active(u)}

\* Every debt token in circulation is owed by some trove: mints, burns, offsets and
\* redemptions change the supply by what they change the debt of the pools.
DebtBacked ==
    balanceOf["users"] + balanceOf["gasPool"] + balanceOf["stabilityPool"]
      + balanceOf["protocolTokenStaking"] = getEntireSystemDebt

\* The active pool holds the recorded collateral and debt of the troves, and what the
\* running loop took off the troves it closed or redeemed from.
ActivePoolMatchesTroves ==
    /\ activePool.FIL = Total([u \in Users |-> Troves[u].coll])
         + liquidation.totals.totalCollInSequence + redemption.totalFILDrawn
    /\ activePool.debt = Total([u \in Users |-> Troves[u].debt])
         + liquidation.totals.totalDebtInSequence + redemption.totalDebtTokenToRedeem

\* The default pool can pay every trove the collateral redistributed to it.
DefaultPoolCoversPendingFIL ==
    Total([u \in Users |-> getPendingFILReward(u)]) <= defaultPool.FIL

\* totalStakes, the divisor of every redistribution, is the sum of the stakes.
StakesMatch == totalStakes = Total([u \in Users |-> Troves[u].stake])

\* The gas pool holds the reserve of every open trove, and of those a running
\* liquidation closed and will pay its caller for.
GasPoolCoversReserves ==
    balanceOf["gasPool"] = GAS_COMPENSATION * Cardinality(ActiveUsers)
                             + liquidation.totals.totalDebtGasCompensation

\* The active troves, the owners array with its back pointers and the sorted list name
\* the same users, each once.
RegistryConsistent ==
    /\ ToSet(TroveOwners) = ActiveUsers
    /\ ToSet(sortedTroves) = ActiveUsers
    /\ Len(TroveOwners) = Cardinality(ActiveUsers)
    /\ Len(sortedTroves) = Cardinality(ActiveUsers)
    /\ \A u \in ActiveUsers : TroveOwners[Troves[u].arrayIndex + 1] = u

\* What former owners may claim is there, or is about to be sent by the settlement.
SurplusBacked ==
    Total(collSurplusPool.balances)
      = collSurplusPool.FIL + liquidation.totals.totalCollSurplus

\* The deposits the stability pool has recorded are the tokens it holds.
DepositsBacked == stabilityPool.deposits = balanceOf["stabilityPool"]

\* No sequence of adjustments and redemptions leaves a trove whose debt is dust.
TroveDebtAboveMinimum ==
    \A u \in ActiveUsers : Troves[u].debt >= CompositeDebt(MIN_NET_DEBT)

\* A liquidation can always pay for its settlement: the pools hold what the totals of
\* the troves it closed take from them, whatever the loop has done so far.
SettlementFunded ==
    LET t == liquidation.totals
    IN  /\ t.totalDebtToOffset <= stabilityPool.deposits
        /\ t.totalDebtToOffset <= balanceOf["stabilityPool"]
        /\ t.totalDebtGasCompensation <= balanceOf["gasPool"]
        /\ t.totalDebtToOffset + t.totalDebtToRedistribute <= activePool.debt
        /\ t.totalCollToSendToSP + t.totalCollToRedistribute + t.totalCollSurplus
             + t.totalCollGasCompensation <= activePool.FIL

\* What a liquidation will redistribute has a bearer: the stakes that are left, by which
\* the settlement divides, are not all zero.
RedistributionHasBearer ==
    liquidation.totals.totalDebtToRedistribute > 0 => totalStakes > 0

\* The trackers that decide when a sequence has left recovery mode are the collateral
\* and debt the system will have once the sequence is settled.
RecoveryTrackersExact ==
    LET t == liquidation.totals
    IN  liquidation.recovery =>
          /\ liquidation.entireSystemDebt = getEntireSystemDebt - t.totalDebtToOffset
          /\ liquidation.entireSystemColl = getEntireSystemColl - t.totalCollToSendToSP
               - t.totalCollGasCompensation - t.totalCollSurplus
          /\ liquidation.remainingDebtTokenInStabPool
               = stabilityPool.deposits - t.totalDebtToOffset

\* Once there is a trove there always is one: redistributed debt needs a bearer.
LastTroveStays == [][TroveOwners # <<>> => TroveOwners' # <<>>]_vars

\* A transaction of a borrower or depositor, which is a single step.
UserTransaction == txs' # txs /\ Idle' /\ price' = price

\* No transaction of a borrower or depositor takes the system from normal into
\* recovery mode.
UsersCannotTripRecovery ==
    [][UserTransaction /\ ~RecoveryMode => ~RecoveryMode']_vars

\* In recovery mode nothing users may do lowers the TCR by more than one unit of
\* its precision, which is what the floors of the two ratios compared can hide.
RecoveryNeverWorsens ==
    [][UserTransaction /\ RecoveryMode => TCR' + 1 >= TCR]_vars

\* What u owns of its trove and the surplus pool, less what it owes, in USD.
NetWorth(u) ==
    (EntireColl(u) + collSurplusPool.balances[u]) * price - EntireDebt(u) * DECIMAL_PRECISION

\* A redemption takes no more value from an owner than the debt it cancels.
RedemptionKeepsNetWorth ==
    [][redemption.running /\ redemption'.running
         => \A u \in Users : NetWorth(u)' >= NetWorth(u)]_vars

\* An owner at or above MCR who is liquidated in recovery mode loses at most MCR of
\* the debt in collateral, and only if the stability pool takes all of that debt.
LossIsCapped ==
    [][\A u \in Users :
         liquidation.running /\ liquidation'.running /\ Active(u) /\ ~Active(u)'
           /\ getCurrentICR(u) >= MCR
         => /\ (EntireColl(u) - (collSurplusPool.balances[u]' - collSurplusPool.balances[u]))
                 * price <= EntireDebt(u) * MCR
            /\ liquidation'.totals.totalDebtToRedistribute
                 = liquidation.totals.totalDebtToRedistribute]_vars

PoolsFIL == activePool.FIL + defaultPool.FIL + collSurplusPool.FIL + stabilityPool.FIL

\* Settling a liquidation moves collateral between the pools; all that leaves them is
\* the gas compensation, and the snapshots taken are those of what is left to stake on.
SettlementConserves ==
    [][liquidation.running /\ ~liquidation'.running /\ SettleLiquidation
         => /\ PoolsFIL' = PoolsFIL - liquidation.totals.totalCollGasCompensation
            /\ totalCollateralSnapshot' = getEntireSystemColl']_vars

\* A transaction that has begun ends.
TransactionsEnd == ~Idle ~> Idle

-----------------------------------------------------------------------------
(* Claims of comments in the source that the code does not keep.           *)

\* TroveManager.hasPendingRewards: "A Trove has pending rewards if its snapshot is less
\* than the current rewards per-unit-staked sum".
PendingDebtNoticed ==
    \A u \in Users : ~hasPendingRewards(u) => getPendingDebtReward(u) = 0

\* SortedTroves: liquidations maintain the order of the NICRs, so "Nodes remain sorted
\* by current NICR" between transactions.
SortedByNICR ==
    Idle => \A i, j \in DOMAIN sortedTroves :
      i < j => getNominalICR(sortedTroves[i]) >= getNominalICR(sortedTroves[j])

\* BorrowerOperations: a debt increase in recovery mode "improves the ICR (and by
\* extension improves the TCR)".
DebtIncreaseImprovesTCR ==
    [][(\E u \in Users, coll \in CollChanges, debt \in DebtChanges :
          AdjustCollAndDebt(u, coll, debt, TRUE, TRUE)) /\ RecoveryMode
        => TCR' >= TCR]_vars

=============================================================================
