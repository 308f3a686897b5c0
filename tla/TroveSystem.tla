----------------------------- MODULE TroveSystem -----------------------------
(***************************************************************************)
(* The trove system: borrowers, liquidators, redeemers and stability pool  *)
(* depositors acting on one storage, and a price that changes between      *)
(* their transactions.                                                     *)
(***************************************************************************)
EXTENDS BorrowerOperations, Liquidation, Redemption, Sums

CONSTANTS
    Prices,          \* prices the feed may report
    OpenColls,       \* collateral a trove may be opened with
    OpenDebts,       \* debt token a trove may be opened for
    CollChanges,     \* collateral one adjustment may add or withdraw
    DebtChanges,     \* debt token one adjustment may draw or repay
    Deposits,        \* amounts moved into or out of the stability pool
    RedeemAmounts,   \* amounts redeemed
    Iterations,      \* limits on the troves one redemption visits
    SequenceLengths, \* numbers of troves liquidateTroves is asked for
    TroveArrays      \* arrays batchLiquidateTroves is called with

ASSUME InputAssumption ==
    /\ Prices # {} /\ Prices \subseteq Nat \ {0}
    /\ OpenColls \subseteq Nat /\ OpenDebts \subseteq Nat
    /\ CollChanges \subseteq Nat /\ DebtChanges \subseteq Nat
    /\ Deposits \subseteq Nat /\ RedeemAmounts \subseteq Nat
    /\ Iterations \subseteq Nat /\ SequenceLengths \subseteq Nat
    /\ TroveArrays \subseteq Seq(Users)

vars == <<price, troveVars, snapshotVars, activePool, defaultPool, collSurplusPool,
          stabilityPool, balanceOf, loopVars, txs>>

Init ==
    /\ price \in Prices
    /\ Troves = Deployed.Troves
    /\ rewardSnapshots = Deployed.rewardSnapshots
    /\ TroveOwners = Deployed.TroveOwners
    /\ sortedTroves = Deployed.sortedTroves
    /\ totalStakes = Deployed.totalStakes
    /\ totalStakesSnapshot = Deployed.totalStakesSnapshot
    /\ totalCollateralSnapshot = Deployed.totalCollateralSnapshot
    /\ L = Deployed.L
    /\ activePool = Deployed.activePool
    /\ defaultPool = Deployed.defaultPool
    /\ collSurplusPool = Deployed.collSurplusPool
    /\ stabilityPool = Deployed.stabilityPool
    /\ balanceOf = Deployed.balanceOf
    /\ liquidation = NoLiquidation
    /\ redemption = NoRedemption
    /\ saved = Deployed
    /\ txs = 0

-----------------------------------------------------------------------------
(* What happens around the troves.                                         *)

\* The oracles report another price.
SetPrice(p) ==
    /\ StartTransaction
    /\ p # price
    /\ price' = p
    /\ UNCHANGED <<troveVars, snapshotVars, activePool, defaultPool, collSurplusPool,
                   stabilityPool, balanceOf, loopVars>>

\* A deposit, which also pays the depositor the FIL gained so far.  Which
\* share of the pool is whose is the StabilityPool's own matter.
ProvideToSP(amount, gain) ==
    /\ StartTransaction
    /\ amount > 0
    /\ amount <= balanceOf["users"]
    /\ gain <= stabilityPool.FIL
    /\ stabilityPool' = [deposits |-> stabilityPool.deposits + amount,
                         FIL |-> stabilityPool.FIL - gain]
    /\ balanceOf' = [balanceOf EXCEPT !["users"] = @ - amount, !["stabilityPool"] = @ + amount]
    /\ UNCHANGED <<price, troveVars, snapshotVars, activePool, defaultPool,
                   collSurplusPool, loopVars>>

AnyAmount(amount) == TRUE   \* mutant: more may be withdrawn than was deposited
Withdrawable(amount) ==
    amount <= stabilityPool.deposits /\ amount <= balanceOf["stabilityPool"]

\* Nothing but the gain leaves the pool while the last trove of the list is
\* under-collateralised.
WithdrawFromSP(amount, gain) ==
    /\ StartTransaction
    /\ amount # 0 /\ sortedTroves # <<>> => getCurrentICR(Last(sortedTroves)) >= MCR
    /\ Withdrawable(amount)
    /\ gain <= stabilityPool.FIL
    /\ stabilityPool' = [deposits |-> stabilityPool.deposits - amount,
                         FIL |-> stabilityPool.FIL - gain]
    /\ balanceOf' = [balanceOf EXCEPT !["users"] = @ + amount, !["stabilityPool"] = @ - amount]
    /\ UNCHANGED <<price, troveVars, snapshotVars, activePool, defaultPool,
                   collSurplusPool, loopVars>>

\* Stakers of the protocol token collect the fees.
ClaimStakingGains ==
    /\ StartTransaction
    /\ balanceOf["protocolTokenStaking"] > 0
    /\ balanceOf' = [balanceOf EXCEPT
         !["users"] = @ + balanceOf["protocolTokenStaking"], !["protocolTokenStaking"] = 0]
    /\ UNCHANGED <<price, troveVars, snapshotVars, activePool, defaultPool,
                   collSurplusPool, stabilityPool, loopVars>>

FILGains == {0, stabilityPool.FIL}

-----------------------------------------------------------------------------

BorrowerStep ==
    \E u \in Users :
      \/ \E coll \in OpenColls, debt \in OpenDebts : OpenTrove(u, coll, debt)
      \/ \E coll \in CollChanges : AddColl(u, coll) \/ WithdrawColl(u, coll)
      \/ \E debt \in DebtChanges : WithdrawDebtToken(u, debt) \/ RepayDebtToken(u, debt)
      \/ \E coll \in CollChanges, debt \in DebtChanges, up, more \in BOOLEAN :
           AdjustCollAndDebt(u, coll, debt, up, more)
      \/ WithdrawFILGainToTrove(u, stabilityPool.FIL)
      \/ CloseTrove(u)
      \/ ClaimCollateral(u)

DepositorStep ==
    \/ \E amount \in Deposits, gain \in FILGains : ProvideToSP(amount, gain)
    \/ \E amount \in Deposits \cup {0}, gain \in FILGains : WithdrawFromSP(amount, gain)

LiquidationStep ==
    \/ \E u \in Users : LiquidateTrove(u) \/ LeaveTrove(u) \/ StopSequence(u)
    \/ SettleLiquidation

RedemptionStep ==
    \/ \E u \in Users : RedeemAndClose(u) \/ RedeemPartially(u) \/ CancelPartial(u)
    \/ SettleRedemption

\* One more iteration, or the settlement, of a transaction that has begun.
LoopStep == LiquidationStep \/ RedemptionStep

Next ==
    \/ \E p \in Prices : SetPrice(p)
    \/ BorrowerStep
    \/ DepositorStep
    \/ ClaimStakingGains
    \/ \E n \in SequenceLengths : BeginSequence(n)
    \/ \E troveArray \in TroveArrays : BeginBatch(troveArray)
    \/ \E amount \in RedeemAmounts, n \in Iterations : BeginRedemption(amount, n)
    \/ LoopStep
    \/ Revert

Spec == Init /\ [][Next]_vars

(***************************************************************************)
(* The chain runs a transaction it has begun: the loop goes on while it    *)
(* can, and where a require fails the transaction reverts.  Running out of *)
(* gas, the other reason to revert, is never relied on.                    *)
(***************************************************************************)
FailedRequire == ~ENABLED LoopStep /\ Revert

FairSpec == Spec /\ WF_vars(LoopStep) /\ WF_vars(FailedRequire)

-----------------------------------------------------------------------------
(* Types.                                                                  *)

PoolType == [FIL : Nat, debt : Nat]

StorageType == [
    Troves : [Users -> [status : Status, debt : Nat, coll : Nat, stake : Nat,
                        arrayIndex : Nat]],
    rewardSnapshots : [Users -> [FIL : Nat, debt : Nat]],
    TroveOwners : Seq(Users),
    sortedTroves : Seq(Users),
    totalStakes : Nat,
    totalStakesSnapshot : Nat,
    totalCollateralSnapshot : Nat,
    L : [FIL : Nat, debt : Nat, lastFILError : Nat, lastDebtError : Nat],
    activePool : PoolType,
    defaultPool : PoolType,
    collSurplusPool : [FIL : Nat, balances : [Users -> Nat]],
    stabilityPool : [deposits : Nat, FIL : Nat],
    balanceOf : [Holders -> Nat] ]

TotalsType == [
    totalCollInSequence : Nat, totalDebtInSequence : Nat,
    totalCollGasCompensation : Nat, totalDebtGasCompensation : Nat,
    totalDebtToOffset : Nat, totalCollToSendToSP : Nat,
    totalDebtToRedistribute : Nat, totalCollToRedistribute : Nat,
    totalCollSurplus : Nat ]

LiquidationType == [
    running : BOOLEAN, batch : BOOLEAN, recovery : BOOLEAN, todo : Seq(Users),
    remainingDebtTokenInStabPool : Nat, entireSystemDebt : Nat,
    entireSystemColl : Nat, totals : TotalsType ]

RedemptionType == [
    running : BOOLEAN, todo : Seq(Users), remainingDebtToken : Nat,
    totalDebtTokenToRedeem : Nat, totalFILDrawn : Nat ]

\* Every amount is a natural number: no subtraction of the code can wrap.
TypeOK ==
    /\ price \in Prices
    /\ Storage \in StorageType
    /\ saved \in StorageType
    /\ liquidation \in LiquidationType
    /\ redemption \in RedemptionType
    /\ txs \in 0..MaxTxs

=============================================================================
