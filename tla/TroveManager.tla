---------------------------- MODULE TroveManager ----------------------------
(***************************************************************************)
(* The storage of the trove system - the TroveManager, the pools, the      *)
(* sorted list and the debt token balances - and the helpers its entry     *)
(* points share.  BorrowerOperations, Liquidation and Redemption add the   *)
(* entry points; TroveSystem composes them.                                *)
(*                                                                         *)
(* A transaction is atomic on the chain.  The two that loop over troves    *)
(* (liquidation, redemption) are modelled one loop iteration per step:     *)
(* `liquidation` and `redemption` hold the local variables of the loop,    *)
(* no other transaction starts while one of them is running, and `saved`   *)
(* is the storage a revert goes back to.                                   *)
(***************************************************************************)
EXTENDS ProtocolMath, Sequences, FiniteSets, SequencesExt

CONSTANTS
    Users,      \* the addresses that may own a trove
    MaxTxs      \* bound: number of transactions of a behaviour

ASSUME MaxTxsAssumption == MaxTxs \in Nat

\* There are 2^160 addresses.
ASSUME UsersAssumption == IsFiniteSet(Users)

VARIABLES
    price,                   \* FIL price, scaled by DECIMAL_PRECISION
    Troves,                  \* user -> trove record
    rewardSnapshots,         \* user -> L at the user's last update
    TroveOwners,             \* array of the owners of active troves
    sortedTroves,            \* the list, head (highest ratio) first
    totalStakes,             \* sum of the stakes
    totalStakesSnapshot,     \* totalStakes after the last liquidation
    totalCollateralSnapshot, \* collateral after the last liquidation
    L,                       \* rewards per unit staked, and their errors
    activePool, defaultPool, \* FIL and debt of each pool
    collSurplusPool,         \* FIL, and what each user may claim of it
    stabilityPool,           \* recorded deposits and FIL
    balanceOf,               \* debt token, per kind of holder
    liquidation, redemption, \* local variables of a running loop
    saved,                   \* storage at the start of the running loop
    txs                      \* number of transactions started

troveVars    == <<Troves, rewardSnapshots, TroveOwners, sortedTroves, totalStakes>>
snapshotVars == <<totalStakesSnapshot, totalCollateralSnapshot, L>>
loopVars     == <<liquidation, redemption, saved>>

(***************************************************************************)
(* Debt token holders: everyone outside the system is one holder, since    *)
(* the token moves freely between them.                                    *)
(***************************************************************************)
Holders == {"users", "gasPool", "stabilityPool", "protocolTokenStaking"}
Status  == {"nonExistent", "active", "closedByOwner", "closedByLiquidation",
            "closedByRedemption"}

NoTrove    == [status |-> "nonExistent", debt |-> 0, coll |-> 0, stake |-> 0,
               arrayIndex |-> 0]
NoSnapshot == [FIL |-> 0, debt |-> 0]
EmptyPool  == [FIL |-> 0, debt |-> 0]

\* Storage as deployed.
Deployed == [
    Troves                  |-> [u \in Users |-> NoTrove],
    rewardSnapshots         |-> [u \in Users |-> NoSnapshot],
    TroveOwners             |-> <<>>,
    sortedTroves            |-> <<>>,
    totalStakes             |-> 0,
    totalStakesSnapshot     |-> 0,
    totalCollateralSnapshot |-> 0,
    L                       |-> [FIL |-> 0, debt |-> 0,
                                 lastFILError |-> 0, lastDebtError |-> 0],
    activePool              |-> EmptyPool,
    defaultPool             |-> EmptyPool,
    collSurplusPool         |-> [FIL |-> 0, balances |-> [u \in Users |-> 0]],
    stabilityPool           |-> [deposits |-> 0, FIL |-> 0],
    balanceOf               |-> [h \in Holders |-> 0] ]

\* The storage a transaction may touch, as one record.
Storage == [
    Troves                  |-> Troves,
    rewardSnapshots         |-> rewardSnapshots,
    TroveOwners             |-> TroveOwners,
    sortedTroves            |-> sortedTroves,
    totalStakes             |-> totalStakes,
    totalStakesSnapshot     |-> totalStakesSnapshot,
    totalCollateralSnapshot |-> totalCollateralSnapshot,
    L                       |-> L,
    activePool              |-> activePool,
    defaultPool             |-> defaultPool,
    collSurplusPool         |-> collSurplusPool,
    stabilityPool           |-> stabilityPool,
    balanceOf               |-> balanceOf ]

-----------------------------------------------------------------------------
(* Ratios of troves and of the system.                                     *)

Active(u) == Troves[u].status = "active"

getPendingFILReward(u) ==
    IF Active(u)
      THEN (Troves[u].stake * (L.FIL - rewardSnapshots[u].FIL)) \div DECIMAL_PRECISION
      ELSE 0

getPendingDebtReward(u) ==
    IF Active(u)
      THEN (Troves[u].stake * (L.debt - rewardSnapshots[u].debt)) \div DECIMAL_PRECISION
      ELSE 0

EntireDebt(u) == Troves[u].debt + getPendingDebtReward(u)
EntireColl(u) == Troves[u].coll + getPendingFILReward(u)

getNominalICR(u) == ComputeNominalCR(EntireColl(u), EntireDebt(u))
getCurrentICR(u) == ComputeCR(EntireColl(u), EntireDebt(u), price)

getEntireSystemColl == activePool.FIL + defaultPool.FIL
getEntireSystemDebt == activePool.debt + defaultPool.debt

TCR          == ComputeCR(getEntireSystemColl, getEntireSystemDebt, price)
RecoveryMode == TCR < CCR

-----------------------------------------------------------------------------
(* Pending rewards.                                                        *)

\* Only the FIL snapshot decides, whatever the debt snapshot says.
hasPendingRewards(u) == Active(u) /\ rewardSnapshots[u].FIL < L.FIL

\* What applyPendingRewards adds to the trove of u and takes from the pool.
AppliedRewards(u) ==
    IF hasPendingRewards(u)
      THEN [FIL |-> getPendingFILReward(u), debt |-> getPendingDebtReward(u)]
      ELSE [FIL |-> 0, debt |-> 0]

CurrentL == [FIL |-> L.FIL, debt |-> L.debt]

AppliedSnapshotStale(u) == rewardSnapshots[u]   \* mutant: snapshots not updated
AppliedSnapshot(u) == IF hasPendingRewards(u) THEN CurrentL ELSE rewardSnapshots[u]

\* The default pool gives rewards r to the active pool: its subtractions revert
\* when it holds less.
MovePendingTroveRewardsToActivePool(r) ==
    /\ r.FIL <= defaultPool.FIL
    /\ r.debt <= defaultPool.debt
    /\ defaultPool' = [FIL |-> defaultPool.FIL - r.FIL, debt |-> defaultPool.debt - r.debt]

-----------------------------------------------------------------------------
(* Stakes.                                                                 *)

\* The assertion of _computeNewStake.
StakeComputable == totalCollateralSnapshot = 0 \/ totalStakesSnapshot > 0

ComputeNewStakeDividedFirst(coll) ==   \* mutant: the ratio is floored on its own
    IF totalCollateralSnapshot = 0
      THEN coll
      ELSE coll * (totalStakesSnapshot \div totalCollateralSnapshot)

ComputeNewStake(coll) ==
    IF totalCollateralSnapshot = 0
      THEN coll
      ELSE (coll * totalStakesSnapshot) \div totalCollateralSnapshot

NewTotalStakesOverCounted(u, stake) == totalStakes + stake   \* mutant
NewTotalStakes(u, stake) == (totalStakes - Troves[u].stake) + stake

-----------------------------------------------------------------------------
(* The sorted list.  Whatever the hints, SortedTroves inserts at a place   *)
(* where the new node is in order with its two neighbours, and hints that  *)
(* name such a place are taken: any of them is a possible outcome.         *)

PositionOf(list, u) == CHOOSE i \in DOMAIN list : list[i] = u

InsertPositions(list, nicr) ==
    {i \in 1..(Len(list) + 1) :
        /\ i = 1 \/ getNominalICR(list[i - 1]) >= nicr
        /\ i = Len(list) + 1 \/ nicr >= getNominalICR(list[i])}

Insert(list, u, nicr) ==
    /\ nicr > 0
    /\ \E i \in InsertPositions(list, nicr) : sortedTroves' = InsertAt(list, i, u)

ReInsert(u, nicr) ==
    Contains(sortedTroves, u) /\
    Insert(RemoveAt(sortedTroves, PositionOf(sortedTroves, u)), u, nicr)

-----------------------------------------------------------------------------
(* Updating and closing a trove.                                           *)

\* New collateral and debt for u, with its stake and its place in the list.
UpdateTrove(u, coll, debt, snapshot) ==
    LET stake == ComputeNewStake(coll)
    IN  /\ StakeComputable
        /\ Troves[u].stake <= totalStakes
        /\ Troves' = [Troves EXCEPT ![u].coll = coll, ![u].debt = debt, ![u].stake = stake]
        /\ rewardSnapshots' = [rewardSnapshots EXCEPT ![u] = snapshot]
        /\ totalStakes' = NewTotalStakes(u, stake)
        /\ ReInsert(u, ComputeNominalCR(coll, debt))
        /\ UNCHANGED TroveOwners

AtLeastOneTrove == Len(TroveOwners) >= 1 /\ Len(sortedTroves) >= 1   \* mutant: off by one
MoreThanOneTrove == Len(TroveOwners) > 1 /\ Len(sortedTroves) > 1

OwnersTruncated(u) == Front(TroveOwners)   \* mutant: the last owner is lost
\* _removeTroveOwner swaps the last owner into the place of u.
OwnersWithout(u) ==
    Front([TroveOwners EXCEPT ![Troves[u].arrayIndex + 1] = Last(TroveOwners)])

\* _removeStake and then _closeTrove.
RemoveStakeAndCloseTrove(u, closedStatus) ==
    LET index == Troves[u].arrayIndex
    IN  /\ MoreThanOneTrove
        /\ index < Len(TroveOwners)
        /\ Troves[u].stake <= totalStakes
        /\ Contains(sortedTroves, u)
        /\ totalStakes' = totalStakes - Troves[u].stake
        /\ Troves' = [Troves EXCEPT
             ![u] = [NoTrove EXCEPT !.status = closedStatus, !.arrayIndex = index],
             ![Last(TroveOwners)].arrayIndex = index]
        /\ rewardSnapshots' = [rewardSnapshots EXCEPT ![u] = NoSnapshot]
        /\ TroveOwners' = OwnersWithout(u)
        /\ sortedTroves' = RemoveAt(sortedTroves, PositionOf(sortedTroves, u))

-----------------------------------------------------------------------------
(* The surplus pool.                                                       *)

AccountSurplusReceived(u, amount) ==   \* mutant: counts FIL not yet sent
    [collSurplusPool EXCEPT !.FIL = @ + amount, !.balances[u] = @ + amount]
AccountSurplus(u, amount) == [collSurplusPool EXCEPT !.balances[u] = @ + amount]

-----------------------------------------------------------------------------
(* Transactions.                                                           *)

NoTotals == [
    totalCollInSequence      |-> 0, totalDebtInSequence      |-> 0,
    totalCollGasCompensation |-> 0, totalDebtGasCompensation |-> 0,
    totalDebtToOffset        |-> 0, totalCollToSendToSP      |-> 0,
    totalDebtToRedistribute  |-> 0, totalCollToRedistribute  |-> 0,
    totalCollSurplus         |-> 0 ]

NoLiquidation == [running |-> FALSE, batch |-> FALSE, recovery |-> FALSE, todo |-> <<>>,
                  remainingDebtTokenInStabPool |-> 0, entireSystemDebt |-> 0,
                  entireSystemColl |-> 0, totals |-> NoTotals]

NoRedemption == [running |-> FALSE, todo |-> <<>>, remainingDebtToken |-> 0,
                 totalDebtTokenToRedeem |-> 0, totalFILDrawn |-> 0]

Idle == ~liquidation.running /\ ~redemption.running

StartTransaction == Idle /\ txs < MaxTxs /\ txs' = txs + 1

\* A failed require or running out of gas undoes the whole transaction.
Revert ==
    /\ ~Idle
    /\ Troves' = saved.Troves
    /\ rewardSnapshots' = saved.rewardSnapshots
    /\ TroveOwners' = saved.TroveOwners
    /\ sortedTroves' = saved.sortedTroves
    /\ totalStakes' = saved.totalStakes
    /\ totalStakesSnapshot' = saved.totalStakesSnapshot
    /\ totalCollateralSnapshot' = saved.totalCollateralSnapshot
    /\ L' = saved.L
    /\ activePool' = saved.activePool
    /\ defaultPool' = saved.defaultPool
    /\ collSurplusPool' = saved.collSurplusPool
    /\ stabilityPool' = saved.stabilityPool
    /\ balanceOf' = saved.balanceOf
    /\ liquidation' = NoLiquidation
    /\ redemption' = NoRedemption
    /\ saved' = Deployed
    /\ UNCHANGED <<price, txs>>

=============================================================================
