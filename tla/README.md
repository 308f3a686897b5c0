# The protocol in TLA+

TLA+ models, TLC runs and TLAPS proofs for the code of this repository: the
contracts of a Liquity-style stablecoin on Filecoin (`src/contracts`), and the
scripts that deploy, administer and measure them (`src/deployments`, `src/utils`,
`src/gasTest`). Borrowers lock FIL in *troves* and mint a debt token; the protocol
liquidates troves below a minimum collateral ratio and lets anybody redeem debt
token for FIL at face value.

1. [The system](#1-the-system)
2. [Modules](#2-modules)
3. [Modelling decisions](#3-modelling-decisions)
4. [Properties and runs](#4-properties-and-runs)
5. [Where the code and its comments disagree](#5-where-the-code-and-its-comments-disagree)
6. [What is proved](#6-what-is-proved)
7. [Not modelled](#7-not-modelled)
8. [Running it](#8-running-it)

## 1. The system

| Component | State | Operations | Hard behaviour | What makes it correct |
|---|---|---|---|---|
| `TroveManager` | troves (status, debt, coll, stake, array index), reward snapshots, owners array, `totalStakes` and the two snapshots, `L_FIL`, `L_Debt` and their error terms, base rate | `liquidate`, `liquidateTroves`, `batchLiquidateTroves`, `redeemCollateral`, and the helpers the borrower's contract calls | loops over a list that shrinks; pools settled after the loop; two modes, left in the middle of a loop; stakes and rewards by floor division; a rate that decays by whole minutes | pools and troves agree; redistributed collateral is payable; totals of a loop are what the pools hold; a trove always stays; the decay keeps pace |
| `BorrowerOperations` | none | `openTrove`, `addColl`, `withdrawColl`, `withdrawDebtToken`, `repayDebtToken`, `adjustTrove`, `closeTrove`, `claimCollateral`, `moveFILGainToTrove` | requires that differ by mode, each computing its own idea of the new ratios | no transaction trips or worsens recovery mode; no trove below the minimum debt |
| `ActivePool`, `DefaultPool` | FIL and debt | increase, decrease, send | changed by five contracts, in several calls of one transaction | what they record is owed by troves |
| `CollSurplusPool` | FIL, claims per account | `accountSurplus`, `claimColl` | the claim is recorded before the FIL is sent | claims are backed |
| `GasPool` | debt token balance | none of its own | minted once, burned or paid on four paths | holds the reserve of each open trove |
| `StabilityPool`, `CommunityIssuance` | deposits, FIL, product `P`, sums `S` and `G` by epoch and scale, snapshots, front ends; supply cap, cumulative issuance | `provideToSP`, `withdrawFromSP`, `withdrawFILGainToTrove`, `offset`, `registerFrontEnd`; issuing, sending, cap reset | scale and epoch changes, error feedback, depositor and front end rounded apart; a cap reset between issue and send | deposits and gains are held; nobody takes another's |
| `SortedTroves` | a doubly linked list | `insert`, `remove`, `reInsert`, hint search | hints that are out of date; order that is never restored | the sequence the other contracts rely on; every insertion in order with its neighbours |
| `PriceFeed`, `PythCaller`, `TellorCaller` | last good price, one of five states, last Tellor value | `fetchPrice` | two oracles that break, freeze, disagree and recover; disputes | fresh, undisputed, confirmed prices; trust returns |
| `DebtToken` | balances, allowances, nonces, authorizations | mint, burn, transfers, `permit`, `transferWithAuthorization` | replay, windows | supply changes with the debt of the pools only |
| `ProtocolTokenStaking` | stakes, `F_FIL`, `F_DebtToken`, snapshots, unallocated fees | `stake`, `unstake`, fee increases, withdrawal of unallocated fees | fees while nothing is staked; floors per unit | holds what it owes |
| `ProtocolToken`, lockups | balances, allocations by year, unlock times | allocations, withdrawal | a year nobody claims | each allocation once |
| `Unipool` | reward rate, period, stakes | `stake`, `withdraw`, `claimReward`, `withdrawAndClaim` | the period extends while nothing is staked | the period is kept; holds what it owes |
| `HintHelpers`, `MultiTroveGetter`, proxy scripts | none | views, batches of calls | hints must be those of the transaction that uses them | a redemption with fresh hints redeems what they promise |
| `deployments/deploy.js`, `hardhatDeploymentHelpers.js` | the output file, the nonce of the wallet | deploy or load, check, create the pair | crashes between a transaction and its record; addresses computed ahead | every contract is given the right addresses |
| `change-owners.js`, `upgrade-contracts.js`, `deploy-mock-price-feed.js`, `multisig.js` | pending transactions, owners, proposals | hand-over, upgrade, propose | dropped, pending and repeated transactions | the ProxyAdmin is handed over last; the hand-over completes |
| `gasTest/*.js`, `testHelpers.js` | none | scripted scenarios with assertions | up to 65 troves in one transaction | the assertions |
| `allocate.js`, fuzz test | none | see section 7 | | |

How they interact. `BorrowerOperations` and `TroveManager` are the entry points.
Both read the price, change troves and pools, mint or burn debt token, re-insert
troves in `SortedTroves` and pay their fees to `ProtocolTokenStaking`. A liquidation
closes troves one at a time, moves their pending rewards from the default to the
active pool, and at the end offsets part of the debt against the stability pool,
redistributes the rest through `L_FIL` and `L_Debt`, sends the surpluses, takes the
snapshots and pays the liquidator. A redemption walks up from the trove with the
lowest ratio at or above MCR, and burns and sends at the end. The stability pool
calls back into `BorrowerOperations` when a depositor turns a gain into collateral,
and triggers an issuance at every operation.

The chain executes one transaction at a time, so concurrency is the order of
transactions: somebody else's transaction, or a new price, lies between any two of
one's own, and what was computed off chain (hints, arrays of troves) is out of date
when it is used. Inside a transaction the hazards are loops, state settled later than
it is decided, and reverts. The scripts are concurrent with the chain: their
transactions wait, may be dropped or revert, and the process may die at any `await`.

## 2. Modules

| Module | Models | Uses |
|---|---|---|
| `ProtocolMath` | `ProtocolMath.sol`, constants and helpers of `ProtocolBase.sol` | |
| `TroveManager` | the storage of the core contracts, and the internal functions of `TroveManager.sol` that more than one entry point uses (rewards, stakes, list, closing) | `ProtocolMath` |
| `BorrowerOperations` | `BorrowerOperations.sol`, `CollSurplusPool.claimColl`, the transfer of a stability pool gain | `TroveManager` |
| `Liquidation` | the liquidation half of `TroveManager.sol`, `StabilityPool.offset` as far as the totals | `TroveManager` |
| `Redemption` | the redemption half of `TroveManager.sol` | `TroveManager` |
| `TroveSystem` | the composition: `Init`, `Next`, fairness, types; deposits, staking claims and the price | the three above |
| `Sums` | the sum of a function as the size of a set | |
| `TroveProperties` | what is claimed of the trove system | `TroveSystem`, `Sums` |
| `MCTroveSystem` | instances for TLC | `TroveProperties` |
| `HintHelpers` | `getRedemptionHints` | `TroveSystem` |
| `GasScripts` | 99 scripts of `src/gasTest`, run on the composition | `TroveSystem`, `HintHelpers` |
| `DecimalPower` | `_decMul` and `_decPow` of `ProtocolMath.sol` | |
| `StabilityPool` | `StabilityPool.sol` with `CommunityIssuance.sol` | `DecimalPower`, `Sums` |
| `MCStabilityPool` | its symmetry | `StabilityPool` |
| `TroveList` | the sequence that `SortedTroves` promises: an abstract specification | |
| `SortedTroves` | `SortedTroves.sol`: nodes, links, hints, both walks | implements `TroveList` |
| `PriceFeed` | `PriceFeed.sol`, `PythCaller.sol`, `TellorCaller.sol` and the two oracles | |
| `Unipool` | `Unipool.sol` | `Sums` |
| `Fees` | the base rate and the fees of `TroveManager.sol`, `_triggerBorrowingFee`, `ProtocolTokenStaking.sol` | `DecimalPower`, `Sums` |
| `MCRewards` | instances of the two | `Unipool`, `Fees` |
| `Deployment` | `deploy.js`, `hardhatDeploymentHelpers.js`, the wallet and the chain | |
| `Administration`, `MCAdministration` | `change-owners.js`, `upgrade-contracts.js`, `deploy-mock-price-feed.js`, `multisig.js`, the node | |
| `SumsProofs` | lemmas about sums: one value changed, two functions added, all values multiplied; and about loops | `Sums`, TLAPS |
| `TroveProofs` | theorems on the trove system: first on the types, the debt, the owners array and the reserves, then on the sums and on the limits: ratios, minimum debt, losses, trackers | `TroveProperties`, `SumsProofs` |
| `PoolProofs` | theorems about deposits and their gains | `StabilityPool`, `SumsProofs` |
| `ListProofs` | the refinement of `TroveList` by `SortedTroves` | `SortedTroves`, `SumsProofs` |
| `PriceFeedProofs` | theorems about the oracles | `PriceFeed`, TLAPS |
| `RewardsProofs` | theorems about the two reward contracts and the decay | `Unipool`, `Fees`, `SumsProofs` |
| `DeploymentProofs` | theorems on the addresses that contracts are given | `Deployment`, TLAPS |
| `AdministrationProofs` | the theorem about the hand-over | `Administration`, TLAPS |

Names follow the source. The correspondence, per operation:

| Code | Model |
|---|---|
| `openTrove` | `OpenTrove` (`OpenTroveAtFee` for one fee) |
| `_adjustTrove`, through each of its callers | `AddColl`, `WithdrawColl`, `WithdrawDebtToken`, `RepayDebtToken`, `AdjustCollAndDebt`, `WithdrawFILGainToTrove`, all by `AdjustTrove` |
| `closeTrove`, `claimCollateral` | `CloseTrove`, `ClaimCollateral` |
| `liquidateTroves` | `BeginSequence`, then per trove `LiquidateTrove`, `LeaveTrove` or `StopSequence`, then `SettleLiquidation` |
| `batchLiquidateTroves`, `liquidate` | `BeginBatch`, then the same |
| `redeemCollateral` | `BeginRedemption`, then per trove `RedeemAndClose`, `RedeemPartially` or `CancelPartial`, then `SettleRedemption`; its fee and the rate: `Fees!RedeemFIL` |
| a `require`, `assert` or SafeMath subtraction that fails, or no gas left, in a loop | `Revert` |
| `provideToSP`, `withdrawFromSP`, as the trove system sees them | `ProvideToSP`, `WithdrawFromSP` |
| the stability pool's own operations | the actions of the same names in `StabilityPool`; `updateProtocolTokenSupplyCap`, and `Supply` for tokens that arrive |
| `insert`, `reInsert`, `remove` of the list | the same names in `SortedTroves`; `Redistribution` lets ratios drift |
| `fetchPrice` | `Fetch`, one operator per status of the feed; the oracles: `PythUpdates`, `PythStopsOrWorks`, `TellorReports`, `TellorStopsOrWorks`, `TellorDispute`; for the trove system, `SetPrice` |
| `_triggerBorrowingFee`, `decayBaseRateFromBorrowing` | `TriggerBorrowingFee` |
| `stake`, `unstake`, `withdrawUnallocatedFIL` and `-DebtToken`, `increaseF_FIL` and `-DebtToken` | `Stake`, `Unstake`, `WithdrawUnallocated`, `CollectFee`; for the trove system, `ClaimStakingGains` |
| the operations of `Unipool` | the actions of the same names |
| `deploy.js` | `Start`, `ComputeContractAddresses`, per contract `LoadPrevious`, `DeployContract` or `DeployImplementation`, `DeployProxyAdmin`, `DeployProxy`, then `SaveDeployment`; `CheckContractAddresses`, `GetPair`, `CreatePair` |
| what may go wrong there | `Crash`, `TransactionReverts`, `ForeignTransaction`, `SomebodyCreatesPair`, `CreatePairReverts` |
| `change-owners.js` | `StartHandover`, `Transfer`, `WaitForBatch`, `WaitForRest`, `TransferAdmin`, `End` |
| the two upgrade scripts | `StartUpgrade`, `DeployAggregator`, `RecordAggregator`, `ReadAdminOwner`, `AddCall`, `UpgradeProxy`, `AwaitUpgrade`, `SetPriceAggregator`, `Submit` |
| the node, the multisig and the operator | `Mine`, `Drop`, `ExecuteProposal`, `Crash` |

## 3. Modelling decisions

**Steps.** A transaction that does not loop is one action whose guard is the
conjunction of its requires and of every subtraction that SafeMath would revert; a
transaction that fails leaves no trace and is no step. Liquidation and redemption
take one step per loop iteration, with the locals of the loop in `liquidation` and
`redemption` and the storage to go back to in `saved`. Nothing else runs in between
(`Idle` guards the start of every transaction), as on the chain. The steps are there
because invariants are to hold *in the middle* of the loops, where the code relies on
them, and because a revert then is a step whose effect is checked like any other. A
script takes one step from one `await` to the next.

**Numbers.** Amounts are exact integers and every division is the code's floor
division. Precisions and ratios are constants; the runs take small ones, so that
nearly every division loses something and error terms, floors and remainders matter
in states TLC reaches. 256-bit overflow reverts in the code and needs amounts no
supply reaches: it is left out.

**One contract, two views.** The core is split where the state of one contract
reaches another only as an amount. `TroveSystem` knows of the stability pool its
total, its FIL and its debt tokens, and takes the borrowing rate and the price as
inputs; `StabilityPool`, `Fees` and `PriceFeed` compute them and take what the core
does to them (offsets, borrowings, redemptions, calls) as inputs. Rates and prices
are members of sets that a constant names, so that the theorems hold for every value
the other view may produce. A depositor's gain is coarser: in `TroveSystem` it is
nothing or all the FIL of the pool (`FILGains`), its two ends; that no gain is more
than the pool has, but for a rounding, is shown in `StabilityPool`.

**The list** is a sequence in the trove system. An insertion may choose any position
in order with its two neighbours (`InsertPositions`); that the linked list with its
hints does nothing else is the refinement that `SortedTroves` checks and `ListProofs`
proves.

**Debt token holders** are four: the users together, the gas pool, the stability pool
and the staking contract. Who among the users holds what changes freely by transfers
and limits nothing but the payer's own transaction.

**Addresses** in `Deployment` are the nonces that created them: what an address
computed ahead depends on, and nothing else.

**Transactions of the scripts.** In `Deployment` a transaction is sent and mined in one
step, so none is pending when the script dies. A script that dies while one is pending
behaves as if it had died after it, `Crash` at `save`, or before a `ForeignTransaction`
that takes the nonce. In `Administration` transactions do wait and may be dropped;
there, the owner of a contract is read and the transaction sent in one step: one of an
earlier run that is mined in between has the lower nonce, and is to the later one as if
it were mined just after the sending.

**Seeded faults.** Next to some definitions stands a second one marked `mutant`: the
definition with a fault a bug could have, which no action uses. Substituting it for
the real one makes TLC report the property it is listed with in `PROJECT.json`; this
is how we know the property has a grip on that code.

**History.** Some variables record what the code does not: `credited` in `Unipool`,
`peak` in `Fees`, `source` and `disputed` in `PriceFeed`, `history` in `StabilityPool`
(what a unit of deposit earned in all, the protocol tokens issued and not sent, and how
many of these a reset of the cap counted again), `firstNonce` and `runs` in `Deployment`. No guard of a modelled
operation reads them, except for counters that bound the model.

## 4. Properties and runs

| Run | Instance | Checked | What it shows |
|---|---|---|---|
| `Redistribution` | 3 users, 8 transactions, prices 5, 7 and 10, empty stability pool, top-ups of 6, redemptions of 8 and 11 with and without a limit of one iteration | `ActivePoolMatchesTroves`, `DefaultPoolCoversPendingFIL`, `StakesMatch`, `RegistryConsistent`, `TroveDebtAboveMinimum`, `LastTroveStays`, `RedemptionKeepsNetWorth`, `RedistributionHasBearer` | redistributed amounts stay accounted for and payable; a debt that is redistributed has a stake to bear it; stakes add up; array, list and troves name the same users; a redemption cut short anywhere takes no value from owners |
| `Offset` | 3 users, 9 transactions, deposits of 9 and 25 (smaller and larger than a trove's debt), single troves, sequences and batches that name a trove twice | `TypeOK`, `DebtBacked`, `GasPoolCoversReserves`, `SurplusBacked`, `SettlementFunded`, `RecoveryTrackersExact`, `LossIsCapped`, `SettlementConserves` | every liquidation that closed a trove can settle, and its settlement moves between the pools all it takes, offset, redistribution and surplus, but the compensation; recovery mode is left at the right trove; owners above MCR lose at most the cap |
| `Borrowing` | 3 users, 5 transactions, with and without a fee, all directions of adjustment, fairness | `UsersCannotTripRecovery`, `RecoveryNeverWorsens`, `TransactionsEnd` | no sequence of legal operations takes the system below CCR or further below it; every loop ends |
| `PendingDebt` | 3 users | `PendingDebtNoticed` | violated: section 5 |
| `PoolDeposits` | 2 depositors with up to 28 tokens, precision 10, scale factor 3, 3 offsets of 5 FIL, 2 epochs, 3 scales | `DepositsNearlyCovered`, `FILGainsNearlyCovered`, `OthersNeverTakeGains` | deposits can be withdrawn but for the error one offset hands to the next; gains are in the pool but for what that error earned; nobody's operation takes another's gain |
| `PoolGains` | 2 users, one of whom may be the other's front end, precision 10, scale factor 4, a kickback of 40%, 2 offsets, 3 minutes of issuance, cap resets at any time | `TokenGainsNearlyCovered` | the issuance contract holds the tokens it owes and has still to issue, but for those that a reset counted twice |
| `SortedTroves` | 4 troves, ratios 1 to 3, every pair of hints | `ImplementsSequence`, `OperationsKeepOrder` | the linked list implements the sequence, and its operations keep an order they find |
| `PriceFeed` | timeout 2, a dispute buffer of 1, time to 4, 2 reports, answers with one and two digits | `DisputedValueIsNotRead`, `StoredPriceIsFresh`, `LargeChangeIsConfirmed`, `TrustReturns` | the five states of the feed against oracles that do anything |
| `Rewards` | `Unipool`: 2 users, duration 3, reward 10, time to 6. `Fees`: 2 stakers, minutes of two ticks, a rate that halves each minute, 3 borrowings or redemptions | `PeriodIsKept`, `RewardsCovered`, `FeesCovered`, `DecayKeepsPace` | the program lasts as long as somebody stakes; both contracts hold what they owe; no frequency of operations stops or hastens the decay |
| `Deployment` | all 19 contracts, 2 interruptions, networks with and without a ProxyAdmin | `ResumedWithoutLossIsWired`, `CheckedDeploymentIsWired`, `MismatchMeansInterference`, `DeploymentCompletes` | on both kinds of network, a deployment made in one run is wired, and the script can be run until it is done; on one that has a ProxyAdmin, a deployment that loses no nonce is wired however often it is resumed, and a mismatch has a cause outside the script |
| `Administration` | 3 contracts, batches of 2, 3 upgrades, 3 faults | `ProxyAdminLast`, `HandoverCompletes` | the order of the hand-over survives drops, crashes and repetition |
| `Scripts` | 99 scripts, up to 65 troves in one transaction | `ScriptsFinish` | every transaction of every script succeeds and every assertion holds |

The runs of the trove system take a precision of 10, `MCR = 11`, `CCR = 15`, a gas
compensation of 1 and a minimum net debt of 8.

*Why the bounds are enough.* Three users are the fewest with which a redistribution
has two bearers whose shares round differently, a list has a neighbour on each side,
and a batch can name a closed trove and an open one. The prices take a trove from
above CCR to between MCR and CCR, to below MCR and to below 100%: all four cases of
the recovery-mode liquidation. The transactions suffice for what takes longest: open
three troves, a price change, a redistribution, an adjustment, a second price and a
second redistribution with the error of the first. In the stability pool three
offsets reach a scale change, an emptied pool, and an offset after each; deposits
of nearly three times the precision of `P` make its error visible: with these bounds
the gains of all depositors do exceed the pool's FIL (`PoolUnpaid`), so that the
allowance of `FILGainsNearlyCovered` is used. Three minutes are an issuance, a reset
of the cap and an issuance after it, or two issuances with the error of the first. Four nodes give the list's
walks an inner place to miss from both sides. Two reports and a timeout of two let
either oracle be broken, frozen, live, or live with the other's value. Twice the
duration of a program leaves time for a pause before its end and one after it.
Three fee operations are a redemption and two borrowings, enough to lose parts of
two minutes. Two interruptions are a fault and one more while it is being repaired.
Every action and every branch of the next-state relations is taken in some passing
run.

*The scripts.* `GasScripts` runs all 73 scripts of the two liquidation files and 26 of
`gasCalc.js`: redemptions with and without pending rewards, liquidations, repayment
in full and the views. The numbers of troves are the scripts' own. FIL are counted in
fortieths and debt tokens in halves; where a script opens troves of hundreds of FIL,
ours hold a hundredth or a twentieth, and the whale, which the scripts give a billion,
has thousands, still more than all defaulters together. With these the ratios are
those of the scripts. The run has no nondeterminism but the choice of the script:
what it adds to the others is the length of the loops.

*Symmetry and deadlock.* Users are interchangeable in every input, so runs of safety
properties take them as a symmetry set; runs with a liveness property do not.
Deadlock checking is off where a bound, or the end of a script, stops the system.
`SortedTroves` and `PriceFeed` have it on.

*Allowances in the properties.* `RecoveryNeverWorsens` allows a unit of the precision
of the TCR, because the code compares ratios rounded down. `DepositsNearlyCovered`
allows the rounding of the loss per unit, one unit of the precision of `P` for each
token the pool ever held; the exact claim is false (`PoolFavored`).
`FILGainsNearlyCovered` allows what that much of a deposit earned: the same times the
FIL per unit of all offsets so far; without it the claim is false (`PoolUnpaid`). `DecayKeepsPace`
allows a unit for each operation that floors the rate; its upper bound, that the rate
decays once within a minute and again within each two minutes less a second, is what
the rule on the time of the last operation gives, no more. `LargeChangeIsConfirmed`
names the branch in which nothing is compared (`PriceJump`). `TokenGainsNearlyCovered`
has the like allowance, and another for the tokens that were issued and not sent when
the cap was reset: the reset counts them twice (`CommunityIssuance.sol:73`, `CapReset`),
and what is missing is no more than these. `ResumedWithoutLossIsWired` excludes
those in which a nonce was lost (`ResumedDeployment`).

*Fairness.* Each assumption is one the code or its operators give, and nothing is
assumed of users, liquidators, oracles or prices.

- Trove system: a loop that can go on does (`WF` of `LoopStep`), and a transaction
  with no step left, where a require failed, is reverted (`WF` of `FailedRequire`):
  the virtual machine does both within the transaction. Running out of gas is allowed
  and never relied on.
- `PriceFeed`: the price is fetched again and again (`WF` of `Fetch`), as every
  operation of the protocol does. `TrustReturns` assumes, in the property, that both
  oracles come to be live and agree for good.
- `Deployment`: the script takes its next step and, when it has stopped, is started
  again (`WF` of `ScriptStep`): an operator wants the deployment done.
- `Administration`: the hand-over and the upgrade scripts take their steps and are
  run again, the node mines what it can, and a script that hangs on a transaction
  that was dropped is stopped (`WF` of each).
- `GasScripts`: a script awaits each transaction and sends the next.

## 5. Where the code and its comments disagree

`PendingDebt` is listed in `PROJECT.json`. The other configurations below are kept to
be run by hand; TLC finds each of them violated, with a short trace.

- **`PendingDebt`** (`PendingDebtNoticed`). `hasPendingRewards` compares the FIL sums
  only. A redistribution of much debt and little collateral can raise `L_Debt` and
  leave `L_FIL`: the trove owes pending debt, counted in its ratio, and is said to
  have none, so that `applyPendingRewards` leaves it where it is. The comment
  (`TroveManager.sol:1373`) says "less than the current rewards per-unit-staked sum",
  of which there are two. At 18 digits it takes a redistribution whose collateral times
  1e18, with the last error, is below `totalStakes`, while its debt times 1e18 is not.
- **`ListOrder`** (`SortedByNICR`). `SortedTroves.sol:23` relies on liquidations to
  keep the order of the ratios. Rewards are floored per trove, so two neighbours with
  close ratios can swap. At 18 digits the difference is some wei.
- **`RecoveryDebtIncrease`** (`DebtIncreaseImprovesTCR`). `BorrowerOperations.sol:681`
  says an accepted debt increase in recovery mode improves the ICR and by extension
  the TCR; the check compares floored ratios with `>=`, so both may fall by less than
  a unit.
- **`PoolFavored`** (`DepositsCovered`). `StabilityPool.sol:587` wants the error of a
  loss to favour the pool. The next offset takes the error back from its own loss,
  for whoever deposits then: when the one who bore it has left, the remaining deposits
  exceed the total by the rounding.
- **`PoolUnpaid`** (`FILGainsCovered`). For the same reason: a deposit in excess of the
  total earns as much as any other, so that the gains of all depositors may exceed the
  FIL the pool got for them, and the last to claim lacks the difference. At precision 10
  it is a whole unit; `FILGainsNearlyCovered` bounds it: at 18 digits, by a
  billion wei for a billion tokens that earned one FIL each.
- **`CapReset`** (`TokenGainsAreHeld`). `CommunityIssuance.sol:73-87` takes the balance
  for the new cap. Tokens that depositors have earned and not claimed are part of the
  balance: the new curve issues them again, and the contract then owes more than it has.
- **`PoolFrontEnd`** (`FrontEndStakeCoversDeposits`). `StabilityPool.sol:827` says a
  front end's stake is the sum of its depositors' deposits. It is floored as one
  figure at each of their operations and falls below the sum; the subtraction at line
  404 then reverts the withdrawal of the last full deposit.
- **`PoolProduct`** (`ProductStaysPositive`). `assert(newP > 0)` at
  `StabilityPool.sol:653`. One scale change may not be enough for a small factor next
  to a small `P`: the assertion fails and the liquidation reverts.
- **`PriceJump`** (`LargeChangeIsAlwaysConfirmed`). `PriceFeed.sol:36` speaks of the
  maximum deviation allowed; in `usingTellorChainlinkFrozen` with Tellor broken (lines
  276-279) a Chainlink answer is taken whatever its distance from the last price.
- **`BaseRateGriefing`** (`NoMinuteIsLost`). `TroveManager.sol:1710` says of the rule
  on the time of the last operation: "This prevents base rate griefing." It prevents
  that the decay is stopped. Operations at intervals just below two minutes still lose
  nearly half of it, since the part of a minute that has passed is dropped each time.
- **`ResumedDeployment`** (`ResumedIsWired`). `deploy.js:29` gives the order of the list
  as what makes the computed addresses correct. A run that is resumed after a nonce was
  lost computes the addresses of what is left from the present nonce and loads what was
  deployed with the former ones; the check compares present addresses only and passes.
- **`NewNetwork`** (`NewNetworkMismatchMeansInterference`). `deploy.js:67` skips two
  nonces for the ProxyAdmin. The plugin uses one, as `gasCalc_liquidateTroves.js:40-43`
  counts it: a first deployment on a new network that nothing disturbs ends in the
  mismatch of `checkContractAddresses`.

The messages of some scripts in `gasCalc.js` are older than their amounts. With the
minimum debt of 20 tokens, "redeemed 101 token hits 2 Troves" and the full redemptions
of "500 token" and above reach fewer troves, or end in a partial redemption; the
scripts assert nothing about it, and the model runs what they do.

## 6. What is proved

TLAPS checks the following for any set of users, any inputs, prices, precisions and
ratios that satisfy the assumptions the modules name, and without a bound on the
behaviour other than natural `Max...` constants.

| Theorem | Statement | Invariant it goes through |
|---|---|---|
| `TroveProofs!TypeCorrect` | `[]TypeOK` | `TypeInv` |
| `TroveProofs!DebtIsBacked` | `[]DebtBacked` | `TypeInv /\ DebtInv` |
| `TroveProofs!DepositsAreBacked` | `[]DepositsBacked`, of which there is no run | the same |
| `TroveProofs!LastTroveIsKept` | `LastTroveStays` | the same |
| `TroveProofs!RegistersAgree` | `[]RegistryConsistent` | and `RegInv` |
| `TroveProofs!ReservesAreKept` | `[]GasPoolCoversReserves` | the same |
| `TroveProofs!RecoveryNotTripped` | `UsersCannotTripRecovery` | `TypeInv` |
| `TroveProofs!RecoveryDoesNotWorsen` | `RecoveryNeverWorsens` | `SumInv /\ LimitInv` |
| `TroveProofs!TrackersAreExact` | `[]RecoveryTrackersExact` | `LimitInv` |
| `TroveProofs!MinimumDebtIsKept` | `[]TroveDebtAboveMinimum` | `LimitInv` |
| `TroveProofs!LossesAreCapped` | `LossIsCapped` | `TypeInv /\ DebtInv` |
| `TroveProofs!SettlementsConserve` | `SettlementConserves` | `TypeInv /\ DebtInv` |
| `PriceFeedProofs!DisputedValuesAreNotRead` | `[]DisputedValueIsNotRead` | `IInv` |
| `PriceFeedProofs!StoredPricesAreFresh` | `StoredPriceIsFresh` | `IInv` |
| `PriceFeedProofs!LargeChangesAreConfirmed` | `LargeChangeIsConfirmed` | none beyond the step |
| `TroveProofs!ActivePoolMatches` | `[]ActivePoolMatchesTroves` | and `SumInv` |
| `TroveProofs!StakesAreSummed` | `[]StakesMatch` | the same |
| `TroveProofs!SurplusIsBacked` | `[]SurplusBacked` | the same |
| `TroveProofs!PendingIsCovered` | `[]DefaultPoolCoversPendingFIL` | the same |
| `TroveProofs!SettlementIsFunded` | `[]SettlementFunded` | the same |
| `PoolProofs!DepositsAreNearlyCovered` | `[]DepositsNearlyCovered` | `PoolProofInv` |
| `PoolProofs!FILGainsAreNearlyCovered` | `[]FILGainsNearlyCovered` | `GainsProofInv` |
| `PoolProofs!GainsAreSafeFromOthers` | `OthersNeverTakeGains` | `PoolProofInv` |
| `ListProofs!ListImplementsSequence` | `ImplementsSequence` | `ListInv` |
| `ListProofs!ListKeepsOrder` | `OperationsKeepOrder` | `ListInv` |
| `ListProofs!ListIsTwoWay` | `[]ListInv` | `ListInv` |
| `RewardsProofs!UnipoolTypeCorrect` | `[]TypeOK` | `IInv` |
| `RewardsProofs!PeriodKept` | `[]PeriodIsKept` | `IInv` |
| `RewardsProofs!RewardsAreCovered` | `[]RewardsCovered` | `IInv /\ CoveredInv` |
| `RewardsProofs!FeesAreCovered` | `[]FeesCovered` | `FeesInv` |
| `RewardsProofs!RateDecays` | `[]DecayedRateInRange` | `FeesInv` |
| `DeploymentProofs!ResumedDeploymentIsWired` | `[]ResumedWithoutLossIsWired` | `Inv` |
| `DeploymentProofs!MismatchNeedsInterference` | `[]MismatchMeansInterference` | `Inv` |
| `DeploymentProofs!DeploymentByOneRunIsWired` | `[]CheckedDeploymentIsWired` | `Inv /\ FirstRun` |
| `DeploymentProofs!TypesAreCorrect` | `[]TypeOK` | `Inv` |
| `AdministrationProofs!AdminIsLast` | `[]ProxyAdminLast` | `HandoverInv` |

**Types.** `TypeOK` says every stored amount is a *natural* number, so it is the
statement that no subtraction wraps; it is not inductive. Pending rewards are
`stake * (L - snapshot)`: natural only if no snapshot is ahead of `L`. And a revert
brings back a saved storage of which the same must hold. `TypeInv` adds
`SnapshotsBehind` for the storage and for `saved`. The step that needs most is
`LiquidateTrove`: `LiquidationValuesType` shows that the parts a trove is split into
are naturals, which uses that a trove below MCR has debt (a debt of 0 has the infinite
ratio) and that a share `(a * c) \div b` with `c <= b` is at most `a`.

**Balances.** `DebtInv` strengthens three properties together: the balance equations
of the storage and of `saved`, that at most one loop runs, and that a running loop
never has more owners than were saved, so that a revert cannot go from some trove to
none. Each action then is linear arithmetic over what it mints, burns or moves.

**Registers.** `RegInv` says, of the storage and of `saved`, that each active trove's
index points at itself in the owners array, that every owner in the array is active,
and that the sorted list is injective with the active users as its range; that the gas
pool holds the compensation times the length of the array plus what a running
liquidation owes; and that nothing is owed when none runs. The swap in
`_removeTroveOwner` is the case to look at: the last owner and the removed one may be
the same. That lengths are cardinalities follows from bijections, by the library's
theorem on counting.

**Limits.** `LimitInv` carries the recovery trackers, and the minimum debt of the troves
and of `saved`. `UsersCannotTripRecovery` needs no more than types: in each transaction
the TCR that the code computes from the pools before it moves anything is shown to be
the TCR after, pending rewards moved from one pool to the other included.
`RecoveryNeverWorsens` needs the sums: a debt increase must leave the trove a ratio of at
least CCR and of at least what it had, both floors, so that what the floor hides is less
than the debt of the trove; that debt is positive (the minimum) and a part of the active
pool's (the sum), and the TCR falls by one unit at most.
`LossIsCapped` follows from the cap being a floor of `MCR * debt / price`, and
`SettlementConserves` from adding up the transfers.

**Oracles.** `PriceFeedProofs` needs that what was read last was old enough when read
(`ReadLate`): a dispute within the buffer then removes a report that cannot have been
read. The maximum of the reports is chosen by `CHOOSE` from a set of naturals, which
the proof justifies by well-founded induction on `<`.

**Sums.** `Total(f)` is the size of the set that gives each `x` its `f[x]` pairs, so that
what a sum does when one value changes, or when two functions are added, is a fact of
cardinality: `SumsProofs` takes it from the library's theorems on finite sets. The one
induction, for the sum of a multiple, is stated for a *set* that contains 0 and each
successor (`InductionOnNat`), since the provers instantiate no operator. What this costs
is an assumption: users and stakers are finite sets.

`SumInv` says of the storage and of `saved` that the pools are the sums of what the
troves record (`TrovesSummed`), that nothing is `taken` out of the troves while no loop
runs, and that a running loop's totals are what it took, split without a remainder into
what its settlement moves (`Split`). For the default pool, the property itself is not
inductive: floors of single troves say nothing of the floor of a later one. `Covers` is:
what all troves are owed *before* the division by `DECIMAL_PRECISION`, with the
remainder that the last redistribution kept, is at most the pool's FIL times
`DECIMAL_PRECISION`. A redistribution adds the same to both sides, because its divisor
`totalStakes` is the sum of the stakes; a payment clears all that one trove is owed, and
takes only the quotient from the pool. `SettlementFunded` then adds what a loop has
promised of each pool and finds it there.

**Stability pool.** What a deposit has become is a floor of a quotient, so the sum of the
deposits is not inductive either. `ClaimsInv` is about what they would have become without
any division: a `Claim` counts in units that the `P` of every possible snapshot divides
(`CommonMultiple`: below `MaxP` there are finitely many), at either of the two scales that
count. A loss takes from every claim at least in proportion (`ClaimsShrink`), and the
offset, rounded up, takes as much of the total. When the claims exceed the total,
`LossKeepsClaims` shows that the excess pays its share of the loss and that what is left
over is at most the error that is handed to the next offset; when they do not, the loss
takes the rest from the error itself. So the claims exceed the total by less than
`MaxDeposits` *minus the present error*: the term that makes it inductive. An operation
writes a deposit down as its floor, which its claim covers. 
What the depositors are owed is treated alike. Without its divisions, a gain grows in
every offset by the gain per unit times the claim of its deposit, so that all gains
together grow by the gain per unit times the sum of the claims, which is the total and
its bounded excess. The total's part is what the pool got, with the remainder that it
keeps for the next offset; the excess earns `MaxDeposits` units of precision times the
gain per unit, which `history` adds up. A gain paid is a floor of what it was.

`OthersNeverTakeGains` needs
that snapshots lie behind the pool (`IsDeposit`), that nested floors are monotone, and
that one scaled up and floored twice is no more than the one floored once (`FloorScaled`).

**The list.** `ListInv` says that the nodes represent some sequence of distinct users, of
at most the allowed length: each links to the one before and the one after, head, tail
and size are the sequence's, and every other node, the zero address included, is empty.
Three things then have to be shown of every pair of hints. A pair that
`_validInsertPosition` accepts is a place of the sequence where the ratio is in order
with its two neighbours; it compares only one link, so that this needs the list to be
well linked, and a node outside it to have none. The walks end, since each link lowers the
distance to an end, and end on a valid pair: from a hint on its side of the ratio the walk
stays on that side until it meets the other or the end, where the pair is valid too; this
holds in any order of the ratios, and not from a hint on the wrong side, which is why
`_findInsertPosition` drops those. And linking or unlinking there is `InsertAt` or
`RemoveAt` of the sequence, in all four cases of each. The refinement mapping reads the
sequence along the links (`Chain`, a recursive function cut after as many nodes as there
are users, whence the assumption that the users are finite); `ChainIs` shows that it
finds the one represented. `OperationsKeepOrder` is then a fact about sequences.

**Rewards.** `RewardsProofs!IInv` says that the fields of the clock are naturals with
the last update not after the end nor the present, that no account was paid for more
than the reward per token has reached, and that nothing was credited before the start.
`CoveredInv` is the argument of the default pool once more: what the users are owed
before the division, and what the rate will stream until the end, is at most what the
contract holds times `PRECISION`. `FeesInv` says the same of each token of the staking
contract, with what nobody earned in the place of the stream; the lemmas on `Owings`
serve both.

**The decay.** `RateDecays` is about a recursive function: `Squaring`, the loop of
`_decPow`. TLA+ defines such a function as any that satisfies the equation, and that one
exists has to be shown: `LoopFunction` does it for every loop whose size shrinks, by
induction on the sets of sizes up to which a function is right. The bound on the power
is then an induction of the same kind.

**The deployment.** `DeploymentProofs` numbers the contracts in the order in which the
helper deploys them and speaks of one number, the *base* of an address `a` at position
`p`: `a - 2 * p`. A proxy takes two nonces, so that the base of the next address stays
the same from proxy to proxy, and every nonce that is lost raises it. Neither property
is inductive. That a contract was given the right addresses says nothing while the
others are missing; what is kept is that it was given, for another, either the address
in the file or one with a base between that of the first computation and its own
(`ProxiesGiven`). For this the file has to be a prefix of the order (`FileIsPrefix`),
its bases must not decrease, nor may the next one fall below them (`BasesGrow`,
`Ahead`), and the addresses that a run computed for what is missing must have one base,
not above what the next contract gets (`ComputedWithOneBase`): `ComputedAddress` counts
the missing contracts before each, and `deploy.js` lists the proxies in the order of
their deployment. When the file ends where the first computation put it, the bases in
between have no choice. The getter is last and gets what `checkContractAddresses` has
compared with the file (`CheckedParts`). For `MismatchMeansInterference` the invariant
has the base itself: a script that nothing interrupts has sent two transactions for the
wrappers when it computes, and finds every proxy `p` at `2 * p - 3`. Both are about a
network that has a ProxyAdmin; on another, section 5 has the counterexample. They hold
for any number of interruptions and any `AdminNonces`, with and without Uniswap.

`DeploymentByOneRunIsWired` is about any network, and needs no bases. `FirstRun` says
that the first run finds an empty file, has deployed itself what is recorded
(`DeployedByScript`), and has given each contract, for each other, the address that it
had computed. The last check has compared all these addresses with the file.

**The hand-over.** `HandoverInv` says that each contract the loop has passed belongs to
the multisig or is `Underway`: its transfer has a nonce of the batch, not yet mined,
where the node has that transfer or nothing. Only the running script sends, and always
beyond the nonces of its batch, so nothing else can take the free nonce of a dropped
transfer, the miner cannot pass it, and the wait for the batch does not end. A transfer
left behind by a script that died may revert; it then finds the contract handed over.
The transfer of the ProxyAdmin, pending or mined, therefore implies that all the others
are done, also those of an earlier run. The theorem is for any list of contracts,
any size of a batch and any number of faults.

*Only model-checked.*

- `TokenGainsNearlyCovered`: the stakes of front ends are floors of their own, rounded
  apart from the deposits of which they are the sum, and may lie on either side of it.
  The argument for the FIL gains, which weighs a gain by the claim of its own deposit,
  does not carry over to the two parts of one gain.
- `DecayKeepsPace` is no theorem for every precision either. `_decMul` rounds each product
  half up and squaring doubles the error, so that the power of a long interval may lie a
  few units above the product of the powers of its parts. With the constants of the
  contract, a rate of 960473725271320912 that decays over 33, 11 and 33 minutes ends 4
  units below what 77 minutes at once leave of it, and three operations account for 3.
  The instance halves the rate each minute at a precision of 1000, where the decay that is
  lost or hastened is a large part of the rate, and rounding a unit.
- `RedemptionKeepsNetWorth`: a partial redemption of a trove with pending debt writes its
  stake anew, with a floor that the constants decide about.
- `RedistributionHasBearer`: that some trove has a stake is more than that some trove is
  open. A stake is a floor and is 0 for constants that no deployment has; with the
  instance's it is not.
- `GasScripts` is about the finite lists of calls in the scripts, which TLC runs
  through in full.
- Liveness and `ENABLED` are out of the prover's reach.

## 7. Not modelled

- **`ProtocolToken`, `LockupContract`, `LockupContractFactory`, `allocate.js`.** An
  ERC-20 with an initial and an annual allocation, each one guard and one addition, and
  lockups with one beneficiary and one time. No step of another actor comes between
  check and use. That a year nobody claims is lost follows from the index by the year
  of the claim. `allocate.js` deploys lockups in a loop and allocates once.
- **`DebtToken`: allowances, `permit`, EIP-3009 authorizations.** Each is a guard and an
  assignment of one nonce in one transaction; what could be wrong there is in the
  hashing and the signature, which a model abstracts. No contract of the protocol
  calls them.
- **`PythCaller`**: a positive exponent, negated into a large `uint8`. Every price Pyth
  publishes has a negative one, and the model starts from the digits.
- **`HintHelpers.getApproxHint`** draws owners at random for the start of a search;
  `SortedTroves` checks the search from every start. **`MultiTroveGetter`** copies the
  list. Both run off chain and change nothing.
- **Proxy scripts** (`Proxy/*.sol`) run sequences of modelled calls in a user's own proxy.
- **Gas scripts** with random amounts, that mint from nowhere or follow single
  depositors: `gasCalc.js` has them beside those that are run. The other modules explore
  the same calls in every order. What the scripts measure, gas, is not modelled.
- **The fuzz test** (`PoolManager_AllDepositorsCanWithdrawTest.js`): random deposits,
  liquidations and withdrawals, in search of a deposit that cannot be withdrawn. The
  property is `DepositsNearlyCovered`, over every order of the calls.
- **A base rate of 0 after a redemption** (`TroveManager.sol:1625`) fails an assertion.
  The guard of `RedeemFIL` is that assertion; a redemption that small is no step.
- **`Dependencies/`** vendored from OpenZeppelin and others, `console.sol`, Uniswap's
  interface definitions, `TestContracts/`, and the access checks of one-time setters.
- **Reentrancy, gas and bytecode.** Every entry point that sends FIL is guarded against
  reentrance; gas is the choice of `Revert` at any step of a loop.

## 8. Running it

    tlc -workers 2 -config Offset.cfg MCTroveSystem.tla
    tlc -workers 2 -config PoolGains.cfg MCStabilityPool.tla
    tlc -workers 2 -config SortedTroves.cfg SortedTroves.tla
    tlc -workers 2 -config Rewards.cfg MCRewards.tla
    tlc -workers 2 -config Administration.cfg MCAdministration.tla
    tlc -workers 2 -config Scripts.cfg GasScripts.tla
    tlapm TroveProofs.tla

`PriceFeed` and `Deployment` are run with the configuration of their name. The
configurations of section 5 go with `MCTroveSystem` (`PendingDebt`, `ListOrder`,
`RecoveryDebtIncrease`), `MCStabilityPool` (`PoolFavored`, `PoolUnpaid`,
`CapReset`, `PoolFrontEnd`, `PoolProduct`), `PriceFeed` (`PriceJump`), `MCRewards` (`BaseRateGriefing`) and
`Deployment` (`ResumedDeployment`, `NewNetwork`). Each run takes from seconds to about
four minutes on two cores; the proof modules take minutes each from nothing.
