-------------------------------- MODULE Fees --------------------------------
(***************************************************************************)
(* The fees: the base rate they follow from (TroveManager.sol), which each *)
(* redemption raises and time decays by whole minutes, and the staking     *)
(* contract that shares them among the holders of the protocol token       *)
(* (ProtocolTokenStaking.sol) by sums of fees per unit staked.             *)
(*                                                                         *)
(* What a borrowing or a redemption does to troves is the business of      *)
(* TroveSystem, which takes the rates as inputs; here are its effects on   *)
(* the rate and on the stakers.  A transaction that reverts is no step.    *)
(***************************************************************************)
EXTENDS DecimalPower, Sums

CONSTANTS
    Stakers,
    SECONDS_IN_ONE_MINUTE,   \* in ticks of the clock
    MINUTE_DECAY_FACTOR,
    BETA,                    \* what a redeemed fraction is divided by
    REDEMPTION_FEE_FLOOR,
    BORROWING_FEE_FLOOR,
    MAX_BORROWING_FEE,
    Borrowings,              \* amounts of debt tokens borrowed
    Redemptions,             \* <<FIL drawn, fraction of the supply redeemed>>
    StakeAmounts,            \* protocol tokens staked or unstaked
    DeploymentTime,          \* block.timestamp at the deployment
    MaxFeeTime,              \* bound on the clock
    MaxFeeOperations,        \* bound on borrowings and redemptions
    MaxTokensStaked          \* bound on the protocol tokens staked

ASSUME FeesAssumption ==
    /\ IsFiniteSet(Stakers)
    /\ DECIMAL_PRECISION \in Nat \ {0} /\ MAX_MINUTES \in Nat
    /\ SECONDS_IN_ONE_MINUTE \in Nat \ {0}
    /\ MINUTE_DECAY_FACTOR \in 0 .. DECIMAL_PRECISION
    /\ BETA \in Nat \ {0}
    /\ REDEMPTION_FEE_FLOOR \in Nat
    /\ BORROWING_FEE_FLOOR \in Nat /\ MAX_BORROWING_FEE \in 0 .. DECIMAL_PRECISION
    /\ Borrowings \subseteq Nat \ {0} /\ Redemptions \subseteq (Nat \ {0}) \X Nat
    /\ StakeAmounts \subseteq Nat
    /\ DeploymentTime \in Nat /\ MaxFeeTime \in Nat
    /\ MaxFeeOperations \in Nat /\ MaxTokensStaked \in Nat

\* Redemptions pay in FIL, borrowings in the debt token.
Tokens == {"FIL", "debtToken"}

VARIABLES
    feeTime,                   \* block.timestamp
    baseRate,
    lastFeeOperationTime,
    stakes,
    totalProtocolTokenStaked,
    F,                         \* F_FIL and F_DebtToken
    unallocated,               \* unallocatedFIL and unallocatedDebtToken
    snapshots,                 \* of F, by staker
    fees,                      \* what the staking contract holds of each token
    peak,                      \* history: the rate at the last redemption, and its time
    feeOperations              \* history: borrowings and redemptions, counted

rateVars == <<feeTime, baseRate, lastFeeOperationTime, peak, feeOperations>>
stakeVars == <<stakes, totalProtocolTokenStaked, F, unallocated, snapshots, fees>>
feeVars == <<rateVars, stakeVars>>

AtMost(x, cap) == IF x <= cap THEN x ELSE cap

-----------------------------------------------------------------------------
(* The base rate.                                                          *)

TimePassed == feeTime - lastFeeOperationTime

minutesPassedSinceLastFeeOp == TimePassed \div SECONDS_IN_ONE_MINUTE

calcDecayedBaseRate ==
    (baseRate * decPow(MINUTE_DECAY_FACTOR, minutesPassedSinceLastFeeOp))
        \div DECIMAL_PRECISION

calcRedemptionRate(rate) == AtMost(REDEMPTION_FEE_FLOOR + rate, DECIMAL_PRECISION)

calcBorrowingRate(rate) == AtMost(BORROWING_FEE_FLOOR + rate, MAX_BORROWING_FEE)

\* mutant: the time moves at every operation, and part of a minute is lost.
LastFeeOpTimeAlways == feeTime

\* updateLastFeeOpTime: the time moves only if a whole minute has passed.
LastFeeOpTime ==
    IF TimePassed >= SECONDS_IN_ONE_MINUTE THEN feeTime ELSE lastFeeOperationTime

-----------------------------------------------------------------------------
(* The stakes.                                                             *)

PendingGain(u, token) ==
    (stakes[u] * (F[token] - snapshots[u][token])) \div DECIMAL_PRECISION

\* increaseF_FIL and increaseF_DebtToken, with the transfer of the fee: shared
\* among those who stake, or kept aside while nobody does.
CollectFee(token, fee) ==
    /\ fees' = [fees EXCEPT ![token] = @ + fee]
    /\ IF totalProtocolTokenStaked > 0
         THEN /\ F' = [F EXCEPT ![token] =
                    @ + (fee * DECIMAL_PRECISION) \div totalProtocolTokenStaked]
              /\ UNCHANGED unallocated
         ELSE /\ unallocated' = [unallocated EXCEPT ![token] = @ + fee]
              /\ UNCHANGED F
    /\ UNCHANGED <<stakes, totalProtocolTokenStaked, snapshots>>

\* mutant: the snapshots of a staker are taken at the first stake only.
UserSnapshotOnce(u) == IF stakes[u] = 0 THEN F ELSE snapshots[u]

\* What updateUserSnapshots stores.
UserSnapshot(u) == F

\* The gains of a staker are sent, and counted from now on.
SendGains(u) ==
    /\ \A token \in Tokens : PendingGain(u, token) <= fees[token]
    /\ fees' = [token \in Tokens |-> fees[token] - PendingGain(u, token)]
    /\ snapshots' = [snapshots EXCEPT ![u] = UserSnapshot(u)]

Stake(u, amount) ==
    /\ amount > 0 /\ totalProtocolTokenStaked + amount <= MaxTokensStaked
    /\ SendGains(u)
    /\ stakes' = [stakes EXCEPT ![u] = @ + amount]
    /\ totalProtocolTokenStaked' = totalProtocolTokenStaked + amount
    /\ UNCHANGED <<F, unallocated, rateVars>>

\* All of the stake, if the amount is more; of an amount of 0, the gains only.
Unstake(u, amount) ==
    LET withdrawn == AtMost(amount, stakes[u])
    IN /\ stakes[u] > 0
       /\ SendGains(u)
       /\ stakes' = [stakes EXCEPT ![u] = @ - withdrawn]
       /\ totalProtocolTokenStaked' = totalProtocolTokenStaked - withdrawn
       /\ UNCHANGED <<F, unallocated, rateVars>>

\* withdrawUnallocatedFIL and withdrawUnallocatedDebtToken, by the owner.
WithdrawUnallocated(token) ==
    /\ unallocated[token] <= fees[token]
    /\ fees' = [fees EXCEPT ![token] = @ - unallocated[token]]
    /\ unallocated' = [unallocated EXCEPT ![token] = 0]
    /\ UNCHANGED <<stakes, totalProtocolTokenStaked, F, snapshots, rateVars>>

-----------------------------------------------------------------------------
(* The operations that pay fees.                                           *)

FeeOperation ==
    /\ feeOperations < MaxFeeOperations
    /\ feeOperations' = feeOperations + 1
    /\ lastFeeOperationTime' = LastFeeOpTime
    /\ UNCHANGED feeTime

\* triggerBorrowingFee, in openTrove and in an adjustment that borrows: the
\* rate decays first, and the fee follows from what is left of it.
TriggerBorrowingFee(amount) ==
    /\ FeeOperation
    /\ baseRate' = calcDecayedBaseRate
    /\ CollectFee("debtToken",
                  (calcBorrowingRate(baseRate') * amount) \div DECIMAL_PRECISION)
    /\ UNCHANGED peak

\* The end of redeemCollateral: the rate decays and rises by a part of what is
\* redeemed.  A rate that stays 0 fails an assertion, and a fee that takes all
\* of the FIL a requirement.
RedeemFIL(FILDrawn, fraction) ==
    LET newBaseRate == AtMost(calcDecayedBaseRate + fraction \div BETA, DECIMAL_PRECISION)
        FILFee == (calcRedemptionRate(newBaseRate) * FILDrawn) \div DECIMAL_PRECISION
    IN /\ newBaseRate > 0
       /\ FILFee < FILDrawn
       /\ FeeOperation
       /\ baseRate' = newBaseRate
       /\ CollectFee("FIL", FILFee)
       /\ peak' = [rate |-> newBaseRate, time |-> feeTime]

FeeTick ==
    /\ feeTime < MaxFeeTime
    /\ feeTime' = feeTime + 1
    /\ UNCHANGED <<baseRate, lastFeeOperationTime, peak, feeOperations, stakeVars>>

FeesInit ==
    /\ feeTime = DeploymentTime
    /\ baseRate = 0
    /\ lastFeeOperationTime = 0
    /\ stakes = [u \in Stakers |-> 0]
    /\ totalProtocolTokenStaked = 0
    /\ F = [token \in Tokens |-> 0]
    /\ unallocated = [token \in Tokens |-> 0]
    /\ snapshots = [u \in Stakers |-> [token \in Tokens |-> 0]]
    /\ fees = [token \in Tokens |-> 0]
    /\ peak = [rate |-> 0, time |-> DeploymentTime]
    /\ feeOperations = 0

FeesNext ==
    \/ \E amount \in Borrowings : TriggerBorrowingFee(amount)
    \/ \E r \in Redemptions : RedeemFIL(r[1], r[2])
    \/ \E u \in Stakers, amount \in StakeAmounts : Stake(u, amount)
    \/ \E u \in Stakers, amount \in StakeAmounts : Unstake(u, amount)
    \/ \E token \in Tokens : WithdrawUnallocated(token)
    \/ FeeTick

FeesSpec == FeesInit /\ [][FeesNext]_feeVars

-----------------------------------------------------------------------------
(* Properties.                                                             *)

Decayed(minutes) ==
    (peak.rate * decPow(MINUTE_DECAY_FACTOR, minutes)) \div DECIMAL_PRECISION

SincePeak == feeTime - peak.time

\* However often somebody borrows, the rate decays: once within a minute, and
\* again within each two minutes less a second; and never by more than the
\* minutes since the last redemption, one begun before it included, but for a
\* unit that each operation may round off.  The time of the last operation
\* moves only with a whole minute (TroveManager.sol:1710-1717).
DecayKeepsPace ==
    /\ calcDecayedBaseRate <=
            Decayed((SincePeak + SECONDS_IN_ONE_MINUTE - 1)
                        \div (2 * SECONDS_IN_ONE_MINUTE - 1))
    /\ calcDecayedBaseRate + feeOperations >=
            Decayed((SincePeak + SECONDS_IN_ONE_MINUTE - 1) \div SECONDS_IN_ONE_MINUTE)

\* What the comment at TroveManager.sol:1710 says, that the rule on the time
\* "prevents base rate griefing", taken at its word: every minute decays.
NoMinuteIsLost ==
    calcDecayedBaseRate <= Decayed(SincePeak \div SECONDS_IN_ONE_MINUTE)

\* Time never raises the rate, which never exceeds 1: the assertion of
\* decayBaseRateFromBorrowing (TroveManager.sol:1700) never fails.
DecayedRateInRange ==
    calcDecayedBaseRate \in 0..baseRate /\ baseRate <= DECIMAL_PRECISION

Owed(token) == Total([u \in Stakers |-> PendingGain(u, token)])

\* The staking contract holds the gains of all stakers and what nobody earned,
\* in both tokens: no staker's gain, and no withdrawal by the owner, fails
\* because of what others were sent (ProtocolTokenStaking.sol:173-203).
FeesCovered ==
    \A token \in Tokens : Owed(token) + unallocated[token] <= fees[token]
=============================================================================
