------------------------------ MODULE Unipool ------------------------------
(***************************************************************************)
(* The rewards of liquidity providers (Unipool.sol): a fixed reward,       *)
(* streamed at a fixed rate over a duration, shared by those who stake at  *)
(* each moment.  While nobody stakes the clock stands still: the end of    *)
(* the program moves away, whether it was already reached or not.          *)
(***************************************************************************)
EXTENDS Sums

CONSTANTS
    Users,
    PRECISION,      \* 1e18: the scale of the reward per token
    duration,       \* of the program
    Amounts,        \* amounts staked or withdrawn
    initialReward,  \* protocol tokens allocated to the contract
    MaxTime,        \* bound on the clock
    MaxStaked       \* bound on the tokens staked

ASSUME UnipoolAssumption ==
    /\ IsFiniteSet(Users)
    /\ PRECISION \in Nat \ {0}
    /\ duration \in Nat \ {0}
    /\ initialReward \in Nat \ {0}
    /\ Amounts \subseteq Nat
    /\ MaxTime \in Nat /\ MaxStaked \in Nat

VARIABLES
    now,            \* block.timestamp
    started,        \* setParams was called: the token of the pair is set
    rewardRate,
    clock,          \* finish, last update, reward per token, and the time credited
    balances,
    totalSupply,
    paidPerToken,   \* userRewardPerTokenPaid
    rewards,
    held            \* protocol tokens of the contract

vars == <<now, started, rewardRate, clock, balances, totalSupply, paidPerToken,
          rewards, held>>

MinOf(a, b) == IF a <= b THEN a ELSE b

-----------------------------------------------------------------------------
(* The clock: periodFinish, lastUpdateTime, rewardPerTokenStored.  The time *)
(* during which somebody staked is counted as credited: history, no part of *)
(* the contract.                                                           *)

lastTimeRewardApplicable(k) == MinOf(now, k.finish)

rewardPerToken(k, supply) ==
    IF supply = 0 THEN k.perToken
    ELSE k.perToken + ((lastTimeRewardApplicable(k) - k.last) * rewardRate * PRECISION)
                         \div supply

\* mutant: the end moves only as long as it has not been reached.
ExtendedBeforeFinish(k, supply) ==
    IF supply = 0 THEN [k EXCEPT !.finish = @ + MinOf(now, @) - k.last] ELSE k

\* _updatePeriodFinish
Extended(k, supply) ==
    IF supply = 0 THEN [k EXCEPT !.finish = @ + now - k.last] ELSE k

\* _updateReward
Updated(k, supply) ==
    [finish   |-> k.finish,
     last     |-> lastTimeRewardApplicable(k),
     perToken |-> rewardPerToken(k, supply),
     credited |-> k.credited + (IF supply = 0 THEN 0
                                ELSE lastTimeRewardApplicable(k) - k.last)]

\* mutant: the reward per token is rounded up.
EarnedRoundedUp(u, perToken, balance, reward) ==
    (balance * (perToken - paidPerToken[u]) + PRECISION - 1) \div PRECISION + reward

Earned(u, perToken, balance, reward) ==
    (balance * (perToken - paidPerToken[u])) \div PRECISION + reward

\* earned: what a user can claim now.
earned(u) ==
    Earned(u, rewardPerToken(clock, totalSupply), balances[u], rewards[u])

-----------------------------------------------------------------------------
(* The operations.                                                         *)

\* setParams, once: the reward is the balance of the contract.
setParams ==
    /\ ~started
    /\ started' = TRUE
    /\ rewardRate' = held \div duration
    /\ clock' = [clock EXCEPT !.last = now, !.finish = now + duration]
    /\ UNCHANGED <<now, balances, totalSupply, paidPerToken, rewards, held>>

\* _updateAccountReward with the clock k.
Account(u, k) ==
    /\ rewards' = [rewards EXCEPT ![u] = Earned(u, k.perToken, balances[u], rewards[u])]
    /\ paidPerToken' = [paidPerToken EXCEPT ![u] = k.perToken]

stake(u, amount) ==
    LET k == Updated(Extended(clock, totalSupply), totalSupply)
    IN /\ started
       /\ amount > 0 /\ totalSupply + amount <= MaxStaked
       /\ clock' = k
       /\ Account(u, k)
       /\ totalSupply' = totalSupply + amount
       /\ balances' = [balances EXCEPT ![u] = @ + amount]
       /\ UNCHANGED <<now, started, rewardRate, held>>

withdraw(u, amount) ==
    LET k == Updated(clock, totalSupply)
    IN /\ started
       /\ amount > 0 /\ amount <= balances[u] /\ amount <= totalSupply
       /\ clock' = k
       /\ Account(u, k)
       /\ totalSupply' = totalSupply - amount
       /\ balances' = [balances EXCEPT ![u] = @ - amount]
       /\ UNCHANGED <<now, started, rewardRate, held>>

\* Pays all that user u has earned at the clock k.
Claim(u, k, reward) ==
    /\ reward > 0 /\ reward <= held
    /\ clock' = k
    /\ rewards' = [rewards EXCEPT ![u] = 0]
    /\ paidPerToken' = [paidPerToken EXCEPT ![u] = k.perToken]
    /\ held' = held - reward

claimReward(u) ==
    LET k == Updated(Extended(clock, totalSupply), totalSupply)
    IN /\ started
       /\ Claim(u, k, Earned(u, k.perToken, balances[u], rewards[u]))
       /\ UNCHANGED <<now, started, rewardRate, balances, totalSupply>>

\* withdraw of the whole balance and claimReward in one transaction: the second
\* finds the supply, and the clock, as the first leaves them.
withdrawAndClaim(u) ==
    LET left == totalSupply - balances[u]
        k == Updated(clock, totalSupply)
        j == Updated(Extended(k, left), left)
    IN /\ started
       /\ balances[u] > 0 /\ balances[u] <= totalSupply
       /\ Claim(u, j, Earned(u, k.perToken, balances[u], rewards[u]))
       /\ totalSupply' = left
       /\ balances' = [balances EXCEPT ![u] = 0]
       /\ UNCHANGED <<now, started, rewardRate>>

Tick ==
    /\ now < MaxTime
    /\ now' = now + 1
    /\ UNCHANGED <<started, rewardRate, clock, balances, totalSupply, paidPerToken,
                   rewards, held>>

Init ==
    /\ now = 0
    /\ started = FALSE
    /\ rewardRate = 0
    /\ clock = [finish |-> 0, last |-> 0, perToken |-> 0, credited |-> 0]
    /\ balances = [u \in Users |-> 0]
    /\ totalSupply = 0
    /\ paidPerToken = [u \in Users |-> 0]
    /\ rewards = [u \in Users |-> 0]
    /\ held = initialReward

Next ==
    \/ setParams
    \/ \E u \in Users, amount \in Amounts : stake(u, amount)
    \/ \E u \in Users, amount \in Amounts : withdraw(u, amount)
    \/ \E u \in Users : claimReward(u)
    \/ \E u \in Users : withdrawAndClaim(u)
    \/ Tick

Spec == Init /\ [][Next]_vars

-----------------------------------------------------------------------------
(* Properties.                                                             *)

Clocks == [finish : Nat, last : Nat, perToken : Nat, credited : Nat]

TypeOK ==
    /\ now \in Nat
    /\ started \in BOOLEAN
    /\ rewardRate \in Nat /\ totalSupply \in Nat /\ held \in Nat
    /\ clock \in Clocks
    /\ balances \in [Users -> Nat]
    /\ paidPerToken \in [Users -> Nat]
    /\ rewards \in [Users -> Nat]

\* The clock stands still while nobody stakes, and only then: what was credited
\* and what is left of the program are its duration, whatever the sequence of
\* stakes, withdrawals, claims and pauses, before and after the end.
PeriodIsKept ==
    started =>
        /\ clock.last <= now /\ clock.last <= clock.finish
        /\ clock.credited + (clock.finish - clock.last) = duration

Claimable == Total([u \in Users |-> earned(u)])

\* What the users can claim is held by the contract, together with what the rest of
\* the program will pay: nobody's claim fails because others claimed before
\* (Unipool.sol:229).
RewardsCovered ==
    started => Claimable + rewardRate * (clock.finish - lastTimeRewardApplicable(clock))
                 <= held
=============================================================================
