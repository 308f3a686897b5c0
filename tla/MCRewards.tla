----------------------------- MODULE MCRewards -----------------------------
(***************************************************************************)
(* What holders of the protocol token and liquidity providers earn, on     *)
(* small instances: the Unipool, and the fees with their staking contract. *)
(* The two contracts share neither state nor calls, only accounts, so that *)
(* a behaviour follows one of them: part says which.                       *)
(***************************************************************************)
EXTENDS Unipool, Fees, TLC

VARIABLE part

RewardsInit == Init /\ FeesInit /\ part \in {"liquidity", "fees"}

LiquidityStep == part = "liquidity" /\ Next /\ UNCHANGED <<feeVars, part>>

FeeStep == part = "fees" /\ FeesNext /\ UNCHANGED <<vars, part>>

RewardsNext == LiquidityStep \/ FeeStep

RewardsSpec == RewardsInit /\ [][RewardsNext]_<<vars, feeVars, part>>

\* A redemption of most of the supply, and one too small to
\* raise the rate.
MCRedemptions == {<<10, 1600>>, <<4, 1>>}

UserSymmetry == Permutations(Users)
=============================================================================
