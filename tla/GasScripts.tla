----------------------------- MODULE GasScripts -----------------------------
(***************************************************************************)
(* The scripts of src/gasTest that liquidate and redeem up to 65 troves,   *)
(* run on the model: each `it` is a sequence of transactions and of        *)
(* assertions on the state between them.                                   *)
(*                                                                         *)
(* The troves are as many as in the scripts.  Amounts are whole numbers of *)
(* the units given by the constants; where the scripts use hundreds of FIL *)
(* a trove is a hundredth (a twentieth) of theirs, and the whale, which    *)
(* has to be larger than all defaulters together, owns thousands and not a *)
(* billion.  Ratios are those of the scripts.                              *)
(***************************************************************************)
EXTENDS TroveSystem, HintHelpers

CONSTANTS
    FIL_UNITS,      \* units of collateral to a FIL
    TOKEN_UNITS     \* units of debt to a debt token

VARIABLES
    script,         \* the script that is run
    pos,            \* its next operation
    hints           \* of the last redemption, with the tokens held before it

scriptVars == <<script, pos, hints>>

\* The whale of the redemptions is an account of its own, here 997; that of the
\* liquidations is signers[999].
Signers == 0 .. 65 \cup 97 .. 130 \cup {500, 997, 998, 999}

\* signers.slice(from, to)
Slice(from, to) == [i \in 1 .. to - from |-> from + i - 1]

\* signers[1] and on are the defaulters, signers[101] to [110] stay open.
Initial == Slice(101, 111)
Defaulters(n) == Slice(1, n + 1)

-----------------------------------------------------------------------------
(* Operations.                                                             *)

Position(FIL, tokens) == [coll |-> FIL * FIL_UNITS, debt |-> tokens * TOKEN_UNITS]

\* dec(1, 27) FIL and tokens, and dec(1, 27) FIL with dec(9, 28) tokens.
Whale == Position(7000, 7000)
RecoveryWhale == Position(100, 9000)

Open(account, p) == <<[op |-> "openTrove", who |-> account, coll |-> p.coll, debt |-> p.debt]>>
OpenAll(accounts, p) == FlattenSeq([i \in DOMAIN accounts |-> Open(accounts[i], p)])

Price(p) == <<[op |-> "setPrice", price |-> (p * DECIMAL_PRECISION * TOKEN_UNITS) \div FIL_UNITS]>>
Provide(p) == <<[op |-> "provideToSP", amount |-> p.debt]>>
ProvideTokens(tokens) == Provide(Position(0, tokens))
Borrow(account, tokens) ==
    <<[op |-> "withdrawDebtToken", who |-> account, amount |-> tokens * TOKEN_UNITS]>>
BorrowAll(accounts, tokens) ==
    FlattenSeq([i \in DOMAIN accounts |-> Borrow(accounts[i], tokens)])
RepayAll(accounts, tokens) ==
    FlattenSeq([i \in DOMAIN accounts |->
        <<[op |-> "repayDebtToken", who |-> accounts[i], amount |-> tokens * TOKEN_UNITS]>>])
Sequence(n) == <<[op |-> "liquidateTroves", n |-> n]>>
Batch(accounts) == <<[op |-> "batchLiquidateTroves", who |-> accounts]>>
Liquidate(account) == Batch(<<account>>)

AreOpen(accounts) == <<[op |-> "assert", that |-> "open", who |-> accounts]>>
AreClosed(accounts) == <<[op |-> "assert", that |-> "closed", who |-> accounts]>>
HavePendingRewards(accounts) == <<[op |-> "assert", that |-> "pending", who |-> accounts]>>
ICRsBetween100And110(accounts) == <<[op |-> "assert", that |-> "between", who |-> accounts]>>
IsRecoveryMode == <<[op |-> "assert", that |-> "recovery"]>>
IsNormalMode == <<[op |-> "assert", that |-> "normal"]>>
PoolHolds(p) == <<[op |-> "assert", that |-> "deposits", amount |-> p.debt]>>
PoolHoldsLessThan(p) == <<[op |-> "assert", that |-> "offset", amount |-> p.debt]>>

\* A redemption, with the hints of the moment, redeems all it is asked for.
Redeem(tokens) ==
    <<[op |-> "redeemCollateral", amount |-> tokens * TOKEN_UNITS],
      [op |-> "assert", that |-> "redeemed", amount |-> tokens * TOKEN_UNITS]>>

-----------------------------------------------------------------------------
(* The amounts: of the initial troves, of the defaulters, and of account   *)
(* 500.                                                                    *)

Hundredth(FIL, tokens) == Position(FIL \div 100, tokens \div 100)

Small == [initial |-> Position(10, 100), defaulter |-> Position(1, 100),
          first |-> Position(1, 100)]
Large == [initial |-> Hundredth(1000, 10000), defaulter |-> Hundredth(100, 9500),
          first |-> Hundredth(100, 10000)]

\* A twentieth of 200 FIL and 2000 tokens, and of 20 FIL and 2000 tokens.
Twenties == [initial |-> Position(10, 100), defaulter |-> Position(1, 100),
             first |-> Position(1, 100)]

Indebted == [initial |-> Position(10, 900), defaulter |-> Position(1, 100),
             first |-> Position(1, 60)]
IndebtedLarge == [initial |-> Hundredth(1000, 90000), defaulter |-> Hundredth(100, 9500),
                  first |-> Hundredth(100, 9500)]
Batches == [initial |-> Hundredth(100, 13000), defaulter |-> Hundredth(100, 13000),
            first |-> Hundredth(100, 13000)]

-----------------------------------------------------------------------------
(* What the scripts of a family have in common.                            *)

\* Account 500 is liquidated, which gives the others pending rewards.
Redistributes500 == Liquidate(500) \o AreClosed(<<500>>)

Opens500(a) == Open(500, a.first) \o AreOpen(<<500>>)

DefaultersOpen(n, a) == OpenAll(Defaulters(n), a.defaulter) \o AreOpen(Defaulters(n))

\* Normal mode, an empty pool: each liquidation gives more to those that follow.
Redistribution(n, a, liquidate) ==
    OpenAll(Initial, a.initial) \o DefaultersOpen(n, a) \o Opens500(a)
      \o Price(100) \o Redistributes500 \o IsNormalMode
      \o liquidate \o AreClosed(Defaulters(n))

\* With 110 tokens account 500 is the last of the list: a sequence of one finds it.
RedistributionBySequence(n) ==
    LET a == [Small EXCEPT !.first = Position(1, 110)]
    IN  OpenAll(Initial, a.initial) \o DefaultersOpen(n, a) \o Opens500(a)
          \o Price(100) \o (IF n = 1 THEN IsNormalMode ELSE <<>>)
          \o Sequence(1) \o AreClosed(<<500>>)
          \o IsNormalMode \o Sequence(n) \o AreClosed(Defaulters(n))

\* Normal mode, and the pool takes everything.
FullOffset(n, a, liquidate) ==
    OpenAll(Initial, a.initial) \o Open(999, Whale) \o Provide(Whale)
      \o DefaultersOpen(n, a)
      \o Price(100) \o IsNormalMode \o liquidate \o AreClosed(Defaulters(n))

\* The same when the defaulters have pending rewards.
PendingOffset(n, a, liquidate) ==
    OpenAll(Initial, a.initial) \o Opens500(a) \o DefaultersOpen(n, a)
      \o Price(100) \o Redistributes500 \o Price(200)
      \o Open(999, Whale) \o Provide(Whale) \o PoolHolds(Whale)
      \o Price(100) \o IsNormalMode \o liquidate \o AreClosed(Defaulters(n))

InitialOpen(a) == OpenAll(Initial, a.initial) \o AreOpen(Initial)

\* In recovery mode the sequence leaves the initial troves open.
LiquidateInRecovery(n) ==
    Sequence(n) \o IsRecoveryMode \o AreClosed(Defaulters(n)) \o AreOpen(Initial)

RecoveryRedistribution(n, a) ==
    InitialOpen(a) \o DefaultersOpen(n, a) \o Opens500(a)
      \o Price(10) \o Redistributes500 \o IsRecoveryMode \o LiquidateInRecovery(n)

WhaleProvides == Open(999, RecoveryWhale) \o Provide(RecoveryWhale) \o PoolHolds(RecoveryWhale)

OffsetInRecovery(n, fall) ==
    Price(fall) \o IsRecoveryMode \o ICRsBetween100And110(Defaulters(n))
      \o LiquidateInRecovery(n) \o AreOpen(<<999>>) \o PoolHoldsLessThan(RecoveryWhale)

RecoveryOffset(n, a, fall) ==
    InitialOpen(a) \o WhaleProvides \o DefaultersOpen(n, a) \o OffsetInRecovery(n, fall)

RecoveryPendingOffset(n, a, fall) ==
    InitialOpen(a) \o DefaultersOpen(n, a) \o Opens500(a)
      \o Price(10) \o Redistributes500 \o Price(200) \o HavePendingRewards(Defaulters(n))
      \o WhaleProvides \o OffsetInRecovery(n, fall)

RecoveryBatch(n, a, deposit) ==
    OpenAll(Initial, a.initial) \o Open(500, a.first) \o DefaultersOpen(n, a)
      \o Price(10) \o Liquidate(500) \o Price(200) \o deposit
      \o Price(10) \o Batch(Defaulters(n)) \o AreClosed(Defaulters(n))

RecoveryRedistributionBatch(n, a) == RecoveryBatch(n, a, <<>>)
RecoveryOffsetBatch(n, a) == RecoveryBatch(n, a, Open(999, Whale) \o Provide(Whale))

-----------------------------------------------------------------------------
(* gasCalc_liquidateTroves.js                                              *)

Redistribution1 == RedistributionBySequence(1)
Redistribution2 == RedistributionBySequence(2)
Redistribution3 == Redistribution(3, Small, Sequence(3))
Redistribution5 == Redistribution(5, Small, Sequence(5))
Redistribution10 == Redistribution(10, Small, Sequence(10))
Redistribution20 == Redistribution(20, Small, Sequence(20))
Redistribution30 == Redistribution(30, Small, Sequence(30))
Redistribution40 == Redistribution(40, Small, Sequence(40))
Redistribution45 == Redistribution(45, Small, Sequence(45))
Redistribution50 == Redistribution(50, Large, Sequence(50))
Redistribution60 == Redistribution(60, Small, Sequence(60))
Redistribution65 ==
    Redistribution(65, [Small EXCEPT !.initial = Position(15, 100)], Sequence(65))
FullOffset1 == FullOffset(1, Small, Sequence(1))
FullOffset2 == FullOffset(2, Small, Sequence(2))
FullOffset3 == FullOffset(3, Small, Sequence(3))
FullOffset5 == FullOffset(5, Small, Sequence(5))
FullOffset10 == FullOffset(10, Small, Sequence(10))
FullOffset20 == FullOffset(20, Small, Sequence(20))
FullOffset30 == FullOffset(30, Small, Sequence(30))
FullOffset40 == FullOffset(40, Small, Sequence(40))
FullOffset50 == FullOffset(50, Large, Sequence(50))
FullOffset55 == FullOffset(55, Small, Sequence(55))
PendingOffset1 == PendingOffset(1, Small, Sequence(1))
PendingOffset2 == PendingOffset(2, Small, Sequence(2))
PendingOffset3 == PendingOffset(3, Small, Sequence(3))
PendingOffset5 == PendingOffset(5, Small, Sequence(5))
PendingOffset10 == PendingOffset(10, Small, Sequence(10))
PendingOffset20 == PendingOffset(20, Small, Sequence(20))
PendingOffset30 == PendingOffset(30, Small, Sequence(30))
PendingOffset40 == PendingOffset(40, Small, Sequence(40))
PendingOffset45 == PendingOffset(45, Small, Sequence(45))
PendingOffset50 == PendingOffset(50, Large, Sequence(50))
RedistributionBatch10 == Redistribution(10, Twenties, Batch(Defaulters(10)))
RedistributionBatch50 == Redistribution(50, Twenties, Batch(Defaulters(50)))
FullOffsetBatch10 == FullOffset(10, Twenties, Batch(Defaulters(10)))
FullOffsetBatch50 == FullOffset(50, Twenties, Batch(Defaulters(50)))
PendingOffsetBatch10 == PendingOffset(10, Twenties, Batch(Defaulters(10)))
PendingOffsetBatch50 == PendingOffset(50, Twenties, Batch(Defaulters(50)))

-----------------------------------------------------------------------------
(* gasCalc_liquidateTroves_RecoveryMode.js                                 *)

RecoveryRedistribution1 == RecoveryRedistribution(1, Indebted)
RecoveryRedistribution2 == RecoveryRedistribution(2, Indebted)
RecoveryRedistribution3 == RecoveryRedistribution(3, Indebted)
RecoveryRedistribution5 == RecoveryRedistribution(5, Indebted)
RecoveryRedistribution10 == RecoveryRedistribution(10, Indebted)
RecoveryRedistribution20 == RecoveryRedistribution(20, Indebted)
RecoveryRedistribution30 == RecoveryRedistribution(30, Indebted)
RecoveryRedistribution40 == RecoveryRedistribution(40, Indebted)
RecoveryRedistribution45 == RecoveryRedistribution(45, IndebtedLarge)
RecoveryOffset1 == RecoveryOffset(1, Indebted, 110)
RecoveryOffset2 == RecoveryOffset(2, Indebted, 110)
RecoveryOffset3 == RecoveryOffset(3, Indebted, 110)
RecoveryOffset5 == RecoveryOffset(5, Indebted, 110)
RecoveryOffset10 == RecoveryOffset(10, Indebted, 110)
RecoveryOffset20 == RecoveryOffset(20, Indebted, 110)
RecoveryOffset30 == RecoveryOffset(30, Indebted, 110)
RecoveryOffset40 == RecoveryOffset(40, Indebted, 110)
RecoveryOffset45 == RecoveryOffset(45, IndebtedLarge, 100)
RecoveryPendingOffset1 ==
    RecoveryPendingOffset(1, [Indebted EXCEPT !.first = Position(1, 110)], 110)
RecoveryPendingOffset2 ==
    RecoveryPendingOffset(2, [Indebted EXCEPT !.first = Position(1, 110)], 110)
RecoveryPendingOffset3 ==
    RecoveryPendingOffset(3, [Indebted EXCEPT !.first = Position(1, 110)], 110)
RecoveryPendingOffset5 ==
    RecoveryPendingOffset(5, [Indebted EXCEPT !.first = Position(1, 110)], 110)
RecoveryPendingOffset10 ==
    RecoveryPendingOffset(10, [Indebted EXCEPT !.first = Position(1, 110)], 110)
RecoveryPendingOffset20 ==
    RecoveryPendingOffset(20, [Indebted EXCEPT !.first = Position(1, 110)], 110)
RecoveryPendingOffset30 ==
    RecoveryPendingOffset(30, [Indebted EXCEPT !.first = Position(1, 110)], 110)
RecoveryPendingOffset40 ==
    RecoveryPendingOffset(40, [Indebted EXCEPT !.first = Position(1, 110)], 110)
RecoveryPendingOffset45 ==
    RecoveryPendingOffset(45, [IndebtedLarge EXCEPT !.first = Hundredth(100, 11000)], 100)
RecoveryRedistributionBatch10 ==
    RecoveryRedistributionBatch(10, [Batches EXCEPT !.initial = Hundredth(1000, 13000)])
RecoveryRedistributionBatch40 == RecoveryRedistributionBatch(40, Batches)
RecoveryRedistributionBatch45 ==
    RecoveryRedistributionBatch(45, [Batches EXCEPT !.initial = Hundredth(1000, 13000)])
RecoveryRedistributionBatch50 == RecoveryRedistributionBatch(50, Batches)
RecoveryOffsetBatch10 ==
    RecoveryOffsetBatch(10, [Batches EXCEPT !.initial = Hundredth(1000, 13000)])
RecoveryOffsetBatch40 ==
    RecoveryOffsetBatch(40, [Batches EXCEPT !.initial = Hundredth(100, 10000)])
RecoveryOffsetBatch45 == RecoveryOffsetBatch(45, Batches)
RecoveryOffsetBatch50 == RecoveryOffsetBatch(50, Batches)

-----------------------------------------------------------------------------
(* gasCalc.js: views, repayments, redemptions and single liquidations.     *)

OpenAndBorrow(accounts, FIL, tokens, more) ==
    OpenAll(accounts, Position(FIL, tokens)) \o BorrowAll(accounts, more)

Accounts10 == Slice(0, 10)
Accounts20 == Slice(0, 20)
Accounts30 == Slice(0, 30)
Hundreds == Slice(100, 110)

NewTroves == OpenAll(Accounts10, Position(10, 20))
TrovesThatBorrow == OpenAndBorrow(Accounts10, 10, 20, 100)

RepayInFull ==
    OpenAndBorrow(Accounts30, 10, 20, 100)
      \o RepayAll(Accounts30, 50) \o RepayAll(Accounts30, 50)

\* Three scripts measure the same state: ten troves with pending rewards.
TrovesWithPending ==
    OpenAll(Accounts10, Position(10, 100)) \o Open(999, Position(1, 130))
      \o Price(100) \o Liquidate(999) \o HavePendingRewards(Accounts10)

RedeemFromOne == OpenAndBorrow(<<0>>, 10, 20, 100) \o Redeem(50)

ThreeSigners ==
    OpenAll(Slice(0, 3), Position(10, 20))
      \o Borrow(0, 100) \o Borrow(1, 90) \o Borrow(2, 80)

RedeemFromThree == ThreeSigners \o Redeem(50)

\* The whale opens a trove and borrows what it redeems.
WhaleBorrows(tokens) == Open(997, Position(200, 100)) \o Borrow(997, tokens)

Redeem101 == OpenAndBorrow(Accounts10, 10, 20, 100) \o WhaleBorrows(500) \o Redeem(101)
Redeem450 == OpenAndBorrow(Accounts10, 10, 20, 100) \o WhaleBorrows(450) \o Redeem(450)
Redeem500 == OpenAndBorrow(Accounts10, 10, 20, 100) \o WhaleBorrows(500) \o Redeem(500)
Redeem1000 == OpenAndBorrow(Accounts10, 10, 20, 100) \o WhaleBorrows(1000) \o Redeem(1000)
Redeem1500 == OpenAndBorrow(Accounts20, 10, 20, 100) \o WhaleBorrows(1500) \o Redeem(1500)
Redeem2000 == OpenAndBorrow(Accounts30, 10, 20, 100) \o WhaleBorrows(2000) \o Redeem(2000)

\* Account 998 gives all others pending rewards.
Redistributes998 == OpenAndBorrow(<<998>>, 1, 20, 130) \o Price(100) \o Liquidate(998)

PendingRedeemFromOne ==
    OpenAndBorrow(<<1>>, 10, 20, 100) \o Redistributes998 \o Redeem(50)
PendingRedeemFromThree == ThreeSigners \o Redistributes998 \o Redeem(50)

PendingRedeem(accounts, tokens) ==
    OpenAndBorrow(accounts, 10, 20, 100) \o WhaleBorrows(tokens)
      \o Redistributes998 \o Redeem(tokens)

PendingRedeem500 == PendingRedeem(Accounts10, 500)
PendingRedeem1000 == PendingRedeem(Accounts10, 1000)
PendingRedeem1500 == PendingRedeem(Accounts20, 1500)
PendingRedeem2000 == PendingRedeem(Accounts30, 2000)

LiquidatePending ==
    OpenAndBorrow(Hundreds, 10, 100, 130) \o OpenAll(Slice(0, 6), Position(1, 130))
      \o Price(100) \o Liquidate(2) \o Liquidate(3)
      \o AreOpen(<<1>>) \o Liquidate(1) \o AreClosed(<<1>>)

LiquidateNotPending ==
    OpenAndBorrow(Hundreds, 10, 100, 130) \o OpenAndBorrow(<<2, 3>>, 1, 20, 130)
      \o Price(40) \o Liquidate(2) \o Liquidate(3) \o Open(1, Position(1, 20))
      \o Price(20) \o AreOpen(<<1>>) \o Liquidate(1) \o AreClosed(<<1>>)

LiquidateEachNotPending ==
    OpenAndBorrow(Hundreds, 10, 100, 130)
      \o FlattenSeq([i \in 1 .. 19 |->
            (IF i = 1 THEN <<>> ELSE Price(200)) \o Open(i, Position(1, 130))
              \o Price(100) \o Liquidate(i) \o AreClosed(<<i>>)])

OffsetNotPending ==
    OpenAndBorrow(Hundreds, 10, 100, 130) \o OpenAll(Slice(0, 4), Position(1, 20))
      \o BorrowAll(<<1, 2, 3>>, 130) \o Price(100)
      \o Borrow(100, 600) \o ProvideTokens(600)
      \o Liquidate(2) \o Liquidate(3) \o Liquidate(1)

OffsetPending ==
    OpenAndBorrow(Hundreds, 10, 100, 130) \o OpenAll(Slice(0, 5), Position(1, 20))
      \o BorrowAll(<<1, 2, 3, 4>>, 130) \o Price(100)
      \o Borrow(100, 600) \o ProvideTokens(360)
      \o Liquidate(2) \o Liquidate(3) \o Liquidate(4)
      \o ProvideTokens(200) \o Liquidate(1)

PartialOffsetPending ==
    OpenAndBorrow(Hundreds, 10, 100, 130) \o OpenAll(Slice(0, 4), Position(1, 20))
      \o BorrowAll(<<1, 2, 3>>, 130) \o Price(100)
      \o ProvideTokens(100) \o Liquidate(2) \o ProvideTokens(100) \o Liquidate(3)
      \o ProvideTokens(100) \o Liquidate(1)

PartialOffsetNotPending ==
    OpenAndBorrow(Hundreds, 10, 100, 130) \o OpenAndBorrow(<<2, 3>>, 1, 20, 130)
      \o Price(40) \o ProvideTokens(100) \o Liquidate(2)
      \o ProvideTokens(100) \o Liquidate(3) \o ProvideTokens(50)
      \o Open(1, Position(1, 30)) \o Price(20) \o Liquidate(1)

OffsetAmongThirty ==
    OpenAndBorrow(Slice(100, 130), 10, 100, 130) \o ProvideTokens(130)
      \o OpenAndBorrow(<<1>>, 1, 20, 130) \o Price(100) \o Liquidate(1)

Scripts == <<
    NewTroves, TrovesThatBorrow, RepayInFull, TrovesWithPending,
    RedeemFromOne, RedeemFromThree, Redeem101, Redeem450, Redeem500,
    Redeem1000, Redeem1500, Redeem2000, PendingRedeemFromOne,
    PendingRedeemFromThree, PendingRedeem500, PendingRedeem1000,
    PendingRedeem1500, PendingRedeem2000, LiquidatePending,
    LiquidateNotPending, LiquidateEachNotPending, OffsetNotPending,
    OffsetPending, PartialOffsetPending, PartialOffsetNotPending,
    OffsetAmongThirty,
    Redistribution1, Redistribution2, Redistribution3, Redistribution5,
    Redistribution10, Redistribution20, Redistribution30, Redistribution40,
    Redistribution45, Redistribution50, Redistribution60, Redistribution65,
    FullOffset1, FullOffset2, FullOffset3, FullOffset5, FullOffset10, FullOffset20,
    FullOffset30, FullOffset40, FullOffset50, FullOffset55, PendingOffset1,
    PendingOffset2, PendingOffset3, PendingOffset5, PendingOffset10,
    PendingOffset20, PendingOffset30, PendingOffset40, PendingOffset45,
    PendingOffset50, RedistributionBatch10, RedistributionBatch50,
    FullOffsetBatch10, FullOffsetBatch50, PendingOffsetBatch10,
    PendingOffsetBatch50, RecoveryRedistribution1, RecoveryRedistribution2,
    RecoveryRedistribution3, RecoveryRedistribution5, RecoveryRedistribution10,
    RecoveryRedistribution20, RecoveryRedistribution30, RecoveryRedistribution40,
    RecoveryRedistribution45, RecoveryOffset1, RecoveryOffset2, RecoveryOffset3,
    RecoveryOffset5, RecoveryOffset10, RecoveryOffset20, RecoveryOffset30,
    RecoveryOffset40, RecoveryOffset45, RecoveryPendingOffset1,
    RecoveryPendingOffset2, RecoveryPendingOffset3, RecoveryPendingOffset5,
    RecoveryPendingOffset10, RecoveryPendingOffset20, RecoveryPendingOffset30,
    RecoveryPendingOffset40, RecoveryPendingOffset45, RecoveryRedistributionBatch10,
    RecoveryRedistributionBatch40, RecoveryRedistributionBatch45,
    RecoveryRedistributionBatch50, RecoveryOffsetBatch10, RecoveryOffsetBatch40,
    RecoveryOffsetBatch45, RecoveryOffsetBatch50 >>

-----------------------------------------------------------------------------
(* Running a script.                                                       *)

NoHints == [firstRedemptionHint |-> 0, partialRedemptionHintNICR |-> 0,
            truncatedDebtTokenAmount |-> 0, held |-> 0]

\* beforeEach: the contracts are deployed anew, and the price is 200.
ScriptInit ==
    /\ Init
    /\ script \in DOMAIN Scripts
    /\ pos = 1
    /\ hints = NoHints

Finished == pos > Len(Scripts[script])
Now == Scripts[script][pos]

\* A trove goes to the last of the places where it is in order.
PlacedLast(list, u, nicr) == InsertAt(list, Max(InsertPositions(list, nicr)), u)

\* The base rate is 0: the fee is half a percent, and none in recovery mode.
FloorFee(amount) == IF RecoveryMode THEN 0 ELSE amount \div 200

DoOpenTrove(u, coll, debt) ==
    LET nicr == ComputeNominalCR(coll, CompositeDebt(debt + FloorFee(debt)))
    IN  /\ sortedTroves' = PlacedLast(sortedTroves, u, nicr)
        /\ OpenTroveAtFee(u, coll, debt, FloorFee(debt))

DoAdjustDebt(u, change, isIncrease) ==
    LET fee  == IF isIncrease THEN FloorFee(change) ELSE 0
        debt == IF isIncrease THEN EntireDebt(u) + change + fee ELSE EntireDebt(u) - change
        nicr == ComputeNominalCR(EntireColl(u), debt)
    IN  /\ sortedTroves' = PlacedLast(Remove(sortedTroves, u), u, nicr)
        /\ AdjustTroveAtFee(u, 0, 0, change, isIncrease, fee)
        /\ UNCHANGED stabilityPool

\* performRedemptionTx asks for the hints and redeems the whole amount with them.
DoRedeemCollateral(amount) ==
    \E h \in getRedemptionHints(amount, 0) :
      /\ BeginRedemption(amount, 0)
      /\ Len(redemption'.todo) = h.firstRedemptionHint
      /\ hints' = [held |-> balanceOf["users"]] @@ h

\* A call of the script.
Call ==
    /\ Idle /\ ~Finished
    /\ \/ /\ \/ Now.op = "openTrove" /\ DoOpenTrove(Now.who, Now.coll, Now.debt)
             \/ Now.op = "withdrawDebtToken" /\ DoAdjustDebt(Now.who, Now.amount, TRUE)
             \/ Now.op = "repayDebtToken" /\ DoAdjustDebt(Now.who, Now.amount, FALSE)
             \/ Now.op = "setPrice" /\ SetPrice(Now.price)
             \/ Now.op = "provideToSP" /\ ProvideToSP(Now.amount, 0)
             \/ Now.op = "liquidateTroves" /\ BeginSequence(Now.n)
             \/ Now.op = "batchLiquidateTroves" /\ BeginBatch(Now.who)
          /\ UNCHANGED hints
       \/ Now.op = "redeemCollateral" /\ DoRedeemCollateral(Now.amount)
    /\ pos' = pos + 1
    /\ UNCHANGED script

InList(u) == Contains(sortedTroves, u)

Holds(claim) ==
    CASE claim.that = "open" -> \A u \in ToSet(claim.who) : InList(u)
      [] claim.that = "closed" -> \A u \in ToSet(claim.who) : ~InList(u)
      [] claim.that = "pending" -> \A u \in ToSet(claim.who) : hasPendingRewards(u)
      [] claim.that = "between" -> \A u \in ToSet(claim.who) :
            getCurrentICR(u) > _100pct /\ getCurrentICR(u) < MCR
      [] claim.that = "recovery" -> RecoveryMode
      [] claim.that = "normal" -> ~RecoveryMode
      [] claim.that = "deposits" -> stabilityPool.deposits = claim.amount
      [] claim.that = "offset" -> stabilityPool.deposits \in 1 .. claim.amount - 1
      [] claim.that = "redeemed" ->
            /\ hints.truncatedDebtTokenAmount = claim.amount
            /\ balanceOf["users"] = hints.held - claim.amount

\* A script ends at the first assertion that fails.
MakeAssertion ==
    /\ Idle /\ ~Finished
    /\ Now.op = "assert" /\ Holds(Now)
    /\ pos' = pos + 1
    /\ UNCHANGED <<vars, script, hints>>

\* The partial redemption is made if the trove ends up with the ratio of the hint
\* and enough debt.
HintStillRight(u) ==
    LET debt == RedeemedDebt(u) - DebtLot(u)
    IN  /\ ComputeNominalCR(RedeemedColl(u) - FILLot(u), debt) = hints.partialRedemptionHintNICR
        /\ EnoughDebtLeft(debt)

\* The transaction that was called goes on.
Continue ==
    /\ \/ LiquidationStep
       \/ \E u \in Users :
            \/ RedeemAndClose(u)
            \/ RedeemPartially(u) /\ HintStillRight(u)
            \/ CancelPartial(u) /\ ~HintStillRight(u)
       \/ SettleRedemption
    /\ UNCHANGED scriptVars

ScriptNext == Call \/ MakeAssertion \/ Continue

\* The scripts wait for each transaction, and the node mines it at once.
ScriptSpec ==
    ScriptInit /\ [][ScriptNext]_<<vars, scriptVars>> /\ WF_<<vars, scriptVars>>(ScriptNext)

-----------------------------------------------------------------------------
(* Properties.                                                             *)

\* Every transaction of every script succeeds and every assertion holds, so that the
\* script comes to its end: long sequences and batches close exactly the troves they
\* should, in both modes, with what the troves before them redistributed, and a
\* redemption whose hints are those of the moment redeems all they promise, from
\* troves with pending rewards too.
ScriptsFinish == <>Finished

=============================================================================
